SPECIFICATION FairSpec
CONSTANTS
    Operators = {}
    Automatic = TRUE
    Overlap = FALSE
    Bl2Gate = FALSE
    IOFaults = TRUE
    PowerCuts = TRUE
INVARIANT CompleteMeansVerified
PROPERTIES AutoflashConcludes ImplementsBoard
