SPECIFICATION FairSpec
CONSTANTS
    Attempts = {a1, a2}
    Overlap = FALSE
    IOFaults = TRUE
    PowerCuts = TRUE
    StockWrites = TRUE
INVARIANTS EnvOnlyOverBundle
PROPERTIES ImplementsSwitch WorkerEnds
