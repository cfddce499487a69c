SPECIFICATION FairSpec
CONSTANTS
    Operators = {op1}
    Automatic = TRUE
    Overlap = FALSE
    Bl2Gate = TRUE
    IOFaults = TRUE
    PowerCuts = TRUE
INVARIANTS Bl2Last SafeToPowerCycleIsTrue FormatOnlyIfBl2Writable
PROPERTIES ImplementsSwitch CommandsEnd
