SPECIFICATION FairSpec
CONSTANTS
    Blocks = 8
    Stock = 7
    Mutable <- MCMutable
    ChunkSize = 3
    Loads = 3
    MaxBad = 2
    MaxNoise = 2
    MaxUpsets = 2
INVARIANT DoneIsRestored
PROPERTIES Bl2OverStockImage RestoredAtLast
CHECK_DEADLOCK FALSE
