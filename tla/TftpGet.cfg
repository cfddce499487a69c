SPECIFICATION FairSpec
CONSTANTS
    Blocks = 4
    Wrap = 2
    ServerTries = 3
    ClientTries = 2
    Starts = 2
    Room = 3
    Rescues = {TRUE, FALSE}
    Faults = TRUE
INVARIANTS WrittenInOrder SuccessIsDelivery
PROPERTY BothEndsReturn
CHECK_DEADLOCK FALSE
