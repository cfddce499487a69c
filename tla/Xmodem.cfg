SPECIFICATION XmodemFairSpec
CONSTANTS
    Total = 5
    Modulus = 4
    Tries = 3
    MaxLate = 2
    MaxAsked = 2
INVARIANTS InOrder SuccessIsDelivery
PROPERTY SenderReturns
CHECK_DEADLOCK FALSE
