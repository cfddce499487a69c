SPECIFICATION Spec
CONSTANTS
  Images = {X, Y}
  Rounds = 3
  MaxStrays = 2
INVARIANT ImageKept
PROPERTY TransferEnds
