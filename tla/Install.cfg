SPECIFICATION Spec
CONSTANTS
  Boards = {b1, b2}
  None = None
  MaxGen = 1
  Attempts = 3
  Budget = 2
INVARIANTS
  FlashedFromOwnBackup
  AliveWorkerIsWatched
PROPERTY InstallEnds
