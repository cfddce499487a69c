SPECIFICATION Spec
CONSTANTS
  Layouts <- MCLayouts
  Sessions = 3
  Sends = 3
INVARIANTS
  NothingEnabledInVain
  OpenIsOurFamily
  LauncherAgrees
