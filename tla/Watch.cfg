SPECIFICATION WatchFairSpec
CONSTANTS
  Watches = 1
  Holders = {"late"}
INVARIANT StepsAreProven
PROPERTIES SysupgradeOverNewChain NetCatches ProductionIsNoticed
CHECK_DEADLOCK FALSE
