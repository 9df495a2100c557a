SPECIFICATION Spec
CONSTANTS
  BudgetLimits <- ShippedLimits
  RecoveryConfig <- ShippedRecovery
  Stalling <- ShippedStalls
  Runs = {r1}
  Kids = {k1, k2}
  WallClock = 2
  MaxCrashes = 2
INVARIANTS
  RowsTellTheTruth
  CancelLeavesNoOrphan
PROPERTIES
  OverdueWorkerStops
CHECK_DEADLOCK FALSE
