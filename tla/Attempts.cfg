SPECIFICATION Spec
CONSTANTS
  BudgetLimits <- ShippedLimits
  RecoveryConfig <- ShippedRecovery
  Stalling <- ShippedStalls
  Loops = {"turns", "recovery"}
  Signals <- MCSignals
  Attempts <- MCAttempts
  Steps <- MCSteps
INVARIANTS
  EffectAtMostOnce
  RetriesBounded
CHECK_DEADLOCK FALSE
