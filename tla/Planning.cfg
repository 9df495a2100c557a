SPECIFICATION Spec
CONSTANTS
  Documents <- MCDocuments
  Limits <- MCLimits
  MaxAttempts = 2
  MaxRevisions = 3
  MaxFills = 2
  Patterns <- MCPatterns
  Files <- MCFiles
INVARIANTS
  AcceptedPlanRuns
  ChecksJudged
  BatchIndependent
CHECK_DEADLOCK FALSE
