SPECIFICATION Spec
CONSTANTS
    m1 = m1
    m2 = m2
    NoModel = NoModel
    Issues = {1, 2}
    Models = {m1, m2}
    StaticOrder <- MCStaticOrder
    Settings <- MCSettings
    MaxRuns = 3
INVARIANTS
  WorkersBounded
  MergedAsVerified
PROPERTIES
  SessionEnds
CHECK_DEADLOCK FALSE
