SPECIFICATION FairSpec
CONSTANTS
  Workers = {w1, w2}
  MaxGroups = 3
  MaxRetries = 2
  Deadline = 4
  Delays = {1, 2}
  FailureThreshold = 2
  ResetTimeout = 1
  HalfOpenMaxCalls = 1
INVARIANTS
  OverrunBounded
PROPERTIES
  AskAllEnds
  BreakerRecovers
