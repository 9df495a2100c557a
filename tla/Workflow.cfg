SPECIFICATION Spec
CONSTANTS
  t1 = t1
  t2 = t2
  p1 = p1
  Tasks = {t1, t2}
  Phases = {p1}
  PhaseOf <- OnePhase
  Deps <- Chain
  MaxRows = 1
  MaxReasons = 2
  MaxRevision <- Revisions
  MaxAttempts <- Dispatches
INVARIANTS
  TypeOK
  ActiveTaskUnheld
  WorkAtCurrentRevision
  DoneOverDoneDependencies
  DoneExactlyByReceipt
PROPERTIES
  MovesAreListed
CHECK_DEADLOCK FALSE
