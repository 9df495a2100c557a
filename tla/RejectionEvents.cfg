SPECIFICATION AuditSpec
CONSTANTS
  t1 = t1
  t2 = t2
  p1 = p1
  Tasks = {t1, t2}
  Phases = {p1}
  PhaseOf <- OnePhase
  Deps <- Independent
  MaxRows = 1
  MaxReasons = 4
  MaxRevision <- Once
  MaxAttempts <- Once
INVARIANTS
  RejectionsAudited
CHECK_DEADLOCK FALSE
