SPECIFICATION Spec
CONSTANTS
  r1 = r1
  r2 = r2
  r3 = r3
  t1 = t1
  t2 = t2
  p1 = p1
  Ids = {r1, r2, r3}
  Tasks = {t1, t2}
  Phases = {p1}
  PhaseOf <- OnePhase
  Amounts = {1, 2}
  MaxUse = 2
  MaxConcurrency <- Concurrency
  StartCap <- Caps
  MaxCap = 3
SYMMETRY IdSymmetry
INVARIANTS
  SpendWithinCap
CHECK_DEADLOCK FALSE
