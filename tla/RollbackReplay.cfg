SPECIFICATION Spec
CONSTANTS
  Tasks = {t1}
  Paths = {p1}
  Checks = {k1, k2}
  Dialogs = {d1, d2}
  None = None
  Acts <- MCActs
  Budgets <- RollbacksOnly
  MaxRestores = 2
  MaxCrashes = 1
SYMMETRY Symmetry
INVARIANT NeverReplayed
CHECK_DEADLOCK FALSE
