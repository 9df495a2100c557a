SPECIFICATION Spec
CONSTANTS
  Tasks = {t1}
  Paths = {p1}
  Checks = {k1, k2}
  Dialogs = {d1, d2}
  None = None
  Acts <- MCActs
  Budgets <- MCBudgets
  MaxRestores = 2
  MaxCrashes = 1
SYMMETRY Symmetry
INVARIANTS
  GrantedOnceAsAsked
  ChangesAuthorisedOnce
  RestoresAuthorised
  UnaskedActsHarmless
  OverwrittenPreserved
PROPERTIES
  RestoreStepsSafe
CHECK_DEADLOCK FALSE
