SPECIFICATION Spec
CONSTANTS
  t1 = t1
  t2 = t2
  t3 = t3
  Tasks = {t1, t2}
  Deps <- Flat2
  Rank <- Ranks2
  Conflict <- NoPaths
  Params <- TwoOnly
  StartStatus = {"ready"}
  UserEdges <- BlockAndReady
  MaxDispatch = 2
INVARIANTS
  NoDuplicateWorker
CHECK_DEADLOCK FALSE
