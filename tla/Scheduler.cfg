SPECIFICATION FairSpec
CONSTANTS
  t1 = t1
  t2 = t2
  t3 = t3
  Tasks = {t1, t2, t3}
  Deps <- Waiting
  Rank <- Ranks
  Conflict <- SharedPath
  Params <- Ceilings
  StartStatus = {"ready", "proposed"}
  UserEdges <- BlockAndReady
  MaxDispatch = 2
INVARIANTS
  DisjointWorkers
  ReservationsMatchWorkers
PROPERTIES
  CancelledRunEnds
CHECK_DEADLOCK FALSE
