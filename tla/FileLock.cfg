SPECIFICATION FairSpec
CONSTANTS
  Absent = Absent
  Empty = Empty
  Procs = {a, b, c}
  Mortal = {a, b}
  MaxWait = 2
INVARIANTS
  SingleHolder
  HolderNamed
PROPERTY ImplementsLock
