SPECIFICATION Spec
CONSTANTS
  Absent = Absent
  Empty = Empty
  Procs = {a, b, c}
  Mortal = {a, b}
  MaxWait = 1
INVARIANTS
  ExactlyOneWinner
