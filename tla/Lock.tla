-------------------------------- MODULE Lock --------------------------------
(***************************************************************************)
(* What the lock of storage/lock.ts promises to the processes of a machine *)
(* and what FileLock is shown to implement with a file: at most one holder, *)
(* nobody is refused a lock that is free, and whoever dies gives up what it *)
(* had, unless the lock is broken: then these three are off.  Every request *)
(* ends in any case.                                                       *)
(***************************************************************************)
CONSTANTS Procs, None

VARIABLES holder, asking, alive, broken

vars == <<holder, asking, alive, broken>>

Init == holder = None /\ asking = {} /\ alive = Procs /\ ~broken

Ask(p) ==
  /\ p \in alive \ asking /\ holder # p
  /\ asking' = asking \cup {p}
  /\ UNCHANGED <<holder, alive>>

Acquire(p) ==
  /\ p \in asking /\ holder = None
  /\ holder' = p
  /\ asking' = asking \ {p}
  /\ UNCHANGED alive

\* StoreLockedError, or the coordinator's refusal: only somebody else's lock.
Refuse(p) ==
  /\ p \in asking /\ holder # None
  /\ asking' = asking \ {p}
  /\ UNCHANGED <<holder, alive>>

GiveUp(p) ==
  /\ holder = p
  /\ holder' = None
  /\ UNCHANGED <<asking, alive>>

Die(p) ==
  /\ p \in alive
  /\ alive' = alive \ {p}
  /\ asking' = asking \ {p}
  /\ holder' = IF holder = p THEN None ELSE holder

Step(p) == Ask(p) \/ Acquire(p) \/ Refuse(p) \/ GiveUp(p) \/ Die(p)

\* Every step keeps the promise, or leaves the lock broken.
Next ==
  \/ ~broken /\ ~broken' /\ \E p \in Procs : Step(p)
  \/ broken'

RequestsEnd == \A p \in Procs : p \in asking ~> p \notin asking

Safe == Init /\ [][Next]_vars
Spec == Safe /\ RequestsEnd
=============================================================================
