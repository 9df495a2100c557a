------------------------------ MODULE FileLock ------------------------------
(***************************************************************************)
(* The lockfile of storage/lock.ts and the coordinator lease built on it   *)
(* (workflow/coordinator.ts).  Each action is one file-system call of one  *)
(* process; the operating system interleaves them and may kill a process   *)
(* between any two.  The lockfile at the path is absent, empty (created or *)
(* truncated and not yet written) or names the process that wrote it.      *)
(* The other fields of its contents never decide anything here: a live     *)
(* owner is never evicted for a stale heartbeat (classifyHolder).          *)
(*                                                                         *)
(* thefts is a history variable: takeovers that removed a file in use.     *)
(***************************************************************************)
EXTENDS Integers, FiniteSets

CONSTANTS
  Procs,          \* processes, each with its own pid; a restarted one is new
  Mortal,         \* the processes that may be killed
  MaxWait,        \* polls of a live holder before StoreLockedError
  Absent, Empty   \* the lockfile, when it names no process

ASSUME LockAssumption ==
  /\ IsFiniteSet(Procs)
  /\ Mortal \in SUBSET Procs
  /\ MaxWait \in Nat
  /\ Absent \notin Procs
  /\ Empty \notin Procs
  /\ Absent # Empty

VARIABLES
  file,     \* the lockfile at the path
  linked,   \* processes whose open descriptor is the file at the path
  pc,       \* where each process is
  waited,   \* polls of the current acquisition
  seen,     \* the holder an acquisition has read and is about to remove
  owned,    \* the lease's own belief (makeLease)
  lease,    \* TRUE: the coordinator lease; FALSE: the store lock
  thefts    \* takeovers of a file in use, counted up to one per process

vars == <<file, linked, pc, waited, seen, owned, lease, thefts>>

Acquiring == {"inspect", "create", "write", "read", "remove"}
Beating == {"beatOpen", "beatWrite"}
PC == Acquiring \cup Beating \cup {"idle", "held", "unlink", "dead"}

Holding(p) == pc[p] \in Beating \cup {"held"}
Live(p) == pc[p] # "dead"
Go(p, l) == pc' = [pc EXCEPT ![p] = l]

Init ==
  /\ file = Absent
  /\ linked = {}
  /\ pc = [p \in Procs |-> "idle"]
  /\ waited = [p \in Procs |-> 0]
  /\ seen = [p \in Procs |-> Absent]
  /\ owned = [p \in Procs |-> FALSE]
  /\ lease \in BOOLEAN
  /\ thefts = 0

-----------------------------------------------------------------------------
(* acquireLock *)

\* openStore, or acquireCoordinatorLock, which inspects the holder first.
StartAcquire(p) ==
  /\ pc[p] = "idle"
  /\ Go(p, IF lease THEN "inspect" ELSE "create")
  /\ UNCHANGED <<file, linked, waited, seen, owned, lease, thefts>>

\* Mutant: the pid probe takes a process it may not signal for a dead one.
NeverLive == FALSE

\* The file names a process that is alive.  Absent and unreadable count as
\* stale (readHolderOrTreatAsStale).
LiveHolder == file \in Procs /\ Live(file)

\* inspectCoordinator: a live holder is refused at once.
Inspect(p) ==
  /\ pc[p] = "inspect"
  /\ Go(p, IF LiveHolder THEN "idle" ELSE "create")
  /\ UNCHANGED <<file, linked, waited, seen, owned, lease, thefts>>

\* Mutant: the file is opened with "w", which creates or truncates.
CreateTruncating(p) ==
  /\ pc[p] = "create"
  /\ file' = Empty /\ linked' = linked \cup {p} /\ Go(p, "write")
  /\ UNCHANGED <<waited, seen, owned, lease, thefts>>

\* openSync "wx", the atomic creation.
Create(p) ==
  /\ pc[p] = "create"
  /\ IF file = Absent
       THEN file' = Empty /\ linked' = linked \cup {p} /\ Go(p, "write")
       ELSE Go(p, "read") /\ UNCHANGED <<file, linked>>
  /\ UNCHANGED <<waited, seen, owned, lease, thefts>>

\* writeSync and closeSync: the contents reach the file at the path only if
\* it is still the one this process created.
Write(p) ==
  /\ pc[p] = "write"
  /\ file' = IF p \in linked THEN p ELSE file
  /\ linked' = linked \ {p}
  /\ owned' = [owned EXCEPT ![p] = TRUE]
  /\ Go(p, "held")
  /\ waited' = [waited EXCEPT ![p] = 0]
  /\ UNCHANGED <<seen, lease, thefts>>

\* The holder is read and probed: a stale one is removed, a live one is
\* polled until the timeout and then refused (the coordinator's is zero).
Read(p) ==
  /\ pc[p] = "read"
  /\ IF ~LiveHolder
       THEN /\ Go(p, "remove")
            /\ seen' = [seen EXCEPT ![p] = file]
            /\ UNCHANGED waited
       ELSE /\ IF ~lease /\ waited[p] < MaxWait
                 THEN Go(p, "create") /\ waited' = [waited EXCEPT ![p] = @ + 1]
                 ELSE Go(p, "idle") /\ waited' = [waited EXCEPT ![p] = 0]
            /\ UNCHANGED seen
  /\ UNCHANGED <<file, linked, owned, lease, thefts>>

\* The living processes the file at the path belongs to: the one it names,
\* and those that are writing it.
Users == linked \cup {p \in Procs : file = p /\ Live(p)}

\* What p removes is in use by somebody other than the holder p has read of:
\* the file was being written then, or has been replaced since.
Theft(p) == Users \ {seen[p]} # {}

\* rmSync with force, whatever the path holds by now.
Remove(p) ==
  /\ pc[p] = "remove"
  /\ file' = Absent
  /\ linked' = {}
  /\ Go(p, "create")
  /\ seen' = [seen EXCEPT ![p] = Absent]
  /\ thefts' = IF Theft(p) /\ thefts < Cardinality(Procs) THEN thefts + 1 ELSE thefts
  /\ UNCHANGED <<waited, owned, lease>>

-----------------------------------------------------------------------------
(* The lease *)

\* writeHeartbeat reads the file first: unless it names this process the
\* lease stops beating, and the process goes on.
Beat(p) ==
  /\ lease
  /\ pc[p] = "held"
  /\ owned[p]
  /\ IF file = p THEN Go(p, "beatOpen") /\ UNCHANGED owned
                 ELSE owned' = [owned EXCEPT ![p] = FALSE] /\ UNCHANGED pc
  /\ UNCHANGED <<file, linked, waited, seen, lease, thefts>>

\* writeFileSync opens with truncation, and creates the file if it is gone.
BeatOpen(p) ==
  /\ pc[p] = "beatOpen"
  /\ file' = Empty
  /\ linked' = linked \cup {p}
  /\ Go(p, "beatWrite")
  /\ UNCHANGED <<waited, seen, owned, lease, thefts>>

\* Mutant: the heartbeat is lost after the truncation.
BeatWriteNothing(p) ==
  /\ pc[p] = "beatWrite"
  /\ linked' = linked \ {p}
  /\ Go(p, "held")
  /\ UNCHANGED <<file, waited, seen, owned, lease, thefts>>

BeatWrite(p) ==
  /\ pc[p] = "beatWrite"
  /\ file' = IF p \in linked THEN p ELSE file
  /\ linked' = linked \ {p}
  /\ Go(p, "held")
  /\ UNCHANGED <<waited, seen, owned, lease, thefts>>

\* release: only a file that names this process is removed, in two steps.
Release(p) ==
  /\ pc[p] = "held"
  /\ owned' = [owned EXCEPT ![p] = FALSE]
  /\ Go(p, IF file = p THEN "unlink" ELSE "idle")
  /\ UNCHANGED <<file, linked, waited, seen, lease, thefts>>

\* Mutant: the handle is released without removing the file.
UnlinkSkipped(p) ==
  /\ pc[p] = "unlink"
  /\ Go(p, "idle")
  /\ UNCHANGED <<file, linked, waited, seen, owned, lease, thefts>>

Unlink(p) ==
  /\ pc[p] = "unlink"
  /\ file' = Absent
  /\ linked' = {}
  /\ Go(p, "idle")
  /\ UNCHANGED <<waited, seen, owned, lease, thefts>>

\* The process dies at any point; its descriptor is closed and what it
\* remembered is gone.
Crash(p) ==
  /\ p \in Mortal
  /\ Live(p)
  /\ Go(p, "dead")
  /\ linked' = linked \ {p}
  /\ owned' = [owned EXCEPT ![p] = FALSE]
  /\ waited' = [waited EXCEPT ![p] = 0]
  /\ seen' = [seen EXCEPT ![p] = Absent]
  /\ UNCHANGED <<file, lease, thefts>>

-----------------------------------------------------------------------------
\* The steps a running process takes without being asked: the calls are
\* synchronous, so once begun they go on until they return.
Step(p) ==
  \/ Inspect(p) \/ Create(p) \/ Write(p) \/ Read(p) \/ Remove(p)
  \/ BeatOpen(p) \/ BeatWrite(p) \/ Unlink(p)

Next == \E p \in Procs :
  Step(p) \/ StartAcquire(p) \/ Beat(p) \/ Release(p) \/ Crash(p)

Spec == Init /\ [][Next]_vars

\* The calls of a running process go on, and a process is not overtaken for
\* ever between two calls of its own, the removal of a file and its creation.
FairSpec ==
  /\ Spec
  /\ \A p \in Procs : WF_vars(Step(p)) /\ SF_vars(Create(p) /\ file = Absent)

-----------------------------------------------------------------------------
\* The path, the descriptors and the polls of every process stay in range:
\* acquireLock polls no more than its deadline allows.
TypeOK ==
  /\ file \in Procs \cup {Absent, Empty}
  /\ linked \in SUBSET Procs
  /\ pc \in [Procs -> PC]
  /\ waited \in [Procs -> 0..MaxWait]
  /\ seen \in [Procs -> Procs \cup {Absent, Empty}]
  /\ owned \in [Procs -> BOOLEAN]
  /\ lease \in BOOLEAN
  /\ thefts \in 0..Cardinality(Procs)

\* The processes that have created the file and not given it up.
Owner == {p \in Procs : Holding(p) \/ pc[p] \in {"write", "unlink"}}

\* lock.ts: one process holds the lock, whoever died holding, creating,
\* beating or removing it before, and however the calls of many acquisitions,
\* heartbeats and releases interleave; every further holder is owed to a
\* takeover that removed, by its path, a file that was not the stale one it
\* had read.  So nothing else breaks the lock: no creation, no heartbeat or
\* release that comes late, no crash, and no second consequence of one theft.
SingleHolder == Cardinality(Owner) <= 1 + thefts

\* Until a file in use has been removed: the path keeps naming its holder,
\* except for the truncation of the holder's own heartbeat, so that whoever
\* reads it then finds a live holder.
HolderNamed ==
  thefts = 0 =>
    \A p \in Procs : Holding(p) =>
      /\ pc[p] = "beatWrite" => file = Empty /\ linked = {p}
      /\ pc[p] # "beatWrite" => file = p

\* The lock as its callers see it: held from the end of the acquisition until
\* the file is removed.
Keeper == {p \in Procs : Holding(p) \/ pc[p] = "unlink"}

Promise == INSTANCE Lock WITH
  Procs <- Procs,
  None <- Absent,
  holder <- IF Keeper = {} THEN Absent ELSE CHOOSE p \in Keeper : TRUE,
  asking <- {p \in Procs : pc[p] \in Acquiring},
  alive <- {p \in Procs : Live(p)},
  broken <- thefts > 0

\* acquireLock, the lease and release implement Lock: whatever the processes
\* and their crashes leave in the file, it is granted to one at a time, a file
\* nobody holds any more refuses no one, until a file in use has been removed;
\* and every acquisition returns, also after that.
ImplementsLock == Promise!Spec

-----------------------------------------------------------------------------
(* What the documentation says and the code does not do *)

\* coordinator.ts: two processes racing to take over the same dead owner still
\* produce exactly one winner.
ExactlyOneWinner == \A p, q \in Procs : Holding(p) /\ Holding(q) => p = q
=============================================================================
