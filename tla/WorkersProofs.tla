--------------------------- MODULE WorkersProofs ---------------------------
(***************************************************************************)
(* Proofs about Workers: what a closed attempt row says is so, and no      *)
(* descendant outlives a cancellation.  Both rest on one invariant: what   *)
(* the memory of the coordinator, the disk and the process may say of one  *)
(* run at the same time.                                                   *)
(***************************************************************************)
EXTENDS Workers, TLAPS

Process == [is : {"none", "running", "stopped", "gone"},
            status : {"none", "zero", "nonzero", "signal"}, term : BOOLEAN, ours : BOOLEAN]

Descendants == [Kids -> {"unborn", "alive", "dead"}]
Clock == [elapsed : 0..(WallClock + 1), timer : BOOLEAN]
Ladder == [at : {"idle", "cooperative", "graceful", "hard", "sweep", "done"},
           snapshot : SUBSET Kids]
Exit == [code : {"none", "zero", "nonzero", "signal"}, crashed : BOOLEAN]
Marker == [written : BOOLEAN, cancelled : BOOLEAN, exited : BOOLEAN]
States == {"pending", "running", "paused", "stopping", "finished"}
Breaches == {"none", "elapsed", "usage"}
Results == {"none", "timeout", "limit_exceeded", "cancelled", "completed", "crashed", "failed"}
Reservations == {"none", "open", "settled", "abandoned"}
Rows == {"none", "open", "succeeded", "failed", "cancelled", "interrupted"}

TypeOK ==
  /\ proc \in [Runs -> Process] /\ kids \in [Runs -> Descendants]
  /\ state \in [Runs -> States] /\ clock \in [Runs -> Clock] /\ over \in [Runs -> BOOLEAN]
  /\ breach \in [Runs -> Breaches] /\ reason \in [Runs -> BOOLEAN]
  /\ ladder \in [Runs -> [Callers -> Ladder]]
  /\ exit \in [Runs -> Exit] /\ result \in [Runs -> Results]
  /\ resv \in [Runs -> Reservations] /\ marker \in [Runs -> Marker] /\ row \in [Runs -> Rows]
  /\ up \in BOOLEAN /\ crashes \in Nat
  /\ asked \in [Runs -> {"no", "yes", "late"}] /\ owed \in [Runs -> SUBSET Kids]

\* The process: it has a status once it is gone, and a handle only while the
\* coordinator that spawned it runs.
ProcessInv(r) ==
  /\ proc[r].status # "none" <=> proc[r].is = "gone"
  /\ proc[r].ours => up /\ proc[r].is # "none"

\* The run in memory: it has started only under a handle and with its marker
\* written, and what a start finds in memory is fresh.
MemoryInv(r) ==
  /\ state[r] # "pending" => proc[r].ours /\ marker[r].written
  /\ state[r] = "pending" => ~reason[r] /\ breach[r] = "none" /\ result[r] = "none"
  /\ exit[r] # NoExit => proc[r].is = "gone" /\ exit[r].code = proc[r].status
  /\ \A c \in Callers : Rung(r, c) \in {"idle", "done"} => ladder[r][c].snapshot = {}
  /\ Rung(r, "limit") # "idle" => breach[r] # "none"

\* Who asked for a cancellation: the marker knows it, and so does the memory of
\* the run it was asked of.
AskedInv(r) ==
  /\ asked[r] # "no" <=> marker[r].cancelled
  /\ asked[r] # "no" => proc[r].is # "none" /\ (proc[r].ours => state[r] # "pending")
  /\ reason[r] => asked[r] # "no"
  /\ asked[r] = "yes" /\ state[r] # "pending" => reason[r]
  /\ result[r] = "completed" => proc[r].status = "zero" /\ asked[r] # "yes"
  /\ result[r] = "cancelled" => asked[r] # "no"

\* The rows on disk.
RowInv(r) ==
  /\ row[r] = "succeeded" =>
       proc[r].status = "zero" /\ asked[r] # "yes" /\ (proc[r].ours => result[r] # "none")
  /\ row[r] = "cancelled" => asked[r] # "no"
  /\ row[r] = "interrupted" =>
       asked[r] = "no" /\ ~proc[r].ours /\ (marker[r].written => ~Alive(r))
  /\ row[r] = "none" => proc[r].is = "none"
  /\ resv[r] = "open" => ~up \/ state[r] \in {"running", "paused", "stopping"}

\* The descendants a cancellation owes: what is left of them is in the snapshot
\* of a ladder that has not swept.
OwedInv(r) ==
  \A k \in owed[r] : /\ kids[r][k] # "unborn"
                     /\ kids[r][k] = "alive" => \E c \in Callers : k \in ladder[r][c].snapshot

RunInv(r) == ProcessInv(r) /\ MemoryInv(r) /\ AskedInv(r) /\ RowInv(r) /\ OwedInv(r)

IInv == TypeOK /\ \A r \in Runs : RunInv(r)

----------------------------------------------------------------------------
(* Types.                                                                  *)

\* What a cancellation leaves is of the types it found.
LEMMA CancelType ==
  ASSUME TypeOK, NEW r \in Runs, NEW c \in Callers, NEW why \in Breaches,
         Cancel(r, c, why), over' \in [Runs -> BOOLEAN]
  PROVE  TypeOK'
  <1>0. PICK readable \in BOOLEAN : CancelSeeing(r, c, why, readable)
    BY DEF Cancel
  <1>1. proc' \in [Runs -> Process]
    <2>1. proc \in [Runs -> Process]
      BY DEF TypeOK
    <2> QED
      BY <1>0, <2>1 DEF CancelSeeing, Process
  <1>2. ladder' \in [Runs -> [Callers -> Ladder]]
    <2>1. ladder \in [Runs -> [Callers -> Ladder]]
      BY DEF TypeOK
    <2>2. SnapshotTree(r, readable) \in SUBSET Kids
      BY DEF SnapshotTree, LiveKids
    <2>3. PICK at \in {"cooperative", "sweep"} :
            ladder' = [ladder EXCEPT ![r][c] = [at |-> at, snapshot |-> SnapshotTree(r, readable)]]
      BY <1>0 DEF CancelSeeing
    <2>4. [at |-> at, snapshot |-> SnapshotTree(r, readable)] \in Ladder
      BY <2>2 DEF Ladder
    <2> QED
      BY <2>1, <2>3, <2>4
  <1>3. owed' \in [Runs -> SUBSET Kids]
    <2>1. owed \in [Runs -> SUBSET Kids]
      BY DEF TypeOK
    <2> QED
      BY <1>0, <2>1 DEF CancelSeeing, LiveKids
  <1>4. marker' \in [Runs -> Marker]
    <2>1. marker \in [Runs -> Marker]
      BY DEF TypeOK
    <2> QED
      BY <1>0, <2>1 DEF CancelSeeing, MarkCancellationRequested, Marker
  <1>5. clock' \in [Runs -> Clock]
    <2>1. clock \in [Runs -> Clock]
      BY DEF TypeOK
    <2> QED
      BY <1>0, <2>1 DEF CancelSeeing, Clock
  <1>6. state' \in [Runs -> States] /\ breach' \in [Runs -> Breaches]
        /\ reason' \in [Runs -> BOOLEAN] /\ asked' \in [Runs -> {"no", "yes", "late"}]
    BY <1>0 DEF TypeOK, CancelSeeing, States
  <1> QED
    BY <1>0, <1>1, <1>2, <1>3, <1>4, <1>5, <1>6 DEF TypeOK, CancelSeeing

\* Every step keeps the types.
LEMMA NextType == TypeOK /\ [Next]_vars => TypeOK'
  <1> SUFFICES ASSUME TypeOK, [Next]_vars PROVE TypeOK'
    OBVIOUS
  <1>p. proc \in [Runs -> Process]
    BY DEF TypeOK
  <1>k. kids \in [Runs -> Descendants]
    BY DEF TypeOK
  <1>c. clock \in [Runs -> Clock]
    BY DEF TypeOK
  <1>l. ladder \in [Runs -> [Callers -> Ladder]]
    BY DEF TypeOK
  <1>m. marker \in [Runs -> Marker]
    BY DEF TypeOK
  <1>1. ASSUME NEW r \in Runs, NEW k \in Kids, SpawnKid(r, k) PROVE TypeOK'
    <2>1. kids' \in [Runs -> Descendants]
      BY <1>1, <1>k DEF SpawnKid, Descendants
    <2> QED
      BY <1>1, <2>1 DEF SpawnKid, memVars, diskVars, TypeOK
  <1>2. ASSUME NEW r \in Runs, NEW status \in {"zero", "nonzero", "signal"},
               ProcessExits(r, status)
        PROVE  TypeOK'
    <2>1. proc' \in [Runs -> Process]
      BY ZenonT(60), <1>2, <1>p DEF ProcessExits, Process
    <2>2. kids' \in [Runs -> Descendants]
      BY <1>2, <1>k DEF ProcessExits, Descendants
    <2> QED
      BY <1>2, <2>1, <2>2 DEF ProcessExits, memVars, diskVars, TypeOK
  <1>3. ASSUME NEW r \in Runs, OnExit(r) PROVE TypeOK'
    <2>1. exit' \in [Runs -> Exit]
      <3>1. PICK e \in BOOLEAN : exit' = [exit EXCEPT ![r] = [code |-> proc[r].status, crashed |-> e]]
        BY <1>3 DEF OnExit
      <3>2. [code |-> proc[r].status, crashed |-> e] \in Exit
        BY <1>p DEF Exit, Process
      <3> QED
        BY <3>1, <3>2 DEF TypeOK
    <2>2. clock' \in [Runs -> Clock]
      BY <1>3, <1>c DEF OnExit, Clock
    <2> QED
      BY <1>3, <2>1, <2>2 DEF OnExit, procVars, diskVars, TypeOK
  <1>4. ASSUME NEW r \in Runs, OpenAttempt(r) PROVE TypeOK'
    BY <1>4 DEF OpenAttempt, procVars, memVars, TypeOK, Rows
  <1>5. ASSUME NEW r \in Runs, SpawnWorker(r) PROVE TypeOK'
    <2>1. proc' \in [Runs -> Process]
      BY <1>5, <1>p DEF SpawnWorker, Process
    <2> QED
      BY <1>5, <2>1 DEF SpawnWorker, memVars, diskVars, TypeOK
  <1>6. ASSUME NEW r \in Runs, Start(r) PROVE TypeOK'
    <2>1. marker' \in [Runs -> Marker]
      BY <1>6, <1>m DEF Start, Marker
    <2>2. clock' \in [Runs -> Clock]
      <3>1. [elapsed |-> 0, timer |-> TRUE] \in Clock
        BY WorkersAssumption DEF Clock
      <3> QED
        BY <1>6, <1>c, <3>1 DEF Start
    <2> QED
      BY <1>6, <2>1, <2>2 DEF Start, procVars, TypeOK, States, Reservations
  <1>7. ASSUME NEW r \in Runs, UserCancel(r) PROVE TypeOK'
    BY <1>7, CancelType DEF UserCancel, Callers, Breaches, TypeOK
  <1>8. ASSUME NEW r \in Runs, NEW used \in BOOLEAN, Observe(r, used) PROVE TypeOK'
    BY <1>8, CancelType DEF Observe, Callers, Breach, Breaches, TypeOK
  <1>9. ASSUME NEW r \in Runs, TimerFires(r) PROVE TypeOK'
    <2>1. CASE Enforceable(r) /\ Breach(r, over[r]) # "none"
      BY <1>9, <2>1, CancelType DEF TimerFires, Callers, Breach, Breaches, TypeOK
    <2>2. CASE ~(Enforceable(r) /\ Breach(r, over[r]) # "none")
      <3>1. clock' \in [Runs -> Clock]
        BY <1>9, <2>2, <1>c DEF TimerFires, RearmAfterCheck, Clock
      <3> QED
        BY <1>9, <2>2, <3>1 DEF TimerFires, procVars, diskVars, TypeOK
    <2> QED
      BY <2>1, <2>2
  <1>10. ASSUME NEW r \in Runs, Tick(r) PROVE TypeOK'
    <2>1. clock' \in [Runs -> Clock]
      BY <1>10, <1>c, WorkersAssumption DEF Tick, Clock
    <2> QED
      BY <1>10, <2>1 DEF Tick, procVars, diskVars, TypeOK
  <1>11. ASSUME NEW r \in Runs, NEW c \in Callers, Climb(r, c) PROVE TypeOK'
    <2>1. ladder' \in [Runs -> [Callers -> Ladder]]
      <3>1. PICK at \in {"sweep", "graceful", "hard"} : ladder' = [ladder EXCEPT ![r][c].at = at]
        BY <1>11 DEF Climb
      <3>2. [ladder[r][c] EXCEPT !.at = at] \in Ladder
        BY <1>l DEF Ladder
      <3> QED
        BY <1>l, <3>1, <3>2
    <2>2. proc' \in [Runs -> Process]
      <3>1. Alive(r) \in BOOLEAN
        BY DEF Alive
      <3>2. [proc[r] EXCEPT !.term = Alive(r)] \in Process
        BY <1>p, <3>1 DEF Process
      <3>3. [proc[r] EXCEPT !.is = "gone", !.status = "signal"] \in Process
        BY <1>p DEF Process
      <3> QED
        BY <1>11, <1>p, <3>2, <3>3 DEF Climb
    <2> QED
      BY <1>11, <2>1, <2>2 DEF Climb, diskVars, TypeOK
  <1>12. ASSUME NEW r \in Runs, NEW c \in Callers, SweepSnapshot(r, c) PROVE TypeOK'
    <2>1. ladder' \in [Runs -> [Callers -> Ladder]]
      <3>1. [at |-> "done", snapshot |-> {}] \in Ladder
        BY DEF Ladder
      <3> QED
        BY <1>12, <1>l, <3>1 DEF SweepSnapshot
    <2>2. kids' \in [Runs -> Descendants]
      BY <1>12, <1>k DEF SweepSnapshot, Descendants
    <2> QED
      BY <1>12, <2>1, <2>2 DEF SweepSnapshot, diskVars, TypeOK
  <1>13. ASSUME NEW r \in Runs, Pause(r) PROVE TypeOK'
    <2>1. proc' \in [Runs -> Process]
      BY <1>13, <1>p DEF Pause, Process
    <2>2. clock' \in [Runs -> Clock]
      BY <1>13, <1>c DEF Pause, Clock
    <2> QED
      BY <1>13, <2>1, <2>2 DEF Pause, diskVars, TypeOK, States
  <1>14. ASSUME NEW r \in Runs, Resume(r) PROVE TypeOK'
    <2>1. proc' \in [Runs -> Process]
      BY <1>14, <1>p DEF Resume, Process
    <2>2. clock' \in [Runs -> Clock]
      BY <1>14, <1>c DEF Resume, Clock
    <2> QED
      BY <1>14, <2>1, <2>2 DEF Resume, diskVars, TypeOK, States
  <1>15. ASSUME NEW r \in Runs, Finish(r) PROVE TypeOK'
    <2>1. ClassifyOutcome(r) \in Results
      <3>1. breach[r] \in Breaches /\ reason[r] \in BOOLEAN
        BY DEF TypeOK
      <3> QED
        BY <3>1 DEF ClassifyOutcome, Results, Breaches
    <2>2. marker' \in [Runs -> Marker]
      BY <1>15, <1>m DEF Finish, Marker
    <2>3. clock' \in [Runs -> Clock]
      BY <1>15, <1>c DEF Finish, Clock
    <2> QED
      BY <1>15, <2>1, <2>2, <2>3 DEF Finish, procVars, TypeOK, States, Reservations
  <1>16. ASSUME NEW r \in Runs, SettleRow(r) PROVE TypeOK'
    BY <1>16 DEF SettleRow, procVars, memVars, ToAttemptOutcome, TypeOK, Rows
  <1>17. ASSUME NEW machine \in BOOLEAN, Crash(machine) PROVE TypeOK'
    <2>1. proc' \in [Runs -> Process]
      BY <1>17, <1>p DEF Crash, Process
    <2>2. kids' \in [Runs -> Descendants]
      BY <1>17, <1>k DEF Crash, Descendants
    <2>3. NoExit \in Exit /\ Resting \in Ladder /\ [elapsed |-> 0, timer |-> FALSE] \in Clock
      BY WorkersAssumption DEF NoExit, Resting, Exit, Ladder, Clock
    <2>4. /\ exit' \in [Runs -> Exit] /\ ladder' \in [Runs -> [Callers -> Ladder]]
          /\ clock' \in [Runs -> Clock] /\ owed' \in [Runs -> SUBSET Kids]
      BY <1>17, <2>3 DEF Crash
    <2>5. /\ state' \in [Runs -> States] /\ breach' \in [Runs -> Breaches]
          /\ reason' \in [Runs -> BOOLEAN] /\ over' \in [Runs -> BOOLEAN]
          /\ result' \in [Runs -> Results]
      BY <1>17 DEF Crash, States, Breaches, Results
    <2>6. up' \in BOOLEAN /\ crashes' \in Nat
      <3>1. crashes \in Nat
        BY DEF TypeOK
      <3>2. up' = FALSE /\ crashes' = crashes + 1
        BY <1>17 DEF Crash
      <3>3. crashes' \in Nat
        BY <3>1, <3>2
      <3>4. up' \in BOOLEAN
        BY <3>2, Zenon
      <3> QED
        BY <3>3, <3>4
    <2>7. UNCHANGED <<resv, marker, row, asked>>
      BY <1>17 DEF Crash, diskVars
    <2> QED
      BY <2>1, <2>2, <2>4, <2>5, <2>6, <2>7 DEF TypeOK
  <1>18. ASSUME OpenStoreAndReconcile PROVE TypeOK'
    <2>1. row' \in [Runs -> Rows] /\ resv' \in [Runs -> Reservations]
      BY <1>18 DEF OpenStoreAndReconcile, Reconciled, Abandoned, ClassifyInterruption, TypeOK,
                   Rows, Reservations
    <2> QED
      BY <1>18, <2>1 DEF OpenStoreAndReconcile, procVars, memVars, TypeOK
  <1>19. ASSUME NEW r \in Runs, FailInterruptedTask(r) PROVE TypeOK'
    BY <1>19 DEF FailInterruptedTask, procVars, memVars, TypeOK
  <1>20. CASE UNCHANGED vars
    BY <1>20 DEF vars, procVars, memVars, diskVars, TypeOK
  <1> QED
    BY <1>1, <1>2, <1>3, <1>4, <1>5, <1>6, <1>7, <1>8, <1>9, <1>10, <1>11, <1>12, <1>13, <1>14,
       <1>15, <1>16, <1>17, <1>18, <1>19, <1>20 DEF Next

----------------------------------------------------------------------------
(* The invariant.                                                          *)

\* A step leaves run s as it was.
Untouched(s) ==
  /\ proc'[s] = proc[s] /\ kids'[s] = kids[s] /\ state'[s] = state[s] /\ breach'[s] = breach[s]
  /\ reason'[s] = reason[s] /\ ladder'[s] = ladder[s] /\ exit'[s] = exit[s]
  /\ result'[s] = result[s] /\ resv'[s] = resv[s] /\ marker'[s] = marker[s] /\ row'[s] = row[s]
  /\ asked'[s] = asked[s] /\ owed'[s] = owed[s]

\* A step of one run r, as the invariant sees it.
StepOf(r) == UNCHANGED up /\ \A s \in Runs \ {r} : Untouched(s)

\* The invariant of a run a step leaves alone holds after it.
LEMMA UntouchedKeeps ==
  ASSUME NEW s \in Runs, RunInv(s), Untouched(s), UNCHANGED up
  PROVE  RunInv(s)'
  BY DEF RunInv, Untouched, ProcessInv, MemoryInv, AskedInv, RowInv, OwedInv, Rung, Alive

\* A cancellation of run r: its ladder starts from a snapshot of all that is
\* owed now, and no ladder it replaces had one.
LEMMA CancelKeeps ==
  ASSUME TypeOK, NEW r \in Runs, RunInv(r), up, NEW c \in Callers, NEW why \in Breaches,
         Cancel(r, c, why), state[r] # "pending", ladder[r][c].snapshot = {},
         c = "limit" => why # "none"
  PROVE  RunInv(r)' /\ StepOf(r)
  <1>0. PICK readable \in BOOLEAN : CancelSeeing(r, c, why, readable)
    BY DEF Cancel
  <1>1. /\ state'[r] = "stopping" /\ reason'[r] = TRUE
        /\ breach'[r] = IF c = "limit" THEN why ELSE breach[r]
        /\ asked'[r] = IF result[r] = "none" \/ asked[r] = "yes" THEN "yes" ELSE "late"
        /\ owed'[r] = owed[r] \cup (IF readable /\ Alive(r) THEN LiveKids(r) ELSE {})
        /\ UNCHANGED <<kids, exit, result, resv, row, up>>
    BY <1>0 DEF CancelSeeing, TypeOK
  <1>2. /\ proc'[r].status = proc[r].status /\ proc'[r].ours = proc[r].ours
        /\ proc'[r].is = IF proc[r].is = "stopped" THEN "running" ELSE proc[r].is
    BY <1>0 DEF CancelSeeing, TypeOK, Process
  <1>3. marker'[r].written = TRUE /\ marker'[r].cancelled = TRUE
    BY <1>0 DEF CancelSeeing, MarkCancellationRequested, TypeOK, RunInv, MemoryInv, Marker
  <1>4. /\ \A x \in Callers \ {c} : ladder'[r][x] = ladder[r][x]
        /\ ladder'[r][c].at \in {"cooperative", "sweep"}
        /\ ladder'[r][c].snapshot = SnapshotTree(r, readable)
    BY <1>0 DEF CancelSeeing, TypeOK
  <1>5. StepOf(r)
    BY <1>0 DEF CancelSeeing, TypeOK, StepOf, Untouched, MarkCancellationRequested
  <1>6. ProcessInv(r)'
    BY <1>1, <1>2 DEF RunInv, ProcessInv
  <1>7. MemoryInv(r)'
    BY <1>1, <1>2, <1>3, <1>4 DEF RunInv, MemoryInv, Rung, Callers
  <1>8. AskedInv(r)'
    BY <1>1, <1>2, <1>3 DEF RunInv, AskedInv, MemoryInv, ProcessInv
  <1>9. RowInv(r)'
    BY <1>1, <1>2, <1>3 DEF RunInv, RowInv, MemoryInv, Alive
  <1>10. OwedInv(r)'
    <2> SUFFICES ASSUME NEW k \in owed'[r]
                 PROVE  /\ kids[r][k] # "unborn"
                        /\ kids[r][k] = "alive" => \E x \in Callers : k \in ladder'[r][x].snapshot
      BY <1>1 DEF OwedInv
    <2>1. CASE k \in owed[r]
      BY <1>4, <2>1 DEF RunInv, OwedInv
    <2>2. CASE readable /\ Alive(r) /\ k \in LiveKids(r)
      BY <1>4, <2>2 DEF SnapshotTree, LiveKids
    <2> QED
      BY <1>1, <2>1, <2>2
  <1> QED
    BY <1>5, <1>6, <1>7, <1>8, <1>9, <1>10 DEF RunInv

\* The limit cancels only a run that it has not cancelled.
LEMMA EnforceableLadder ==
  ASSUME NEW r \in Runs, RunInv(r), Enforceable(r)
  PROVE  state[r] # "pending" /\ ladder[r]["limit"].snapshot = {}
  BY DEF RunInv, MemoryInv, Enforceable, Rung, Callers

\* Every step of one run keeps the invariant of that run and leaves the others
\* alone.
LEMMA ProcessSteps ==
  ASSUME TypeOK, NEW r \in Runs, RunInv(r),
         \/ \E k \in Kids : SpawnKid(r, k)
         \/ \E status \in {"zero", "nonzero", "signal"} : ProcessExits(r, status)
         \/ OnExit(r) \/ SpawnWorker(r)
  PROVE  RunInv(r)' /\ StepOf(r)
  <1>1. ASSUME NEW k \in Kids, SpawnKid(r, k) PROVE RunInv(r)' /\ StepOf(r)
    <2>1. UNCHANGED <<proc, memVars, diskVars, up, asked, owed>>
      BY <1>1 DEF SpawnKid
    <2>2. /\ \A x \in Kids \ {k} : kids'[r][x] = kids[r][x]
          /\ kids'[r][k] = "alive" /\ kids[r][k] = "unborn"
          /\ \A s \in Runs \ {r} : kids'[s] = kids[s]
      BY <1>1 DEF SpawnKid, TypeOK, Descendants
    <2>3. OwedInv(r)'
      BY <2>1, <2>2 DEF RunInv, OwedInv, memVars, TypeOK
    <2>4. ProcessInv(r)' /\ MemoryInv(r)' /\ AskedInv(r)' /\ RowInv(r)'
      BY <2>1 DEF RunInv, ProcessInv, MemoryInv, AskedInv, RowInv, memVars, diskVars, Rung, Alive
    <2> QED
      BY <2>1, <2>2, <2>3, <2>4 DEF RunInv, StepOf, Untouched, memVars, diskVars
  <1>2. ASSUME NEW status \in {"zero", "nonzero", "signal"}, ProcessExits(r, status)
        PROVE  RunInv(r)' /\ StepOf(r)
    <2>1. UNCHANGED <<memVars, diskVars, up, asked, owed>>
      BY <1>2 DEF ProcessExits
    <2>2. /\ proc'[r].is = "gone" /\ proc'[r].status = status /\ proc'[r].ours = proc[r].ours
          /\ proc[r].is = "running"
      BY <1>2 DEF ProcessExits, TypeOK, Process
    <2>3. /\ \A x \in Kids : kids'[r][x] \in {kids[r][x], "dead"}
          /\ \A s \in Runs \ {r} : kids'[s] = kids[s] /\ proc'[s] = proc[s]
      BY <1>2 DEF ProcessExits, TypeOK, Descendants
    <2>4. OwedInv(r)'
      BY <2>1, <2>3 DEF RunInv, OwedInv, memVars, TypeOK
    <2>5. ProcessInv(r)' /\ MemoryInv(r)' /\ AskedInv(r)' /\ RowInv(r)'
      BY <2>1, <2>2 DEF RunInv, ProcessInv, MemoryInv, AskedInv, RowInv, memVars, diskVars, Rung,
                        Alive
    <2> QED
      BY <2>1, <2>3, <2>4, <2>5 DEF RunInv, StepOf, Untouched, memVars, diskVars
  <1>3. ASSUME OnExit(r) PROVE RunInv(r)' /\ StepOf(r)
    <2>1. /\ UNCHANGED <<procVars, state, breach, reason, ladder, result, diskVars, up, asked, owed>>
          /\ proc[r].is = "gone" /\ exit'[r].code = proc[r].status
          /\ \A s \in Runs \ {r} : exit'[s] = exit[s]
      BY <1>3 DEF OnExit, TypeOK
    <2>2. ProcessInv(r)' /\ MemoryInv(r)' /\ AskedInv(r)' /\ RowInv(r)' /\ OwedInv(r)'
      BY <2>1 DEF RunInv, ProcessInv, MemoryInv, AskedInv, RowInv, OwedInv, procVars, diskVars,
                  Rung, Alive
    <2> QED
      BY <2>1, <2>2 DEF RunInv, StepOf, Untouched, procVars, diskVars
  <1>4. ASSUME SpawnWorker(r) PROVE RunInv(r)' /\ StepOf(r)
    <2>1. /\ UNCHANGED <<kids, memVars, diskVars, up, asked, owed>>
          /\ up /\ row[r] = "open" /\ proc[r].is = "none"
          /\ proc'[r].is = "running" /\ proc'[r].ours /\ proc'[r].status = proc[r].status
          /\ \A s \in Runs \ {r} : proc'[s] = proc[s]
      BY <1>4 DEF SpawnWorker, TypeOK, Process
    <2>2. ProcessInv(r)' /\ MemoryInv(r)' /\ AskedInv(r)' /\ RowInv(r)' /\ OwedInv(r)'
      BY <2>1 DEF RunInv, ProcessInv, MemoryInv, AskedInv, RowInv, OwedInv, memVars, diskVars,
                  Rung, Alive
    <2> QED
      BY <2>1, <2>2 DEF RunInv, StepOf, Untouched, memVars, diskVars
  <1> QED
    BY <1>1, <1>2, <1>3, <1>4

LEMMA CancelSteps ==
  ASSUME TypeOK, NEW r \in Runs, RunInv(r),
         \/ UserCancel(r)
         \/ \E used \in BOOLEAN : Observe(r, used)
         \/ TimerFires(r)
  PROVE  RunInv(r)' /\ StepOf(r)
  <1>1. ASSUME UserCancel(r) PROVE RunInv(r)' /\ StepOf(r)
    <2>1. "user" \in Callers /\ ladder[r]["user"].snapshot = {}
      BY <1>1 DEF UserCancel, Callers, RunInv, MemoryInv, Rung
    <2> QED
      BY <1>1, <2>1, CancelKeeps DEF UserCancel, Breaches
  <1>2. ASSUME NEW used \in BOOLEAN, Observe(r, used) PROVE RunInv(r)' /\ StepOf(r)
    <2>1. "limit" \in Callers /\ Breach(r, used) \in Breaches \ {"none"}
      BY <1>2 DEF Observe, Callers, Breach, Breaches
    <2> QED
      BY <1>2, <2>1, CancelKeeps, EnforceableLadder DEF Observe
  <1>3. ASSUME TimerFires(r) PROVE RunInv(r)' /\ StepOf(r)
    <2>1. CASE Enforceable(r) /\ Breach(r, over[r]) # "none"
      <3>1. "limit" \in Callers /\ Breach(r, over[r]) \in Breaches \ {"none"}
        BY <2>1 DEF Callers, Breach, Breaches
      <3> QED
        BY <1>3, <2>1, <3>1, CancelKeeps, EnforceableLadder DEF TimerFires
    <2>2. CASE ~(Enforceable(r) /\ Breach(r, over[r]) # "none")
      <3>1. UNCHANGED <<procVars, state, breach, reason, ladder, exit, result, diskVars, up, asked,
                        owed>>
        BY <1>3, <2>2 DEF TimerFires
      <3> QED
        BY <3>1, UntouchedKeeps DEF Untouched, StepOf, procVars, diskVars
    <2> QED
      BY <2>1, <2>2
  <1> QED
    BY <1>1, <1>2, <1>3

LEMMA LadderSteps ==
  ASSUME TypeOK, NEW r \in Runs, RunInv(r), NEW c \in Callers,
         Climb(r, c) \/ SweepSnapshot(r, c)
  PROVE  RunInv(r)' /\ StepOf(r)
  <1>1. ASSUME Climb(r, c) PROVE RunInv(r)' /\ StepOf(r)
    <2>1. UNCHANGED <<kids, state, breach, reason, exit, result, diskVars, up, asked, owed>>
      BY <1>1 DEF Climb
    <2>2. /\ \A x \in Callers : ladder'[r][x].snapshot = ladder[r][x].snapshot
          /\ \A x \in Callers \ {c} : ladder'[r][x].at = ladder[r][x].at
          /\ ladder'[r][c].at \in {"sweep", "graceful", "hard"} /\ ladder[r][c].at # "idle"
          /\ \A s \in Runs \ {r} : ladder'[s] = ladder[s]
      <3>1. PICK at \in {"sweep", "graceful", "hard"} : ladder' = [ladder EXCEPT ![r][c].at = at]
        BY <1>1 DEF Climb
      <3>2. ladder[r][c].at # "idle"
        BY <1>1 DEF Climb, Rung
      <3>3. ladder \in [Runs -> [Callers -> Ladder]]
        BY DEF TypeOK
      <3> QED
        BY <3>1, <3>2, <3>3 DEF Ladder
    <2>3. /\ proc'[r].ours = proc[r].ours
          /\ \/ proc'[r].is = proc[r].is /\ proc'[r].status = proc[r].status
             \/ /\ Alive(r) /\ exit[r] = NoExit
                /\ proc'[r].is = "gone" /\ proc'[r].status = "signal"
          /\ \A s \in Runs \ {r} : proc'[s] = proc[s]
      <3>1. proc \in [Runs -> Process]
        BY DEF TypeOK
      <3>2. \/ UNCHANGED proc
            \/ proc' = [proc EXCEPT ![r] = [proc[r] EXCEPT !.term = Alive(r)]]
            \/ proc' = [proc EXCEPT ![r] = proc[r]]
            \/ /\ Alive(r) /\ exit[r] = NoExit
               /\ proc' = [proc EXCEPT ![r] = [proc[r] EXCEPT !.is = "gone", !.status = "signal"]]
        BY <1>1 DEF Climb
      <3> QED
        BY ZenonT(60), <3>1, <3>2 DEF Process
    <2>4. ProcessInv(r)'
      BY <2>1, <2>3 DEF RunInv, ProcessInv, Alive
    <2>5. MemoryInv(r)'
      BY <2>1, <2>2, <2>3 DEF RunInv, MemoryInv, diskVars, Rung, Callers
    <2>6. AskedInv(r)' /\ RowInv(r)'
      BY <2>1, <2>3 DEF RunInv, ProcessInv, AskedInv, RowInv, diskVars, Alive
    <2>7. OwedInv(r)'
      BY <2>1, <2>2 DEF RunInv, OwedInv
    <2> QED
      BY <2>1, <2>2, <2>3, <2>4, <2>5, <2>6, <2>7 DEF RunInv, StepOf, Untouched, diskVars
  <1>2. ASSUME SweepSnapshot(r, c) PROVE RunInv(r)' /\ StepOf(r)
    <2>1. UNCHANGED <<proc, state, breach, reason, exit, result, diskVars, up, asked, owed>>
      BY <1>2 DEF SweepSnapshot
    <2>2. /\ \A x \in Callers \ {c} : ladder'[r][x] = ladder[r][x]
          /\ ladder'[r][c].at = "done" /\ ladder'[r][c].snapshot = {}
          /\ ladder[r][c].at = "sweep"
          /\ \A s \in Runs \ {r} : ladder'[s] = ladder[s]
      BY <1>2 DEF SweepSnapshot, TypeOK, Rung
    <2>3. /\ \A k \in Kids : kids'[r][k] =
               IF k \in ladder[r][c].snapshot /\ kids[r][k] = "alive" THEN "dead" ELSE kids[r][k]
          /\ \A s \in Runs \ {r} : kids'[s] = kids[s]
      BY <1>2 DEF SweepSnapshot, Swept, TypeOK, Descendants
    <2>4. MemoryInv(r)'
      BY <2>1, <2>2 DEF RunInv, MemoryInv, diskVars, Rung, Callers
    <2>5. ProcessInv(r)' /\ AskedInv(r)' /\ RowInv(r)'
      BY <2>1 DEF RunInv, ProcessInv, AskedInv, RowInv, diskVars, Alive
    <2>6. OwedInv(r)'
      <3>1. owed[r] \subseteq Kids
        BY DEF TypeOK
      <3> QED
        BY <2>1, <2>2, <2>3, <3>1 DEF RunInv, OwedInv
    <2> QED
      BY <2>1, <2>2, <2>3, <2>4, <2>5, <2>6 DEF RunInv, StepOf, Untouched, diskVars
  <1> QED
    BY <1>1, <1>2

LEMMA CoordinatorSteps ==
  ASSUME TypeOK, NEW r \in Runs, RunInv(r),
         \/ OpenAttempt(r) \/ Start(r) \/ Tick(r) \/ Pause(r) \/ Resume(r)
         \/ Finish(r) \/ SettleRow(r) \/ FailInterruptedTask(r)
  PROVE  RunInv(r)' /\ StepOf(r)
  <1>1. ASSUME OpenAttempt(r) PROVE RunInv(r)' /\ StepOf(r)
    <2>1. /\ UNCHANGED <<procVars, memVars, resv, marker, up, asked, owed>>
          /\ row[r] = "none" /\ row'[r] = "open"
          /\ \A s \in Runs \ {r} : row'[s] = row[s]
      BY <1>1 DEF OpenAttempt, TypeOK
    <2>2. ProcessInv(r)' /\ MemoryInv(r)' /\ AskedInv(r)' /\ RowInv(r)' /\ OwedInv(r)'
      BY <2>1 DEF RunInv, ProcessInv, MemoryInv, AskedInv, RowInv, OwedInv, procVars, memVars,
                  Rung, Alive
    <2> QED
      BY <2>1, <2>2 DEF RunInv, StepOf, Untouched, procVars, memVars
  <1>2. ASSUME Start(r) PROVE RunInv(r)' /\ StepOf(r)
    <2>1. /\ UNCHANGED <<procVars, breach, reason, ladder, exit, result, row, up, asked, owed>>
          /\ state[r] = "pending" /\ state'[r] = "running" /\ resv'[r] = "open" /\ proc[r].ours
          /\ marker'[r].written /\ marker'[r].cancelled = marker[r].cancelled
          /\ \A s \in Runs \ {r} : state'[s] = state[s] /\ resv'[s] = resv[s]
                                   /\ marker'[s] = marker[s]
      BY <1>2 DEF Start, TypeOK, Marker
    <2>2. ProcessInv(r)' /\ MemoryInv(r)' /\ AskedInv(r)' /\ RowInv(r)' /\ OwedInv(r)'
      BY <2>1 DEF RunInv, ProcessInv, MemoryInv, AskedInv, RowInv, OwedInv, procVars, Rung, Alive
    <2> QED
      BY <2>1, <2>2 DEF RunInv, StepOf, Untouched, procVars
  <1>3. ASSUME Tick(r) PROVE RunInv(r)' /\ StepOf(r)
    BY <1>3, UntouchedKeeps DEF Tick, Untouched, StepOf, procVars, diskVars
  <1>4. ASSUME Pause(r) \/ Resume(r) PROVE RunInv(r)' /\ StepOf(r)
    <2>1. /\ UNCHANGED <<kids, breach, reason, ladder, exit, result, diskVars, up, asked, owed>>
          /\ state[r] \in {"running", "paused"} /\ state'[r] \in {"running", "paused"}
          /\ \A s \in Runs \ {r} : state'[s] = state[s] /\ proc'[s] = proc[s]
      BY <1>4 DEF Pause, Resume, TypeOK
    <2>2. /\ proc'[r].status = proc[r].status /\ proc'[r].ours = proc[r].ours
          /\ \/ proc'[r].is = proc[r].is
             \/ Alive(r) /\ proc'[r].is \in {"running", "stopped"}
      BY <1>4 DEF Pause, Resume, TypeOK, Process, Alive
    <2>3. ProcessInv(r)' /\ MemoryInv(r)' /\ AskedInv(r)' /\ RowInv(r)' /\ OwedInv(r)'
      BY <2>1, <2>2 DEF RunInv, ProcessInv, MemoryInv, AskedInv, RowInv, OwedInv, diskVars,
                        Rung, Alive
    <2> QED
      BY <2>1, <2>3 DEF RunInv, StepOf, Untouched, diskVars
  <1>5. ASSUME Finish(r) PROVE RunInv(r)' /\ StepOf(r)
    <2>1. /\ UNCHANGED <<procVars, breach, reason, ladder, exit, row, up, asked, owed>>
          /\ state[r] # "pending" /\ state'[r] = "finished"
          /\ result[r] = "none" /\ result'[r] = ClassifyOutcome(r)
          /\ resv'[r] # "open"
          /\ \A s \in Runs \ {r} : state'[s] = state[s] /\ resv'[s] = resv[s]
                                   /\ marker'[s] = marker[s] /\ result'[s] = result[s]
      BY <1>5 DEF Finish, TypeOK
    <2>2. marker'[r].written = marker[r].written /\ marker'[r].cancelled = marker[r].cancelled
      BY <1>5 DEF Finish, TypeOK, Marker
    <2>3. ClassifyOutcome(r) # "none"
      <3>1. breach[r] \in Breaches /\ reason[r] \in BOOLEAN
        BY DEF TypeOK
      <3> QED
        BY <3>1 DEF ClassifyOutcome, Breaches
    <2>4. ClassifyOutcome(r) = "completed" => ~reason[r] /\ exit[r].code = "zero"
      BY DEF ClassifyOutcome, TypeOK, Breaches
    <2>5. ClassifyOutcome(r) = "cancelled" => reason[r]
      BY DEF ClassifyOutcome, TypeOK, Breaches
    <2>6. exit[r].code = "zero" => proc[r].status = "zero"
      BY DEF RunInv, MemoryInv, NoExit
    <2>7. ProcessInv(r)' /\ MemoryInv(r)' /\ OwedInv(r)'
      BY <2>1, <2>2 DEF RunInv, ProcessInv, MemoryInv, OwedInv, procVars, Rung
    <2>8. AskedInv(r)'
      BY <2>1, <2>2, <2>4, <2>5, <2>6 DEF RunInv, AskedInv, procVars
    <2>9. RowInv(r)'
      BY <2>1, <2>2, <2>3 DEF RunInv, RowInv, procVars, Alive
    <2> QED
      BY <2>1, <2>7, <2>8, <2>9 DEF RunInv, StepOf, Untouched, procVars
  <1>6. ASSUME SettleRow(r) PROVE RunInv(r)' /\ StepOf(r)
    <2>1. /\ UNCHANGED <<procVars, memVars, resv, marker, up, asked, owed>>
          /\ row[r] = "open" /\ result[r] # "none"
          /\ row'[r] = ToAttemptOutcome(result[r])
          /\ \A s \in Runs \ {r} : row'[s] = row[s]
      BY <1>6 DEF SettleRow, TypeOK
    <2>2. /\ row'[r] \in {"succeeded", "cancelled", "failed"}
          /\ row'[r] = "succeeded" => result[r] = "completed"
          /\ row'[r] = "cancelled" => result[r] = "cancelled"
      BY <2>1 DEF ToAttemptOutcome
    <2>3. ProcessInv(r)' /\ MemoryInv(r)' /\ AskedInv(r)' /\ RowInv(r)' /\ OwedInv(r)'
      BY <2>1, <2>2 DEF RunInv, ProcessInv, MemoryInv, AskedInv, RowInv, OwedInv, procVars, memVars,
                        Rung, Alive
    <2> QED
      BY <2>1, <2>3 DEF RunInv, StepOf, Untouched, procVars, memVars
  <1>7. ASSUME FailInterruptedTask(r) PROVE RunInv(r)' /\ StepOf(r)
    BY <1>7, UntouchedKeeps DEF FailInterruptedTask, Untouched, StepOf, procVars, memVars
  <1> QED
    BY <1>1, <1>2, <1>3, <1>4, <1>5, <1>6, <1>7

\* A crash forgets every run and keeps what is on disk; a machine that went down
\* took the processes with it.
LEMMA CrashKeeps ==
  ASSUME TypeOK, NEW machine \in BOOLEAN, Crash(machine), NEW r \in Runs, RunInv(r)
  PROVE  RunInv(r)'
  <1>1. /\ state'[r] = "pending" /\ ~reason'[r] /\ breach'[r] = "none" /\ result'[r] = "none"
        /\ exit'[r] = NoExit /\ ladder'[r] = [c \in Callers |-> Resting] /\ owed'[r] = {}
        /\ ~up' /\ UNCHANGED <<resv, marker, row, asked>>
    BY DEF Crash, diskVars
  <1>2. /\ ~proc'[r].ours
        /\ \/ proc'[r].is = proc[r].is /\ proc'[r].status = proc[r].status
           \/ Alive(r) /\ proc'[r].is = "gone" /\ proc'[r].status = "signal"
    <2>1. proc[r] \in Process
      BY DEF TypeOK
    <2>2. \/ proc'[r] = [proc[r] EXCEPT !.ours = FALSE]
          \/ /\ Alive(r)
             /\ proc'[r] = [[proc[r] EXCEPT !.ours = FALSE] EXCEPT !.is = "gone", !.status = "signal"]
      BY DEF Crash
    <2> QED
      BY <2>1, <2>2 DEF Process
  <1>3. ProcessInv(r)'
    BY <1>1, <1>2 DEF RunInv, ProcessInv, Alive
  <1>5. MemoryInv(r)'
    <2>1. \A c \in Callers : ladder'[r][c].at = "idle" /\ ladder'[r][c].snapshot = {}
      BY <1>1 DEF Resting
    <2> QED
      BY <1>1, <2>1 DEF MemoryInv, Rung, Callers
  <1>6. OwedInv(r)'
    BY <1>1 DEF OwedInv
  <1>4. AskedInv(r)' /\ RowInv(r)'
    BY <1>1, <1>2 DEF RunInv, ProcessInv, AskedInv, RowInv, Alive
  <1> QED
    BY <1>3, <1>4, <1>5, <1>6 DEF RunInv

\* The startup finds no run in memory, and closes a row by what its marker and
\* the process table say.
LEMMA ReconcileKeeps ==
  ASSUME TypeOK, OpenStoreAndReconcile, NEW r \in Runs, RunInv(r)
  PROVE  RunInv(r)'
  <1>1. /\ ~up /\ UNCHANGED <<procVars, memVars, marker, asked, owed>>
        /\ row'[r] = Reconciled(r) /\ resv'[r] # "open"
    BY DEF OpenStoreAndReconcile, Abandoned
  <1>2. ~proc[r].ours /\ state[r] = "pending"
    BY <1>1 DEF RunInv, ProcessInv, MemoryInv
  <1>3. marker[r].written \in BOOLEAN /\ marker[r].cancelled \in BOOLEAN
    BY DEF TypeOK, Marker
  <1>4. \/ row'[r] = row[r]
        \/ row[r] = "open" /\ row'[r] = "cancelled" /\ marker[r].cancelled
        \/ /\ row[r] = "open" /\ row'[r] = "interrupted" /\ ~marker[r].cancelled
           /\ ~(marker[r].written /\ Alive(r))
    BY <1>1, <1>3 DEF Reconciled, ClassifyInterruption
  <1>5. ProcessInv(r)' /\ MemoryInv(r)' /\ AskedInv(r)' /\ OwedInv(r)'
    BY <1>1, <1>2 DEF RunInv, ProcessInv, MemoryInv, AskedInv, OwedInv, procVars, memVars, Rung
  <1>6. RowInv(r)'
    BY <1>1, <1>2, <1>4 DEF RunInv, RowInv, AskedInv, procVars, memVars, Alive
  <1> QED
    BY <1>5, <1>6 DEF RunInv

LEMMA InitIInv == Init => IInv
  <1> SUFFICES ASSUME Init PROVE IInv
    OBVIOUS
  <1>1. TypeOK
    <2>1. [is |-> "none", status |-> "none", term |-> FALSE, ours |-> FALSE] \in Process
      BY DEF Process
    <2>2. /\ NoExit \in Exit /\ Resting \in Ladder /\ NoMarker \in Marker
          /\ [elapsed |-> 0, timer |-> FALSE] \in Clock /\ [k \in Kids |-> "unborn"] \in Descendants
      BY WorkersAssumption DEF NoExit, Resting, NoMarker, Exit, Ladder, Marker, Clock, Descendants
    <2> QED
      BY <2>1, <2>2 DEF Init, InitMemory, TypeOK, States, Breaches, Results, Reservations, Rows
  <1>2. ASSUME NEW r \in Runs PROVE RunInv(r)
    <2>1. /\ proc[r].is = "none" /\ proc[r].status = "none" /\ ~proc[r].ours
          /\ state[r] = "pending" /\ ~reason[r] /\ breach[r] = "none" /\ result[r] = "none"
          /\ exit[r] = NoExit /\ row[r] = "none" /\ resv[r] = "none"
          /\ asked[r] = "no" /\ owed[r] = {} /\ ~marker[r].cancelled
      BY DEF Init, InitMemory, NoMarker
    <2>2. \A c \in Callers : ladder[r][c].at = "idle" /\ ladder[r][c].snapshot = {}
      BY DEF Init, InitMemory, Resting
    <2>3. MemoryInv(r)
      BY <2>1, <2>2 DEF MemoryInv, Rung, Callers
    <2> QED
      BY <2>1, <2>3 DEF RunInv, ProcessInv, AskedInv, RowInv, OwedInv
  <1> QED
    BY <1>1, <1>2 DEF IInv

LEMMA NextIInv == IInv /\ [Next]_vars => IInv'
  <1> SUFFICES ASSUME IInv, [Next]_vars PROVE IInv'
    OBVIOUS
  <1>1. TypeOK /\ TypeOK'
    BY NextType DEF IInv
  <1>2. ASSUME NEW r \in Runs, StepOf(r), RunInv(r)' PROVE \A s \in Runs : RunInv(s)'
    BY <1>2, UntouchedKeeps DEF IInv, StepOf
  <1>3. ASSUME NEW machine \in BOOLEAN, Crash(machine) PROVE \A s \in Runs : RunInv(s)'
    BY <1>1, <1>3, CrashKeeps DEF IInv
  <1>4. CASE OpenStoreAndReconcile
    BY <1>1, <1>4, ReconcileKeeps DEF IInv
  <1>5. CASE UNCHANGED vars
    BY <1>1, <1>5, UntouchedKeeps DEF IInv, Untouched, vars, procVars, memVars, diskVars
  <1>6. CASE Next /\ ~OpenStoreAndReconcile /\ ~\E machine \in BOOLEAN : Crash(machine)
    <2>1. PICK r \in Runs :
            \/ \E k \in Kids : SpawnKid(r, k)
            \/ \E status \in {"zero", "nonzero", "signal"} : ProcessExits(r, status)
            \/ OnExit(r) \/ SpawnWorker(r)
            \/ UserCancel(r)
            \/ \E used \in BOOLEAN : Observe(r, used)
            \/ TimerFires(r)
            \/ \E c \in Callers : Climb(r, c) \/ SweepSnapshot(r, c)
            \/ OpenAttempt(r) \/ Start(r) \/ Tick(r) \/ Pause(r) \/ Resume(r)
            \/ Finish(r) \/ SettleRow(r) \/ FailInterruptedTask(r)
      BY <1>6 DEF Next
    <2>2. RunInv(r)
      BY DEF IInv
    <2>3. RunInv(r)' /\ StepOf(r)
      BY <1>1, <2>1, <2>2, ProcessSteps, CancelSteps, LadderSteps, CoordinatorSteps
    <2> QED
      BY <1>1, <1>2, <2>3 DEF IInv
  <1> QED
    BY <1>1, <1>3, <1>4, <1>5, <1>6 DEF IInv
----------------------------------------------------------------------------
LEMMA SpecIInv == Spec => []IInv
  BY InitIInv, NextIInv, PTL DEF Spec

\* Every variable is of its type, for any number of runs, descendants and
\* crashes (workers/lifecycle.ts, limits.ts, spawn.ts, storage/reconcile.ts).
THEOREM TypeCorrect == Spec => []TypeOK
  <1>1. IInv => TypeOK
    BY DEF IInv
  <1> QED
    BY <1>1, SpecIInv, PTL

\* A row that is closed says what happened to its attempt, whenever the
\* coordinator dies and however often (finish, toAttemptOutcome,
\* reconcileAbandonedAttempts, reconcileOpenReservations).
THEOREM RowsTellTheTruthTheorem == Spec => []RowsTellTheTruth
  <1>1. IInv => RowsTellTheTruth
    BY DEF IInv, RunInv, RowInv, RowsTellTheTruth
  <1> QED
    BY <1>1, SpecIInv, PTL

\* No descendant that a cancellation found alive outlives it, however many
\* there are and whichever callers cancel (WorkerHandle.cancel, sweepSnapshot).
THEOREM CancelLeavesNoOrphanTheorem == Spec => []CancelLeavesNoOrphan
  <1>1. IInv => CancelLeavesNoOrphan
    <2> SUFFICES ASSUME IInv, NEW r \in Runs, \A c \in Callers : Rung(r, c) \in {"idle", "done"},
                        NEW k \in owed[r] \cap LiveKids(r)
                 PROVE  FALSE
      BY DEF CancelLeavesNoOrphan
    <2>1. \A c \in Callers : ladder[r][c].snapshot = {}
      BY DEF IInv, RunInv, MemoryInv
    <2>2. \E c \in Callers : k \in ladder[r][c].snapshot
      BY DEF IInv, RunInv, OwedInv, LiveKids
    <2> QED
      BY <2>1, <2>2
  <1> QED
    BY <1>1, SpecIInv, PTL
=============================================================================
