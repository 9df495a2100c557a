------------------------------ MODULE Workers ------------------------------
(***************************************************************************)
(* A supervised worker process: its start, limits, pause, cancellation and *)
(* settlement (workers/lifecycle.ts, limits.ts, spawn.ts,                  *)
(* process-tree.ts), the marker file that survives the coordinator, and    *)
(* what the next coordinator makes of the attempts it finds open           *)
(* (workers/reconcile.ts, storage/reconcile.ts).                           *)
(*                                                                         *)
(* A worker has descendants that outlive it.  The clock of a run counts up *)
(* to one past its wall-clock limit.  Usage is over its limit or not.  A   *)
(* pid names one process for ever: reuse of pids is left out.              *)
(***************************************************************************)
EXTENDS FailurePolicy

CONSTANTS
  Runs,        \* worker runs, each with its own attempt row
  Kids,        \* descendants a worker may start
  WallClock,   \* budget.wallClockMs, in ticks
  MaxCrashes   \* bound: coordinator crashes

ASSUME WorkersAssumption == WallClock \in Nat \ {0} /\ MaxCrashes \in Nat

VARIABLES
  proc,    \* process: "none", "running", "stopped", "gone"; its status; SIGTERM pending; a handle
  kids,    \* descendants: "unborn", "alive", "dead"
  state,   \* WorkerRun.#state
  clock,   \* elapsedMs and the armed timer
  over,    \* observed usage is over a token or spend limit
  breach,  \* #breach
  reason,  \* #cancelReason is set
  ladder,  \* WorkerHandle.cancel in progress, per caller
  exit,    \* WorkerHandle.exit
  result,  \* #result
  resv,    \* the ledger reservation
  marker,  \* the runtime marker file
  row,     \* the attempt row
  task,    \* task status, and the recovery answer once it failed
  up,      \* the coordinator runs
  crashes,
  asked,   \* history: a cancellation was asked for: "no", "yes", "late" after the end
  owed     \* history: descendants alive when it was, if the process table was readable

procVars == <<proc, kids>>
memVars == <<state, clock, over, breach, reason, ladder, exit, result>>
diskVars == <<resv, marker, row, task>>
vars == <<procVars, memVars, diskVars, up, crashes, asked, owed>>

Callers == {"limit", "user"}
NoExit == [code |-> "none", crashed |-> FALSE]
NoMarker == [written |-> FALSE, cancelled |-> FALSE, exited |-> FALSE]
Resting == [at |-> "idle", snapshot |-> {}]
Alive(r) == proc[r].is \in {"running", "stopped"}
LiveKids(r) == {k \in Kids : kids[r][k] = "alive"}
Rung(r, c) == ladder[r][c].at

InitMemory ==
  /\ state = [r \in Runs |-> "pending"]
  /\ clock = [r \in Runs |-> [elapsed |-> 0, timer |-> FALSE]]
  /\ over = [r \in Runs |-> FALSE]
  /\ breach = [r \in Runs |-> "none"]
  /\ reason = [r \in Runs |-> FALSE]
  /\ ladder = [r \in Runs |-> [c \in Callers |-> Resting]]
  /\ exit = [r \in Runs |-> NoExit]
  /\ result = [r \in Runs |-> "none"]

Init ==
  /\ proc = [r \in Runs |-> [is |-> "none", status |-> "none", term |-> FALSE, ours |-> FALSE]]
  /\ kids = [r \in Runs |-> [k \in Kids |-> "unborn"]]
  /\ InitMemory
  /\ resv = [r \in Runs |-> "none"]
  /\ marker = [r \in Runs |-> NoMarker]
  /\ row = [r \in Runs |-> "none"]
  /\ task = [r \in Runs |-> "running"]
  /\ up = TRUE /\ crashes = 0
  /\ asked = [r \in Runs |-> "no"]
  /\ owed = [r \in Runs |-> {}]
----------------------------------------------------------------------------
(* The process.                                                            *)

\* The worker starts a detached command of its own.
SpawnKid(r, k) ==
  /\ proc[r].is = "running" /\ kids[r][k] = "unborn"
  /\ kids' = [kids EXCEPT ![r][k] = "alive"]
  /\ UNCHANGED <<proc, memVars, diskVars, up, crashes, asked, owed>>

\* The worker ends: by itself, because it was told to abort, or on SIGTERM,
\* when its handler may end its commands first.  A stopped process does
\* none of this.
ProcessExits(r, status) ==
  /\ proc[r].is = "running"
  /\ status = "signal" => proc[r].term
  /\ proc' = [proc EXCEPT ![r].is = "gone", ![r].status = status]
  /\ \E reaped \in IF status = "signal" THEN {{}, LiveKids(r)} ELSE {{}} :
       kids' = [kids EXCEPT ![r] = [k \in Kids |-> IF k \in reaped THEN "dead" ELSE @[k]]]
  /\ UNCHANGED <<memVars, diskVars, up, crashes, asked, owed>>

\* WorkerHandle.onExit, and the worker_exit message the run observes.
OnExit(r) ==
  /\ up /\ proc[r].ours /\ proc[r].is = "gone" /\ exit[r] = NoExit
  /\ exit' = [exit EXCEPT ![r] =
       [code |-> proc[r].status,
        crashed |-> proc[r].status # "zero" /\ \A c \in Callers : Rung(r, c) = "idle"]]
  /\ clock' = [clock EXCEPT ![r].timer = FALSE]
  /\ UNCHANGED <<procVars, state, over, breach, reason, ladder, result, diskVars, up, crashes,
                 asked, owed>>
----------------------------------------------------------------------------
(* Starting.                                                               *)

\* The coordinator inserts the attempt row, for a first attempt or, as
\* applyHandoff does, for one that takes over from an attempt that ended.
OpenAttempt(r) ==
  /\ up /\ row[r] = "none"
  /\ row' = [row EXCEPT ![r] = "open"]
  /\ UNCHANGED <<procVars, memVars, resv, marker, task, up, crashes, asked, owed>>

\* spawnWorker: the process exists from here on.
SpawnWorker(r) ==
  /\ up /\ row[r] = "open" /\ proc[r].is = "none"
  /\ proc' = [proc EXCEPT ![r].is = "running", ![r].ours = TRUE]
  /\ UNCHANGED <<kids, memVars, diskVars, up, crashes, asked, owed>>

\* WorkerRun.start: the reservation, then the marker.  A refused reservation
\* throws and leaves everything as it is.
Start(r) ==
  /\ up /\ proc[r].ours /\ state[r] = "pending"
  /\ state' = [state EXCEPT ![r] = "running"]
  /\ resv' = [resv EXCEPT ![r] = "open"]
  /\ marker' = [marker EXCEPT ![r].written = TRUE]
  /\ clock' = [clock EXCEPT ![r] = [elapsed |-> 0, timer |-> TRUE]]
  /\ UNCHANGED <<procVars, over, breach, reason, ladder, exit, result, row, task, up, crashes,
                 asked, owed>>
----------------------------------------------------------------------------
(* Cancelling.                                                             *)

\* descendantsOf the worker: the parent links are gone once it is, and a process
\* table that cannot be read knows of none.
SnapshotTree(r, readable) == IF readable /\ Alive(r) THEN LiveKids(r) ELSE {}

\* Mutant: the marker learns of a cancellation only from the ladder's end.
MarkLater(r) == marker' = marker

\* The cancellation is in the marker before any signal goes out.
MarkCancellationRequested(r) ==
  marker' = IF marker[r].written THEN [marker EXCEPT ![r].cancelled = TRUE] ELSE marker

\* WorkerRun.cancel up to its await: a stopped worker is continued, the run is
\* stopping, and WorkerHandle.cancel has taken its snapshot.
CancelSeeing(r, c, why, readable) ==
  /\ state' = [state EXCEPT ![r] = "stopping"]
  /\ clock' = [clock EXCEPT ![r].timer = FALSE]
  /\ reason' = [reason EXCEPT ![r] = TRUE]
  /\ breach' = [breach EXCEPT ![r] = IF c = "limit" THEN why ELSE @]
  /\ MarkCancellationRequested(r)
  /\ proc' = [proc EXCEPT ![r].is = IF @ = "stopped" THEN "running" ELSE @]
  /\ ladder' = [ladder EXCEPT ![r][c] =
       [at |-> IF exit[r] = NoExit THEN "cooperative" ELSE "sweep",
        snapshot |-> SnapshotTree(r, readable)]]
  /\ asked' = [asked EXCEPT ![r] = IF result[r] = "none" \/ @ = "yes" THEN "yes" ELSE "late"]
  /\ owed' = [owed EXCEPT ![r] = @ \cup (IF readable /\ Alive(r) THEN LiveKids(r) ELSE {})]
  /\ UNCHANGED <<kids, exit, result, resv, row, task, up, crashes>>

Cancel(r, c, why) == \E readable \in BOOLEAN : CancelSeeing(r, c, why, readable)

\* A caller cancels: /korwf cancel, cancelAll, or a wait that ran out.  Nothing
\* keeps it from a run that has finished.
UserCancel(r) ==
  /\ up /\ state[r] # "pending" /\ Rung(r, "user") = "idle"
  /\ Cancel(r, "user", "none") /\ UNCHANGED over

\* evaluateLimits, in the order of the code.
Breach(r, used) ==
  CASE clock[r].elapsed > WallClock -> "elapsed"
    [] clock[r].elapsed <= WallClock /\ used -> "usage"
    [] OTHER -> "none"

Enforceable(r) == breach[r] = "none" /\ state[r] \in {"running", "paused"}

\* observe: a message of the worker, with usage that may be over the limit.
Observe(r, used) ==
  /\ up /\ proc[r].is = "running" /\ Enforceable(r) /\ Breach(r, used) # "none"
  /\ over' = [over EXCEPT ![r] = used]
  /\ Cancel(r, "limit", Breach(r, used))

\* Mutant: the timer fires once and is not armed again.
RearmNever(r) == FALSE

\* The timer arms itself again after a check that found no breach.
RearmAfterCheck(r) == breach[r] = "none" /\ state[r] = "running" /\ exit[r] = NoExit

\* The timer of the wall clock, due when the limit is reached and not yet over.
TimerFires(r) ==
  /\ up /\ clock[r].timer /\ clock[r].elapsed >= WallClock
  /\ IF Enforceable(r) /\ Breach(r, over[r]) # "none"
     THEN Cancel(r, "limit", Breach(r, over[r])) /\ UNCHANGED over
     ELSE /\ clock' = [clock EXCEPT ![r].timer = RearmAfterCheck(r)]
          /\ UNCHANGED <<procVars, state, over, breach, reason, ladder, exit, result, diskVars,
                         up, crashes, asked, owed>>

\* Time passes for a run that is not paused.
Tick(r) ==
  /\ up /\ state[r] = "running" /\ clock[r].elapsed <= WallClock
  /\ clock' = [clock EXCEPT ![r].elapsed = @ + 1]
  /\ UNCHANGED <<procVars, state, over, breach, reason, ladder, exit, result, diskVars, up,
                 crashes, asked, owed>>

\* The ladder of WorkerHandle.cancel: each rung waits for the exit, or for its
\* grace period and then signals harder.
Climb(r, c) ==
  LET To(at) == ladder' = [ladder EXCEPT ![r][c].at = at]
      Signal(p) == proc' = [proc EXCEPT ![r] = p]
  IN /\ up
     /\ \/ /\ Rung(r, c) \in {"cooperative", "graceful"} /\ exit[r] # NoExit
           /\ To("sweep") /\ UNCHANGED proc
        \/ /\ Rung(r, c) = "cooperative" /\ exit[r] = NoExit
           /\ To("graceful") /\ Signal([proc[r] EXCEPT !.term = Alive(r)])
        \/ /\ Rung(r, c) = "graceful" /\ exit[r] = NoExit
           /\ To("hard")
           /\ Signal(IF Alive(r) THEN [proc[r] EXCEPT !.is = "gone", !.status = "signal"]
                     ELSE proc[r])
        \/ /\ Rung(r, c) = "hard"
           /\ To("sweep") /\ UNCHANGED proc
     /\ UNCHANGED <<kids, state, clock, over, breach, reason, exit, result, diskVars, up, crashes,
                    asked, owed>>

\* Mutant: the sweep looks at the tree again instead of at its snapshot.
SweepTargets(r, c) == SnapshotTree(r, TRUE)

\* The pids the sweep signals.
Swept(r, c) == ladder[r][c].snapshot

\* sweepSnapshot: SIGKILL to what is left of the snapshot.
SweepSnapshot(r, c) ==
  /\ up /\ Rung(r, c) = "sweep"
  /\ kids' = [kids EXCEPT ![r] =
       [k \in Kids |-> IF k \in Swept(r, c) /\ @[k] = "alive" THEN "dead" ELSE @[k]]]
  /\ ladder' = [ladder EXCEPT ![r][c] = [at |-> "done", snapshot |-> {}]]
  /\ UNCHANGED <<proc, state, clock, over, breach, reason, exit, result, diskVars, up, crashes,
                 asked, owed>>
----------------------------------------------------------------------------
(* Pausing and settling.                                                   *)

Pause(r) ==
  /\ up /\ state[r] = "running"
  /\ state' = [state EXCEPT ![r] = "paused"]
  /\ clock' = [clock EXCEPT ![r].timer = FALSE]
  /\ proc' = [proc EXCEPT ![r].is = IF @ = "running" THEN "stopped" ELSE @]
  /\ UNCHANGED <<kids, over, breach, reason, ladder, exit, result, diskVars, up, crashes, asked,
                 owed>>

Resume(r) ==
  /\ up /\ state[r] = "paused"
  /\ state' = [state EXCEPT ![r] = "running"]
  /\ clock' = [clock EXCEPT ![r].timer = TRUE]
  /\ proc' = [proc EXCEPT ![r].is = IF @ = "stopped" THEN "running" ELSE @]
  /\ UNCHANGED <<kids, over, breach, reason, ladder, exit, result, diskVars, up, crashes, asked,
                 owed>>

ClassifyOutcome(r) ==
  CASE breach[r] = "elapsed" -> "timeout"
    [] breach[r] = "usage" -> "limit_exceeded"
    [] breach[r] = "none" /\ reason[r] -> "cancelled"
    [] breach[r] = "none" /\ ~reason[r] ->
         CASE exit[r].code = "zero" -> "completed"
           [] exit[r].crashed -> "crashed"
           [] OTHER -> "failed"

\* finish, reached by wait once the exit was seen or its own cancel returned.
Finish(r) ==
  /\ up /\ state[r] # "pending" /\ result[r] = "none"
  /\ exit[r] # NoExit \/ Rung(r, "user") = "done"
  /\ state' = [state EXCEPT ![r] = "finished"]
  /\ clock' = [clock EXCEPT ![r].timer = FALSE]
  /\ result' = [result EXCEPT ![r] = ClassifyOutcome(r)]
  /\ resv' = [resv EXCEPT ![r] = IF @ = "open" THEN "settled" ELSE @]
  /\ marker' = IF marker[r].written THEN [marker EXCEPT ![r].exited = TRUE] ELSE marker
  /\ UNCHANGED <<procVars, over, breach, reason, ladder, exit, row, task, up, crashes, asked,
                 owed>>

ToAttemptOutcome(outcome) ==
  CASE outcome = "completed" -> "succeeded"
    [] outcome = "cancelled" -> "cancelled"
    [] OTHER -> "failed"

\* The coordinator stores the outcome of the result.
SettleRow(r) ==
  /\ up /\ row[r] = "open" /\ result[r] # "none"
  /\ row' = [row EXCEPT ![r] = ToAttemptOutcome(result[r])]
  /\ UNCHANGED <<procVars, memVars, resv, marker, task, up, crashes, asked, owed>>
----------------------------------------------------------------------------
(* Crash and startup.                                                      *)

\* The coordinator dies with what it held in memory; when the machine goes
\* down, the workers and their commands go with it.
Crash(machine) ==
  /\ up /\ crashes < MaxCrashes
  /\ up' = FALSE /\ crashes' = crashes + 1
  /\ state' = [r \in Runs |-> "pending"]
  /\ clock' = [r \in Runs |-> [elapsed |-> 0, timer |-> FALSE]]
  /\ over' = [r \in Runs |-> FALSE] /\ breach' = [r \in Runs |-> "none"]
  /\ reason' = [r \in Runs |-> FALSE] /\ exit' = [r \in Runs |-> NoExit]
  /\ ladder' = [r \in Runs |-> [c \in Callers |-> Resting]]
  /\ result' = [r \in Runs |-> "none"]
  /\ owed' = [r \in Runs |-> {}]
  /\ proc' = [r \in Runs |->
       LET lost == [proc[r] EXCEPT !.ours = FALSE]
       IN IF machine /\ Alive(r) THEN [lost EXCEPT !.is = "gone", !.status = "signal"] ELSE lost]
  /\ kids' = [r \in Runs |-> [k \in Kids |->
       IF machine /\ kids[r][k] = "alive" THEN "dead" ELSE kids[r][k]]]
  /\ UNCHANGED <<diskVars, asked>>

\* classifyInterruption over evidenceFor: no marker is no pid, and no pid is
\* not alive.
ClassifyInterruption(r) ==
  CASE marker[r].written /\ Alive(r) -> "still_running"
    [] ~(marker[r].written /\ Alive(r)) /\ marker[r].cancelled -> "process_killed"
    [] ~(marker[r].written /\ Alive(r)) /\ ~marker[r].cancelled /\ marker[r].exited -> "worker_died"
    [] OTHER -> "machine_crashed"

\* crashProbe and reconcileAbandonedAttempts, for one open row.
Reconciled(r) ==
  CASE row[r] # "open" \/ ClassifyInterruption(r) = "still_running" -> row[r]
    [] row[r] = "open" /\ ClassifyInterruption(r) = "process_killed" -> "cancelled"
    [] row[r] = "open" /\ ClassifyInterruption(r) \in {"worker_died", "machine_crashed"} ->
         "interrupted"

\* Mutant: the reservation of a worker found running is kept.
KeptWhileRunning(r) ==
  IF resv[r] = "open" /\ ClassifyInterruption(r) # "still_running" THEN "abandoned" ELSE resv[r]

\* reconcileOpenReservations: every open reservation is abandoned, that of a
\* worker found running too.
Abandoned(r) == IF resv[r] = "open" THEN "abandoned" ELSE resv[r]

\* openStoreAndReconcileCrashes.
OpenStoreAndReconcile ==
  /\ ~up /\ up' = TRUE
  /\ row' = [r \in Runs |-> Reconciled(r)]
  /\ resv' = [r \in Runs |-> Abandoned(r)]
  /\ UNCHANGED <<procVars, memVars, marker, task, crashes, asked, owed>>

\* failInterruptedTask: the recovery of an interruption, harness or unknown.
FailInterruptedTask(r) ==
  LET category == IF marker[r].cancelled \/ marker[r].exited THEN "harness" ELSE "unknown"
      in == [category |-> category, needsEvidence |-> category = "unknown", attemptsUsed |-> 1,
             subject |-> "task", stalls |-> {}, effect |-> "no_step"]
  IN /\ up /\ result[r] = "none" /\ row[r] \in {"interrupted", "cancelled"} /\ task[r] = "running"
     /\ task' = [task EXCEPT ![r] = ChooseRecovery(in, <<>>)]
     /\ UNCHANGED <<procVars, memVars, resv, marker, row, up, crashes, asked, owed>>
----------------------------------------------------------------------------
Next ==
  \/ \E r \in Runs, k \in Kids : SpawnKid(r, k)
  \/ \E r \in Runs, status \in {"zero", "nonzero", "signal"} : ProcessExits(r, status)
  \/ \E r \in Runs : OnExit(r)
  \/ \E r \in Runs : OpenAttempt(r)
  \/ \E r \in Runs : SpawnWorker(r)
  \/ \E r \in Runs : Start(r)
  \/ \E r \in Runs : UserCancel(r)
  \/ \E r \in Runs, used \in BOOLEAN : Observe(r, used)
  \/ \E r \in Runs : TimerFires(r)
  \/ \E r \in Runs : Tick(r)
  \/ \E r \in Runs, c \in Callers : Climb(r, c)
  \/ \E r \in Runs, c \in Callers : SweepSnapshot(r, c)
  \/ \E r \in Runs : Pause(r)
  \/ \E r \in Runs : Resume(r)
  \/ \E r \in Runs : Finish(r)
  \/ \E r \in Runs : SettleRow(r)
  \/ \E machine \in BOOLEAN : Crash(machine)
  \/ OpenStoreAndReconcile
  \/ \E r \in Runs : FailInterruptedTask(r)

\* Time passes, the event loop runs armed timers and awaited continuations, and
\* the exit of a child is delivered.
Fairness ==
  \A r \in Runs : /\ WF_vars(Tick(r)) /\ WF_vars(TimerFires(r)) /\ WF_vars(OnExit(r))
                  /\ \A c \in Callers : WF_vars(Climb(r, c)) /\ WF_vars(SweepSnapshot(r, c))

Spec == Init /\ [][Next]_vars /\ Fairness
----------------------------------------------------------------------------
\* What a closed row says of its attempt is so: one that says it succeeded
\* ended with code 0 before anyone cancelled it; one that says it was cancelled
\* was asked to stop; one that says it was interrupted was not, and its
\* process, once supervised, is gone.  An open reservation has a coordinator that
\* supervises its run, or one that is down and will abandon it.  A crash may
\* fall between any two steps (cancel, finish, classifyInterruption,
\* reconcileOpenReservations).
RowsTellTheTruth ==
  \A r \in Runs :
    /\ row[r] = "succeeded" => proc[r].status = "zero" /\ asked[r] # "yes"
    /\ row[r] = "cancelled" => asked[r] # "no"
    /\ row[r] = "interrupted" => asked[r] = "no" /\ (marker[r].written => ~Alive(r))
    /\ resv[r] = "open" => ~up \/ state[r] \in {"running", "paused", "stopping"}

\* Every descendant that was alive when a worker was cancelled is dead once the
\* cancellation returned, whatever rung it ended on and however the worker
\* died: its parent links are gone by then (WorkerHandle.cancel takes the
\* snapshot before any signal).  A cancellation that could not read the process
\* table promises nothing (readProcessTable).
CancelLeavesNoOrphan ==
  \A r \in Runs :
    (up /\ owed[r] # {} /\ \A c \in Callers : Rung(r, c) \in {"idle", "done"})
      => owed[r] \cap LiveKids(r) = {}

\* A worker that reached its wall-clock limit is stopped without saying a word,
\* unless it is paused or its coordinator dies (armElapsedTimer re-arms;
\* cancel climbs to SIGKILL).
OverdueWorkerStops ==
  \A r \in Runs : (state[r] = "running" /\ clock[r].elapsed >= WallClock)
                    ~> (proc[r].is = "gone" \/ state[r] = "paused" \/ ~up)

\* A worker that is alive is not closed by reconciliation (classifyInterruption,
\* "A live worker is never closed by reconciliation").
LiveWorkerNeverClosed == \A r \in Runs : row[r] = "interrupted" => ~Alive(r)
============================================================================
