----------------------------- MODULE Scheduler -----------------------------
(***************************************************************************)
(* The dispatch loop of workflow/scheduler.ts (runScheduler), the ready    *)
(* set of workflow/graph.ts and the reservation hook of                    *)
(* workflow/budget-stops.ts.  The loop is one JavaScript task between two  *)
(* awaits, in the only process that may write the store, so a pass (plan,  *)
(* reserve, claim and start every selected task) is one action.  While the *)
(* loop awaits, workers settle, the user and the engine move tasks along   *)
(* the transition table, and cancellation may be requested.                *)
(***************************************************************************)
EXTENDS Transitions, Integers, FiniteSets

CONSTANTS
  Tasks,
  Deps,           \* Task.dependencies, acyclic (validateGraph)
  Rank,           \* the position of a task in topoOrder
  Conflict,       \* pairs with intersecting ownership (ownershipOverlap)
  Params,         \* what a run may be called with: its ceiling, the pairs the
                  \* coupling signal judges independent, and what becomes of
                  \* the calls of cancelWorker
  StartStatus,    \* statuses a task may have when the run starts
  UserEdges,      \* the edges taken from outside while the loop awaits
  MaxDispatch     \* bound: dispatches of one task

ASSUME SchedulerAssumption ==
  /\ IsFiniteSet(Tasks)
  /\ Deps \in [Tasks -> SUBSET Tasks]
  /\ Rank \in [Tasks -> Nat]
  /\ \A t, u \in Tasks : Rank[t] = Rank[u] => t = u
  /\ Conflict \in SUBSET (Tasks \X Tasks)
  /\ \A p \in Conflict : <<p[2], p[1]>> \in Conflict /\ <<p[1], p[1]>> \in Conflict
  /\ Params \in SUBSET [limit: Nat \ {0}, independent: SUBSET (Tasks \X Tasks),
                        cancelWorker: {"absent", "resolves", "rejects", "hangs"}]
  /\ \A c \in Params : \A p \in c.independent : <<p[2], p[1]>> \in c.independent
  /\ StartStatus \in SUBSET {"proposed", "ready"}
  /\ UserEdges \in SUBSET TASK_TRANSITIONS
  /\ MaxDispatch \in Nat

VARIABLES
  status,      \* Task.status
  inFlight,    \* the keys of the loop's inFlight map
  live,        \* unsettled dispatch promises, counted per task
  settled,     \* tasks in the map whose promise has settled
  reserved,    \* reservations held, counted per task
  dispatched,  \* dispatches so far, counted per task
  aborted,     \* signal.aborted
  params,      \* RunSchedulerParams, fixed for the run
  loop         \* pass, await, stopping, drain, ended, cancelled or failed

vars == <<status, inFlight, live, settled, reserved, dispatched,
          aborted, params, loop>>

Init ==
  /\ status \in [Tasks -> StartStatus]
  /\ inFlight = {}
  /\ live = [t \in Tasks |-> 0]
  /\ settled = {}
  /\ reserved = [t \in Tasks |-> 0]
  /\ dispatched = [t \in Tasks |-> 0]
  /\ aborted \in BOOLEAN
  /\ params \in Params
  /\ loop = "pass"

-----------------------------------------------------------------------------
(* planPass *)

\* readySet, with its default candidate statuses.
ReadySet ==
  {t \in Tasks : status[t] \in {"proposed", "ready"}
                   /\ \A d \in Deps[t] : status[d] = "done"}

\* Mutant: the coupling signal alone decides.
MayRunIndependent(t, u) == <<t, u>> \in params.independent

\* mayRunConcurrently: ownership in code first, then the coupling signal,
\* where unknown means serial.
MayRunConcurrently(t, u) == <<t, u>> \notin Conflict /\ <<t, u>> \in params.independent

Before(t, S) == {u \in S : Rank[u] < Rank[t]}

\* Mutant: the tasks selected earlier in the pass are not counted.
RoomForInFlight(t, S) == Cardinality(inFlight) < params.limit

\* The concurrency pre-filter for t, with S selected in this pass.
Room(t, S) == Cardinality(inFlight) + Cardinality(Before(t, S)) < params.limit

\* planPass: in rank order, a ready task is selected if there is room and it
\* may run beside everything in flight and everything selected before it.
Selected ==
  CHOOSE S \in SUBSET ReadySet : \A t \in ReadySet :
    t \in S <=> /\ Room(t, S)
                /\ \A u \in inFlight \cup Before(t, S) : MayRunConcurrently(t, u)

-----------------------------------------------------------------------------
(* startPass *)

\* claimTask: only a ready task is there to be claimed, and its readiness is
\* checked again (structuralGuards).
Claimable(t) == status[t] = "ready" /\ t \in ReadySet

\* One iteration of the loop.  Of the selected tasks, those in R are refused
\* (the reservation hook, the authorization or the policy); a refused
\* reservation is null and a lost claim gives its reservation back, so only
\* what is started holds one.  The loop then goes round again if anything
\* started, stops if nothing is in flight, and awaits a settlement otherwise.
Pass(R) ==
  LET started == {t \in Selected : Claimable(t)} \ R
      plusOne(f) == [t \in Tasks |-> IF t \in started THEN f[t] + 1 ELSE f[t]]
  IN  /\ loop = "pass"
      /\ ~aborted
      /\ status' = [t \in Tasks |-> IF t \in started THEN "running" ELSE status[t]]
      /\ inFlight' = inFlight \cup started
      /\ live' = plusOne(live)
      /\ settled' = settled \ started
      /\ reserved' = plusOne(reserved)
      /\ dispatched' = plusOne(dispatched)
      /\ loop' = IF started # {} THEN "pass"
                 ELSE IF inFlight = {} THEN "ended" ELSE "await"
      /\ UNCHANGED <<aborted, params>>

\* Cancellation is polled at the head of the loop; every worker in flight is
\* then asked to stop, and the answers are awaited together.
NoticeAbort ==
  /\ loop = "pass"
  /\ aborted
  /\ loop' = IF params.cancelWorker = "absent" THEN "drain" ELSE "stopping"
  /\ UNCHANGED <<status, inFlight, live, settled, reserved, dispatched, aborted, params>>

\* Every cancelWorker has resolved, or one has rejected and runScheduler with
\* it; one that hangs is waited for.
WorkersAsked ==
  /\ loop = "stopping"
  /\ \/ /\ params.cancelWorker = "resolves" \/ inFlight = {}
        /\ loop' = "drain"
     \/ /\ params.cancelWorker = "rejects"
        /\ inFlight # {}
        /\ loop' = "failed"
  /\ UNCHANGED <<status, inFlight, live, settled, reserved, dispatched, aborted, params>>

\* The race resolves to a settled dispatch.
Resume(t) ==
  /\ loop = "await"
  /\ t \in inFlight \cap settled
  /\ inFlight' = inFlight \ {t}
  /\ settled' = settled \ {t}
  /\ loop' = "pass"
  /\ UNCHANGED <<status, live, reserved, dispatched, aborted, params>>

\* Mutant: only what is still in flight is offered to the cancel edge.
CancelInFlight == inFlight

\* cancelRemaining's tasks: every one this run dispatched.
CancelOffered == {t \in Tasks : dispatched[t] > 0}

\* Mutant: the loop waits for the map to be emptied by someone else.
DrainOnceEmpty ==
  /\ loop = "drain"
  /\ inFlight = {}
  /\ loop' = "cancelled"
  /\ UNCHANGED <<status, inFlight, live, settled, reserved, dispatched, aborted, params>>

\* drainInFlight has seen every promise settle; then cancelRemaining, whose
\* edge refuses a terminal task.
Drain ==
  /\ loop = "drain"
  /\ inFlight \subseteq settled
  /\ status' = [t \in Tasks |->
                  IF t \in CancelOffered /\ status[t] \in TaskCancel.from
                    THEN "cancelled" ELSE status[t]]
  /\ inFlight' = {}
  /\ settled' = {}
  /\ loop' = "cancelled"
  /\ UNCHANGED <<live, reserved, dispatched, aborted, params>>

-----------------------------------------------------------------------------
(* What happens while the loop awaits *)

Awaiting == loop \in {"await", "stopping", "drain", "failed"}

\* The entry of the map waits for the latest promise of its task.
SettledAfter(t) ==
  CASE t \notin inFlight -> {settled}
    [] t \in inFlight /\ live[t] = 1 -> {settled \cup {t}}
    [] OTHER -> {settled, settled \cup {t}}

\* Mutant: a dispatch that rejects keeps its reservation.
SettleLeaking(t, ok) ==
  /\ Awaiting
  /\ live[t] > 0
  /\ live' = [live EXCEPT ![t] = @ - 1]
  /\ reserved' = [reserved EXCEPT ![t] = IF ok THEN @ - 1 ELSE @]
  /\ settled' \in SettledAfter(t)
  /\ status' = [status EXCEPT ![t] = IF @ = "running" /\ ok THEN "done" ELSE @]
  /\ UNCHANGED <<inFlight, dispatched, aborted, params, loop>>

\* A dispatch promise settles, and releases its reservation once, whether it
\* resolves or rejects (startDispatch).  A worker that succeeds has brought
\* its task, if still running, to done through the gate.
Settle(t, ok) ==
  /\ Awaiting
  /\ live[t] > 0
  /\ live' = [live EXCEPT ![t] = @ - 1]
  /\ reserved' = [reserved EXCEPT ![t] = @ - 1]
  /\ settled' \in SettledAfter(t)
  /\ status' = [status EXCEPT ![t] = IF @ = "running" /\ ok THEN "done" ELSE @]
  /\ UNCHANGED <<inFlight, dispatched, aborted, params, loop>>

\* The user or the engine moves a task; readiness needs its dependencies
\* done, and a task is made ready again only within its attempts.
MoveTask(t, e) ==
  /\ Awaiting
  /\ status[t] \in e.from
  /\ "readiness_valid" \in e.pre => \A d \in Deps[t] : status[d] = "done"
  /\ e.to = "ready" => dispatched[t] < MaxDispatch
  /\ status' = [status EXCEPT ![t] = e.to]
  /\ UNCHANGED <<inFlight, live, settled, reserved, dispatched,
                 aborted, params, loop>>

Abort ==
  /\ Awaiting
  /\ ~aborted
  /\ aborted' = TRUE
  /\ UNCHANGED <<status, inFlight, live, settled, reserved, dispatched,
                 params, loop>>

\* What the loop itself does next.
Loop ==
  \/ \E R \in SUBSET Tasks : Pass(R)
  \/ NoticeAbort
  \/ WorkersAsked
  \/ \E t \in Tasks : Resume(t)
  \/ Drain

Next ==
  \/ Loop
  \/ \E t \in Tasks, ok \in BOOLEAN : Settle(t, ok)
  \/ \E t \in Tasks, e \in UserEdges : MoveTask(t, e)
  \/ Abort

\* The event loop runs what is ready to run, and every worker settles in the
\* end, by itself, by its time limit or because it was asked to stop.
Fairness ==
  /\ WF_vars(Loop)
  /\ \A t \in Tasks : WF_vars(\E ok \in BOOLEAN : Settle(t, ok))

Spec == Init /\ [][Next]_vars
FairSpec == Spec /\ Fairness

-----------------------------------------------------------------------------
Workers == {t \in Tasks : live[t] > 0}

\* The unsettled dispatches: of each task the first, the second and so on.
LiveDispatches == UNION {{t} \X (1..live[t]) : t \in Tasks}

\* The tasks that mayRunConcurrently holds back while they are in flight
\* themselves: they own a path or a component, or the signal does not judge
\* them independent of themselves, as neither the coupling cache does nor the
\* default signal.  Others may get two workers: NoDuplicateWorker fails.
Exclusive ==
  {t \in Tasks : <<t, t>> \in Conflict \/ <<t, t>> \notin params.independent}

\* The exclusive tasks and those dispatched once: the map of the loop knows all
\* their workers.
Tracked == {t \in Tasks : t \in Exclusive \/ dispatched[t] <= 1}

\* mayRunConcurrently: two workers that run at the same time own nothing in
\* common, and if both tasks are tracked they were judged independent.
DisjointWorkers ==
  \A t, u \in Workers : t # u =>
    /\ <<t, u>> \notin Conflict
    /\ {t, u} \subseteq Tracked => <<t, u>> \in params.independent

\* claimTask: an exclusive task has one worker at most, although it may be
\* blocked and made ready again under it.
ExclusiveTaskOnce == \A t \in Exclusive : live[t] <= 1

\* startDispatch: a reservation is held exactly for as long as its worker runs,
\* so a rejected dispatch leaks no concurrency, no exclusive task has two, and
\* the workers of tracked tasks are never more than the limit.
ReservationsMatchWorkers ==
  /\ reserved = live
  /\ ExclusiveTaskOnce
  /\ Cardinality({d \in LiveDispatches : d[1] \in Tracked}) <= params.limit

\* A run that ended as cancelled has no worker of a tracked task and has left
\* nothing it dispatched half done.
StoppedClean ==
  /\ loop = "cancelled"
  /\ Workers \cap Tracked = {}
  /\ \A t \in Tasks : dispatched[t] > 0 => status[t] \in TaskTerminal

\* cancelRemaining: a run that was cancelled while it waited comes to such an
\* end, if the workers can be asked to stop.
CancelledRunEnds ==
  aborted /\ params.cancelWorker \in {"absent", "resolves"} ~>
    loop = "ended" \/ StoppedClean

\* The comment of cancelRemaining rules out a half-cancelled run.  The code
\* leaves one when a cancelWorker rejects or never resolves.
NoHalfCancelledRun == aborted ~> loop = "ended" \/ StoppedClean

\* claimTask says that the claim prevents a duplicate dispatch.  The code breaks
\* it for a task that is not exclusive.
NoDuplicateWorker == \A t \in Tasks : live[t] <= 1
=============================================================================
