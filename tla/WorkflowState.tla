--------------------------- MODULE WorkflowState ---------------------------
(***************************************************************************)
(* The runtime task/phase state machine (workflow/state.ts) over the       *)
(* SQLite store, with the operations that move it: blockers.ts, run.ts,    *)
(* budget-stops.ts, invalidation.ts, models/cap-pause.ts, the dispatch     *)
(* claim of scheduler.ts and the receipt that authorises "done"            *)
(* (storage/gate-receipts.ts, storage/repos/index.ts).                     *)
(*                                                                         *)
(* One action is one outermost store.write transaction: BEGIN IMMEDIATE    *)
(* under the single-writer lock makes it atomic, and a PendingRejection    *)
(* thrown inside it rolls it back.  Guard evaluators that callers supply   *)
(* are environment: an action may be taken when they answer true.  The     *)
(* structural guards of state.ts, which no caller can waive, are           *)
(* conjuncts.  A refused request changes nothing here; what becomes of its *)
(* rejection event is in TransitionAudit.                                  *)
(***************************************************************************)
EXTENDS Transitions, Integers, FiniteSets

CONSTANTS
  Tasks, Phases,      \* record ids of one workflow
  PhaseOf,            \* Task.phaseId
  Deps,               \* Task.dependencies
  MaxRows,            \* bound: unresolved blocker rows of one kind on one subject
  MaxReasons,         \* bound: (subject, kind) pairs with an unresolved row
  MaxRevision,        \* bound: Task.revision of each task
  MaxAttempts         \* bound: dispatches of each task

ASSUME PlanAssumption ==
  /\ PhaseOf \in [Tasks -> Phases]
  /\ Deps \in [Tasks -> SUBSET Tasks]
  /\ Tasks \cap Phases = {}

ASSUME BoundAssumption ==
  /\ MaxRows \in Nat
  /\ MaxReasons \in Nat
  /\ MaxRevision \in [Tasks -> Nat]
  /\ MaxAttempts \in [Tasks -> Nat]

VARIABLES
  status,     \* Task.status
  revision,   \* Task.revision
  checked,    \* tasks with at least one executable check
  blocker,    \* Task.blocker, as the set of kinds it joins
  attempts,   \* dispatches so far, the attempt rows of the task
  attemptRevision, \* Attempt.taskRevision of the latest one, 0 before any
  gateStatus, \* Phase.gateStatus
  rows,       \* unresolved blocker rows, counted per subject and kind
  receipts    \* gate_receipt rows of the task gate

attemptVars == <<attempts, attemptRevision>>
taskVars == <<status, revision, checked, blocker, attemptVars>>
vars == <<taskVars, gateStatus, rows, receipts>>

Subjects == Tasks \cup Phases
Kinds == {"user_pause", "user_stop", "budget_hard_stop",
          "approval_invalidated", "all_candidates_capped"}
\* Reasons the plan writes into Task.blocker without a row (no_checks stands
\* for weak_check too).
PlanReasons == {"no_checks", "output_budget"}
CAP_BLOCKER_KINDS == {"all_candidates_capped", "budget_hard_stop"}

Receipts == [task: Tasks, revision: Nat, attempt: Nat, pass: BOOLEAN, consumed: BOOLEAN]

\* phaseLifecycleState: the lifecycle state a stored gate status belongs to.
Lifecycle(g) ==
  CASE g \in GatingSubstages -> "gating"
    [] g \in PausedStatuses  -> "paused"
    [] g = "passed"          -> "done"
    [] OTHER                 -> g

\* The kinds with an unresolved row in the counts c of one subject
\* (unresolvedForSubject, and deriveBlockerField for a task).
Unresolved(c) == {k \in Kinds : c[k] > 0}

\* store.blockers.insert, and resolving every row of one kind.
Raise(c, k) == [c EXCEPT ![k] = @ + 1]
ResolveKind(c, k) == [c EXCEPT ![k] = 0]
NoRows == [k \in Kinds |-> 0]

\* Mutant: a cancelled dependency counts as finished.
DependenciesTerminal(t) == \A d \in Deps[t] : status[d] \in TaskTerminal
DependenciesDone(t) == \A d \in Deps[t] : status[d] = "done"

\* Mutant: readiness forgets the unresolved blockers.
StructuralGuardsNoBlockers(t, pre, c) ==
  /\ "checks_registered" \in pre => t \in checked
  /\ "readiness_valid" \in pre => DependenciesDone(t)
  /\ "blocker_present" \in pre => Unresolved(c) # {}

\* structuralGuards for a task whose unresolved rows are c: the verdicts
\* computed from the record, on the preconditions that have one.
StructuralGuards(t, pre, c) ==
  /\ "checks_registered" \in pre => t \in checked
  /\ "readiness_valid" \in pre => Unresolved(c) = {} /\ DependenciesDone(t)
  /\ "blocker_present" \in pre => Unresolved(c) # {}

\* evaluateTaskTransition and the checks of commitTaskEdge that precede the
\* write, for a task whose unresolved rows are c when the guards run.
TaskEdgeAllowed(t, e, who, c) ==
  /\ status[t] \in e.from
  /\ who \in e.who
  /\ StructuralGuards(t, e.pre, c)

\* The rows left on a task by an accepted edge (applyTaskBlockerSideEffects).
RowsAfter(e, c) == IF e.to = "cancelled" THEN NoRows ELSE c

\* The write of commitTaskEdge: the new status, and Task.blocker derived from
\* the rows.
CommitTask(t, e, c) ==
  /\ status' = [status EXCEPT ![t] = e.to]
  /\ blocker' = [blocker EXCEPT ![t] = Unresolved(RowsAfter(e, c))]

PhaseEdgeAllowed(p, e, who) ==
  /\ Lifecycle(gateStatus[p]) \in e.from
  /\ who \in e.who

\* Mutant: the lifecycle state is stored in place of its storage status.
GateStatusLifecycle(e, kinds) == e.to

\* phaseGateStatusFor: the stored status of an accepted edge, given the
\* phase's unresolved kinds.
GateStatusFor(e, kinds) ==
  CASE e = PhaseStaleEvidence -> "verifying"
    [] e.to = "paused" -> IF e = PhaseCap \/ kinds \cap CAP_BLOCKER_KINDS # {}
                            THEN "paused_cap" ELSE "paused_approval"
    [] e.to = "gating" -> "integrating"
    [] e.to = "done"   -> "passed"
    [] OTHER           -> e.to

CommitPhase(p, e, c) ==
  gateStatus' = [gateStatus EXCEPT ![p] = GateStatusFor(e, Unresolved(c))]

\* The bound on the blocker table, a conjunct of every action that inserts.
RowsBounded ==
  /\ \A s \in Subjects, k \in Kinds : rows'[s][k] <= MaxRows
  /\ Cardinality({x \in Subjects \X Kinds : rows'[x[1]][x[2]] > 0}) <= MaxReasons

-----------------------------------------------------------------------------
(* persistPlan has written the plan: every task is proposed at revision 1.
   A task that cannot become ready, or whose output budget does not fit,
   carries a plan-time reason in Task.blocker and no blocker row
   (initialStatusFor).                                                      *)
Init ==
  /\ status = [t \in Tasks |-> "proposed"]
  /\ revision = [t \in Tasks |-> 1]
  /\ checked \in SUBSET Tasks
  /\ blocker \in [Tasks -> {{}, {"no_checks"}, {"output_budget"}}]
  /\ \A t \in Tasks : blocker[t] = {"no_checks"} <=> t \notin checked
  /\ attempts = [t \in Tasks |-> 0]
  /\ attemptRevision = [t \in Tasks |-> 0]
  /\ gateStatus = [p \in Phases |-> "pending"]
  /\ rows = [s \in Subjects |-> NoRows]
  /\ receipts = {}

-----------------------------------------------------------------------------
(* Requests on one task *)

\* Edges the engine, a worker or the user requests with transitionTask and
\* nothing around it.
PlainTaskEdges == {TaskReady, TaskSubmit, TaskReview, TaskFailed, TaskChanges,
                   TaskReplan, TaskStaleEvidence, TaskCancel}

RequestTask(t, e, who) ==
  /\ TaskEdgeAllowed(t, e, who, rows[t])
  /\ CommitTask(t, e, rows[t])
  /\ rows' = [rows EXCEPT ![t] = RowsAfter(e, @)]
  /\ UNCHANGED <<revision, checked, attemptVars, gateStatus, receipts>>

\* claimTask: task-dispatch against the snapshot the selection read.  The
\* dispatch writes the attempt row.
ClaimTask(t) ==
  /\ attempts[t] < MaxAttempts[t]
  /\ TaskEdgeAllowed(t, TaskDispatch, "engine", rows[t])
  /\ CommitTask(t, TaskDispatch, rows[t])
  /\ attempts' = [attempts EXCEPT ![t] = @ + 1]
  /\ attemptRevision' = [attemptRevision EXCEPT ![t] = revision[t]]
  /\ UNCHANGED <<revision, checked, gateStatus, rows, receipts>>

-----------------------------------------------------------------------------
(* The task gate: runTaskGate mints a receipt, and task-done spends it.
   completeTask calls the two in turn; they are separate transactions.      *)

\* evaluateC0, the part of the gate that reads this state; C1-C3 are
\* environment.
ClaimsCompletion(t) ==
  /\ status[t] = "review"
  /\ blocker[t] = {}
  /\ Unresolved(rows[t]) = {}

RunTaskGate(t, pass) ==
  /\ attempts[t] > 0
  /\ pass => ClaimsCompletion(t)
  /\ receipts' = receipts \cup
       {[task |-> t, revision |-> revision[t], attempt |-> attempts[t],
         pass |-> pass, consumed |-> FALSE]}
  /\ UNCHANGED <<taskVars, gateStatus, rows>>

\* Mutant: a receipt that recorded a rejection is accepted.
ReceiptOfAnyVerdict(r, t) == r.task = t /\ ~r.consumed /\ r.revision = revision[t]

\* Mutant: a receipt of an earlier revision is accepted.
ReceiptOfAnyRevision(r, t) == r.task = t /\ r.pass /\ ~r.consumed

\* authoriseDone and beforeUpdate: the receipt passes, was not consumed, and
\* names this task at its current revision.
ReceiptAuthorises(r, t) ==
  /\ r.task = t
  /\ r.pass
  /\ ~r.consumed
  /\ r.revision = revision[t]

CompleteTask(t, r) ==
  /\ TaskEdgeAllowed(t, TaskDone, "engine", rows[t])
  /\ ReceiptAuthorises(r, t)
  /\ CommitTask(t, TaskDone, rows[t])
  /\ receipts' = (receipts \ {r}) \cup {[r EXCEPT !.consumed = TRUE]}
  /\ UNCHANGED <<revision, checked, attemptVars, gateStatus, rows>>

-----------------------------------------------------------------------------
(* Blockers (blockers.ts) *)

\* A terminal task only records the row; a blocked one accumulates it; any
\* other takes task-block in the same transaction.
RaiseTaskBlocker(t, k) ==
  /\ rows' = [rows EXCEPT ![t] = Raise(@, k)]
  /\ RowsBounded
  /\ status' = [status EXCEPT ![t] = IF @ \in TaskTerminal THEN @ ELSE "blocked"]
  /\ blocker' = [blocker EXCEPT ![t] = IF status[t] \in TaskTerminal THEN @
                                       ELSE Unresolved(rows'[t])]
  /\ UNCHANGED <<revision, checked, attemptVars, gateStatus, receipts>>

\* The row is inserted, and phase-pause inserts a second one for the same
\* reason unless the phase is terminal or paused.
RaisePhaseBlocker(p, k) ==
  LET moves == Lifecycle(gateStatus[p]) \notin PhaseTerminal \cup {"paused"}
      after == IF moves THEN Raise(Raise(rows[p], k), k) ELSE Raise(rows[p], k)
  IN  /\ rows' = [rows EXCEPT ![p] = after]
      /\ RowsBounded
      /\ IF moves THEN CommitPhase(p, PhasePause, after) ELSE UNCHANGED gateStatus
      /\ UNCHANGED <<taskVars, receipts>>

\* Resolving one row changes no status, and keeps a nonterminal task's
\* Task.blocker in step with the rows.
ResolveBlocker(s, k) ==
  /\ rows[s][k] > 0
  /\ rows' = [rows EXCEPT ![s][k] = @ - 1]
  /\ blocker' = [t \in Tasks |->
                   IF t = s /\ status[t] \notin TaskTerminal
                     THEN Unresolved(rows'[t]) ELSE blocker[t]]
  /\ UNCHANGED <<status, revision, checked, attemptVars, gateStatus, receipts>>

-----------------------------------------------------------------------------
(* Phases: the run (run.ts), the gate and the budget stop *)

TasksOf(p) == {t \in Tasks : PhaseOf[t] = p}

\* phaseStartValid; an empty phase has nothing to start.
PhaseStartValid(p) ==
  /\ TasksOf(p) # {}
  /\ \/ \A t \in TasksOf(p) : status[t] = "done"
     \/ \E t \in TasksOf(p) : status[t] \in {"proposed", "ready"}

PlainPhaseEdges == {PhaseGate, PhaseDone, PhaseFailed, PhaseGap, PhaseRecover,
                    PhaseStaleEvidence, PhaseCancel}

\* structuralGuards answers nothing about a phase: every precondition of its
\* row, all_tasks_done among them, is answered by the caller.
RequestPhase(p, e, who) ==
  /\ PhaseEdgeAllowed(p, e, who)
  /\ CommitPhase(p, e, rows[p])
  /\ UNCHANGED <<taskVars, rows, receipts>>

\* startRun, for one of its phases.
StartPhase(p, who) ==
  /\ PhaseEdgeAllowed(p, PhaseStart, who)
  /\ PhaseStartValid(p)
  /\ CommitPhase(p, PhaseStart, rows[p])
  /\ UNCHANGED <<taskVars, rows, receipts>>

\* stopRun, for one of its phases: user_stop, or budget_hard_stop from
\* applyBudgetStop.  Tasks are left alone.
StopPhase(p, who, k) ==
  /\ PhaseEdgeAllowed(p, PhasePause, who)
  /\ rows' = [rows EXCEPT ![p] = Raise(@, k)]
  /\ RowsBounded
  /\ CommitPhase(p, PhasePause, rows'[p])
  /\ UNCHANGED <<taskVars, receipts>>

\* resumeOnePhase of resumeAfterCapRaised: the budget rows are resolved
\* first; the phase is pending again only if no other row is unresolved and
\* the authorization is current.
ResumePhase(p, authorized) ==
  LET after == ResolveKind(rows[p], "budget_hard_stop")
      clear == Unresolved(after) = {} /\ authorized
  IN  /\ gateStatus[p] \in PausedStatuses
      /\ rows' = [rows EXCEPT ![p] = after]
      /\ IF clear THEN CommitPhase(p, PhaseResume, after) ELSE UNCHANGED gateStatus
      /\ UNCHANGED <<taskVars, receipts>>

\* advanceGatingSubstage: integrating, verifying, review.
AdvanceGatingSubstage(p) ==
  /\ gateStatus[p] \in {"integrating", "verifying"}
  /\ gateStatus' = [gateStatus EXCEPT ![p] =
                      IF @ = "integrating" THEN "verifying" ELSE "review"]
  /\ UNCHANGED <<taskVars, rows, receipts>>

-----------------------------------------------------------------------------
(* Cap pause (models/cap-pause.ts): two transitions in one transaction *)

CapPauseAllowed(t) ==
  /\ TaskEdgeAllowed(t, TaskCap, "engine", rows[t])
  /\ PhaseEdgeAllowed(PhaseOf[t], PhaseCap, "engine")

ApplyCapPause(t) ==
  LET p == PhaseOf[t]
      k == "all_candidates_capped"
  IN  /\ CapPauseAllowed(t)
      /\ rows' = [rows EXCEPT ![t] = Raise(@, k), ![p] = Raise(@, k)]
      /\ RowsBounded
      /\ CommitTask(t, TaskCap, rows'[t])
      /\ CommitPhase(p, PhaseCap, rows'[p])
      /\ UNCHANGED <<revision, checked, attemptVars, receipts>>

\* resumeIfCapCleared, once a watched route is eligible: the rows of the cap
\* are resolved first, then the guards of task-cap-resume and
\* phase-cap-resume run; cap_resume_valid is answered with true.
CapResumeAllowed(t) ==
  /\ TaskEdgeAllowed(t, TaskCapResume, "engine",
                     ResolveKind(rows[t], "all_candidates_capped"))
  /\ PhaseEdgeAllowed(PhaseOf[t], PhaseCapResume, "engine")

ResumeIfCapCleared(t) ==
  LET p == PhaseOf[t]
      k == "all_candidates_capped"
  IN  /\ CapResumeAllowed(t)
      /\ rows' = [rows EXCEPT ![t] = ResolveKind(@, k), ![p] = ResolveKind(@, k)]
      /\ CommitTask(t, TaskCapResume, rows'[t])
      /\ CommitPhase(p, PhaseCapResume, rows'[p])
      /\ UNCHANGED <<revision, checked, attemptVars, receipts>>

-----------------------------------------------------------------------------
(* Approval invalidation (invalidation.ts) *)

\* blockAffectedTasks and pauseAffectedPhases, for the nonterminal tasks ts
\* and phases ps: each gets a row; a task already blocked, or a phase already
\* paused, accumulates the row and nothing else.
Invalidate(ts, ps) ==
  LET k == "approval_invalidated" IN
  /\ rows' = [s \in Subjects |-> IF s \in ts \cup ps THEN Raise(rows[s], k) ELSE rows[s]]
  /\ RowsBounded
  /\ status' = [t \in Tasks |-> IF t \in ts THEN "blocked" ELSE status[t]]
  /\ blocker' = [t \in Tasks |-> IF t \in ts /\ status[t] # "blocked"
                                   THEN Unresolved(rows'[t]) ELSE blocker[t]]
  /\ gateStatus' = [p \in Phases |->
                      IF p \in ps /\ Lifecycle(gateStatus[p]) # "paused"
                        THEN GateStatusFor(PhaseInvalidate, Unresolved(rows'[p]))
                        ELSE gateStatus[p]]

\* Mutant: only done is taken for terminal.
UnfinishedTasks == {t \in Tasks : status[t] # "done"}

NonterminalTasks == {t \in Tasks : status[t] \notin TaskTerminal}
NonterminalPhases == {p \in Phases : Lifecycle(gateStatus[p]) \notin PhaseTerminal}

\* applyInvalidation for the whole workflow (a session reconciled, a mode or
\* policy change, a revoked or expired approval).  The approval class decides
\* whether phases stop.  With no task left to block, every phase is affected.
ApplyInvalidation(stop) ==
  LET affected == {PhaseOf[t] : t \in NonterminalTasks}
      ps == IF affected = {} THEN NonterminalPhases ELSE NonterminalPhases \cap affected
  IN  /\ Invalidate(NonterminalTasks, IF stop THEN ps ELSE {})
      /\ UNCHANGED <<revision, checked, attemptVars, receipts>>

\* Mutant: the revision is bumped and its invalidation is not applied.
ReviseWithoutInvalidation(t, defChanged, hasCheck) ==
  /\ defChanged
  /\ revision[t] < MaxRevision[t]
  /\ revision' = [revision EXCEPT ![t] = @ + 1]
  /\ checked' = IF hasCheck THEN checked \cup {t} ELSE checked \ {t}
  /\ UNCHANGED <<status, blocker, attemptVars, gateStatus, rows, receipts>>

\* reviseTask: a changed definition of done bumps the revision; a change of
\* ownership alone does not.  A terminal task is revised and not blocked.
ReviseTask(t, defChanged, hasCheck) ==
  LET ts == {t} \cap NonterminalTasks
  IN  /\ IF defChanged
           THEN /\ revision[t] < MaxRevision[t]
                /\ revision' = [revision EXCEPT ![t] = @ + 1]
                /\ checked' = IF hasCheck THEN checked \cup {t} ELSE checked \ {t}
           ELSE UNCHANGED <<revision, checked>>
      /\ Invalidate(ts, NonterminalPhases \cap {PhaseOf[u] : u \in ts})
      /\ UNCHANGED <<attemptVars, receipts>>

-----------------------------------------------------------------------------
TaskNext(t) ==
  \/ \E e \in PlainTaskEdges, who \in Actors : RequestTask(t, e, who)
  \/ ClaimTask(t)
  \/ \E pass \in BOOLEAN : RunTaskGate(t, pass)
  \/ \E r \in receipts : CompleteTask(t, r)
  \/ RaiseTaskBlocker(t, "user_pause")
  \/ ApplyCapPause(t)
  \/ ResumeIfCapCleared(t)
  \/ \E defChanged, hasCheck \in BOOLEAN : ReviseTask(t, defChanged, hasCheck)

PhaseNext(p) ==
  \/ \E e \in PlainPhaseEdges, who \in Actors : RequestPhase(p, e, who)
  \/ \E who \in Actors : StartPhase(p, who)
  \/ \E who \in Actors, k \in {"user_stop", "budget_hard_stop"} : StopPhase(p, who, k)
  \/ RaisePhaseBlocker(p, "user_pause")
  \/ \E authorized \in BOOLEAN : ResumePhase(p, authorized)
  \/ AdvanceGatingSubstage(p)

Next ==
  \/ \E t \in Tasks : TaskNext(t)
  \/ \E p \in Phases : PhaseNext(p)
  \/ \E s \in Subjects, k \in Kinds : ResolveBlocker(s, k)
  \/ \E stop \in BOOLEAN : ApplyInvalidation(stop)

Spec == Init /\ [][Next]_vars
-----------------------------------------------------------------------------
(* Properties *)

\* Every record of the store keeps a status, revision, reason and gate status
\* its table admits (types of storage/records.ts), through every operation.
TypeOK ==
  /\ status \in [Tasks -> TaskStates]
  /\ revision \in [Tasks -> Nat]
  /\ checked \in SUBSET Tasks
  /\ blocker \in [Tasks -> SUBSET (Kinds \cup PlanReasons)]
  /\ attempts \in [Tasks -> Nat]
  /\ attemptRevision \in [Tasks -> Nat]
  /\ gateStatus \in [Phases -> GateStatuses]
  /\ rows \in [Subjects -> [Kinds -> Nat]]
  /\ receipts \in SUBSET Receipts

Active == {"ready", "running", "verifying", "review"}
InProgress == Active \ {"ready"}

\* A task that is queued, running or under verification is held by nothing:
\* no unresolved blocker row, no reason left in Task.blocker, and an
\* executable check registered.  Readiness is checked
\* only on the edges into ready and running (structuralGuards), so every
\* operation that raises a row or removes the checks must also take the task
\* out of these states in the same transaction.
ActiveTaskUnheld ==
  \A t \in Tasks : status[t] \in Active =>
    /\ Unresolved(rows[t]) = {}
    /\ blocker[t] = {}
    /\ t \in checked

\* Work in progress is always work on the task's current definition: the
\* attempt a running, verifying or reviewed task carries was dispatched at
\* the revision the task has now (reviseTask blocks the task it revises).
WorkAtCurrentRevision ==
  \A t \in Tasks : status[t] \in InProgress => attemptRevision[t] = revision[t]

\* A task is done exactly when one receipt of its own was spent on it, once:
\* the gate passed, at the very revision the attempt that completed the task
\* was dispatched for, whatever was revised, blocked, dispatched again or
\* gated between the verdict and its use.  No later operation takes the task
\* out of done or spends a second receipt (authoriseDone).
DoneExactlyByReceipt ==
  \A t \in Tasks :
    LET spent == {r \in receipts : r.task = t /\ r.consumed} IN
    /\ status[t] = "done" <=> spent # {}
    /\ \A r \in spent : r.pass /\ r.revision = attemptRevision[t]
    /\ \A r, q \in spent : r = q

\* Completion respects the dependency order: a done task, and every task
\* being worked on, rests on done tasks only.
DoneOverDoneDependencies ==
  \A t \in Tasks : status[t] \in {"done"} \cup Active =>
    \A d \in Deps[t] : status[d] = "done"

\* Whatever the operation, a task or a phase moves only along a row of its
\* transition table, also inside the compound transactions; so nothing
\* leaves done or cancelled.
MovesAreListed ==
  [][/\ \A t \in Tasks : status'[t] # status[t] =>
          \E e \in TASK_TRANSITIONS : status[t] \in e.from /\ status'[t] = e.to
     /\ \A p \in Phases : Lifecycle(gateStatus'[p]) # Lifecycle(gateStatus[p]) =>
          \E e \in PHASE_TRANSITIONS :
            /\ Lifecycle(gateStatus[p]) \in e.from
            /\ Lifecycle(gateStatus'[p]) = e.to]_vars

-----------------------------------------------------------------------------
(* What the documentation says and the code does not do *)

\* cap-pause.ts and transitions.ts (cap_resume_valid): a cap clearing resumes
\* a phase only when no other reason to stop it is unresolved.
RunningPhaseUnstopped ==
  \A p \in Phases : gateStatus[p] = "running" => Unresolved(rows[p]) = {}

\* state.ts, on allPhaseTasksDone: a phase with a failed, blocked or cancelled
\* task never passes all_tasks_done, whatever an evaluator claims.  Nothing
\* adds that guard to the table a caller supplies.
GatedPhaseComplete ==
  \A p \in Phases : Lifecycle(gateStatus[p]) \in {"gating", "done"} =>
    \A t \in TasksOf(p) : status[t] = "done"
=============================================================================
