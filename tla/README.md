# A TLA+ verification of KorWF-Pi

KorWF-Pi is a workflow engine that runs inside the Pi coding agent. It turns a goal into
a plan of phases and tasks, dispatches workers on the tasks, gates what they deliver with
checks, reviews and approvals, and keeps all of it in one SQLite store that a single
process may write. This directory models its core: the task and phase state machine,
plans and their revision, the locks that make one process the writer, the scheduler, the
usage ledger, worker processes and their recovery, the task gate with its evidence, the
choice of models, the resilience layer around the Jev evaluator, approvals, and
checkpoints with rollback. It also models the batch orchestrator that builds the
repository from its own issue tracker.

`PROJECT.json` names, for every definition, the source lines it stands for. Paths below
are relative to `src/src/`, except `docs/` and `scripts/`, which are relative to `src/`. A
range of lines begins at the comment that belongs to the declaration; the tuple of a
module's state stands for the record types and tables it abstracts.

## 1. Inventory of the system

| Part | State it keeps | Operations | Talks to | What is hard | What makes it correct |
|---|---|---|---|---|---|
| State machine (`workflow/transitions.ts`, `state.ts`, `blockers.ts`) | `Task.status`, `Phase.gateStatus`, blocker rows, transition events | `transitionTask`, `transitionPhase`, raise and resolve blockers | everything that moves a task | compound transactions beside the single-edge path; refusals inside a caller's transaction | only listed edges; an active task is held by nothing; order of dependencies |
| Run control (`workflow/run.ts`, `budget-stops.ts`, `models/cap-pause.ts`) | phase status, stop reasons, governor latch | start, stop, budget stop, cap pause and resume | state machine, ledger | several reasons stop the same phase | a phase that runs has no unresolved reason to stand still |
| Invalidation (`workflow/invalidation.ts`, `reconcile.ts`) | task revisions, approval rows | `reviseTask`, `applyInvalidation`, `reconcileSession` | state machine, approvals | work in flight at an older revision | work in progress is at the current revision |
| Task gate and receipts (`verification/*`, `storage/gate-receipts.ts`) | evidence, reviews, receipts | run checks, evaluate, mint and consume a receipt | state machine, approvals | verdict and completion are separate transactions | a task is done exactly by one passing receipt, of the revision that was worked on |
| Locks (`storage/lock.ts`, `workflow/coordinator.ts`) | one file, one lease flag per process | acquire, heartbeat, release, take over | file system | races and crashes between file-system calls | one holder; it is named; nobody waits for a dead one |
| Scheduler (`workflow/scheduler.ts`, `graph.ts`) | in-flight map, reservations, the claimed tasks | pass, settle, cancel, drain | state machine, ledger, workers | tasks move while the loop awaits | the ceiling; disjoint workers; no leaked reservation; cancellation ends |
| Ledger (`telemetry/ledger.ts`, `storage/reconcile.ts`) | append-only rows, caps | reserve, settle, release, abandon | scheduler, Jev, models | crash with calls in flight; estimates that are exceeded | real usage stays within the caps |
| Jev (`jev/*`, `decisions/ask.ts`) | breaker, pool, calls | evaluate, retry, probe, `askAll` | HTTP server | two retry layers, a deadline, cancellation, late replies | it always ends; the host is never locked out; one result per group |
| Approvals (`workflow/approvals.ts`, `storage/approval-requests.ts`, `extension/ui/approval-prompt.ts`) | request and approval rows | request, prompt, grant, deny, sweep, revoke | plan store, rollback, task gate | a prompt is open while the plan moves on | one grant per question, none to an overtaken question |
| Plan store, scope change (`workflow/plan-store.ts`, `scope-change.ts`) | plan, plan revision, tasks | `persistPlan`, `revisePlan`, `applyScopeChange` | approvals, state machine | a change is applied long after it was computed | every change spends a user's grant of its own |
| Checkpoints and rollback (`workflow/checkpoint.ts`, `git/checkpoint.ts`) | refs, proposals, action log | capture, propose, attach, apply | git, approvals | the restore and its record are separate steps | only granted restores; nothing is lost; nothing is repeated |
| Workers (`workers/*`) | processes, attempt markers, worktrees | spawn, limit, pause, cancel, settle, reconcile, hand off | scheduler, ledger, git | crash at any point; kill escalation; two callers cancel | rows tell the truth; a cancelled tree dies; an overdue worker is stopped |
| Recovery (`workflow/recovery.ts`, `failure*.ts`, `stall.ts`, `attempt-*.ts`) | recovery log, attempt and harness-retry budgets | classify, choose a response, settle a turn | workers, state machine | retries of what has side effects; receipts lost in a crash | every budget is exhausted in the end; no effect is repeated |
| Models (`models/*`) | route availability, pins, outcomes | select, fall back, pause, resume | run control, Jev | a cap in the middle of a task; the table moves while a ranking is awaited | pins and policy hold at the moment of a switch; fallback and pauses end |
| Planner and coupling (`workflow/planner.ts`, `plan-schema.ts`, `graph.ts`, `weak-checks.ts`, `coupling.ts`) | the plan in progress, the coupling cache | ask, validate, retry, store; fill the cache, select a batch | plan store, scheduler, Jev | rules over whole documents; answers that arrive after a revision | an accepted plan can be stored and run; a batch is independent |
| Batch orchestrator (`scripts/orchestrate/run.mjs`) | `state.json`, labels and pull requests on the tracker, detached workers | start, dispatch, gate, merge review, escalate, park | tracker, Jev, git | death between any two steps; an owner who labels at any time | attempts are bounded over restarts; what is merged was passed since its last worker and tested at the merged head; a session ends |
| Decisions (`decisions/*`) | cache, registry | ask, compose, cache | Jev | stale cache entries | an answer belongs to its question version |
| Commands and UI (`extension/*`) | none of its own | run, pause, resume, cancel, plan, approvals | all of the above | state read before a prompt and used after it | what was confirmed is what is done |
| Security, context, config, telemetry, boards, intake | none, or append-only | classify, rank, load, parse | | texts, not state | outside the reach of model checking |

Everything interacts through the store. `store.write` is a `BEGIN IMMEDIATE` transaction
of the only process that holds the lock, and its body is synchronous, so one action of a
model is one outermost transaction; where an operation is made of several transactions,
or of effects outside the store, it is several actions. The asynchronous boundaries are
the ones modelled as interleavings: awaits of the scheduler, of a prompt and of a Jev
call, file-system calls of two processes, git, and process death.

## 2. Plan

Built, in this order:

1. `Transitions`: the tables. `WorkflowState`: the store and every operation on tasks and
   phases, with `TransitionAudit` (rejection events) and `WorkflowStateProofs` on top.
2. `FileLock`, `FileLockProofs`: store lock and coordinator lease, and `Lock`, the
   abstract lock that `FileLock` is shown to implement.
3. `Scheduler` (uses `Transitions`), `Ledger`, `Jev`.
4. `ApprovalClasses`, `Approvals` on it, and `Rollback`, which composes with both.
5. `CheckRuns` and `GapEvaluation`, composed by `TaskGate`.
6. `FailurePolicy`, and on it `AttemptLoop` (budgets and recovery) and `Workers`
   (processes, crashes and the judgement at startup).
7. `ModelRoutes`; `Orchestrator`.
8. `PlanSchema` and `Coupling`, composed by `Planning`.

9. A module of proofs for each of `WorkflowState`, `FileLock`, `Scheduler`, `AttemptLoop`,
   `Workers`, `Rollback` (with `Approvals`), `TaskGate` and `Orchestrator`.

Left, most important first:

- theorems: `OverrunBounded` (its invariant bounds `elapsed + wait` of a sleeping call),
  and the two action properties of `ModelRoutes`;
- `AcceptedPlanRuns`, `ChecksJudged` and `BatchIndependent` from what the recursive
  algorithms promise, stated as assumptions on their results;
- abstract specifications of a budget that is debited atomically (for `Ledger`) and of a
  rollback as one step (for `Rollback` without crashes);
- `TaskGate` and `Planning` composed with `WorkflowState`, which now takes the verdict of
  the gate as environment and proves its invariants between two plan revisions;
- `RunCommand`: what a command reads before a prompt and uses after it; the decision
  cache.

## 3. Modules and code

**Transitions**: `TASK_TRANSITIONS` and `PHASE_TRANSITIONS` row by row: origin states,
target, allowed actors, preconditions.

**WorkflowState**: `status`, `revision`, `checked` and `blocker` are columns of the task
record, `gateStatus` of the phase, `rows` counts unresolved blocker rows per subject and
kind, `receipts` is `gate_receipt`, `attempts` and `attemptRevision` the attempt rows.
`RequestTask` and `RequestPhase` are `transitionTask` and `transitionPhase`; the other
actions are the compound transactions: `ClaimTask` (scheduler), `RunTaskGate`,
`CompleteTask` (`authoriseDone`), `ApplyCapPause`, `ResumeIfCapCleared`, `ReviseTask`,
`ApplyInvalidation`, `StartPhase`, `StopPhase`, `ResumePhase`, `RaiseTaskBlocker`,
`ResolveBlocker`. Guards that callers supply (`guards` of the request) are environment;
guards `state.ts` always evaluates itself are conjuncts.

**TransitionAudit**: what becomes of the event of a refused request.

**FileLock**: one action per file-system call of `acquireLock`, of the heartbeat and of
`release`; `lease` selects the coordinator lease, which inspects the holder first. The
calls of all processes interleave freely, and that is where the code fails: a takeover
removes by path what it has read as stale some calls ago. The history variable `thefts`
counts the takeovers that removed a file somebody was using or writing; everything else
the module says is said relative to it. **Lock** is what the lock promises, with one
holder, a set of askers and no file, unless it is `broken`. Under the mapping of
`Promise`, a process is the holder from the end of its acquisition until it has removed
the file, or dies, the askers are the processes within an acquisition, and the lock is
broken from the first theft on: the file-system calls are stutters, the call that ends an
acquisition is `Acquire` or `Refuse`, and a refusal must have found somebody else's lock.
`Safe` is the promise without its liveness.

**Scheduler**: `Pass` is one synchronous turn of `runScheduler` (plan, reserve, claim,
start); between two turns `Settle`, `MoveTask` and `Abort` happen, also while `WorkersAsked`
is awaited or after it has failed. Ownership overlap and
the coupling signal are relations given as constants.

**Ledger**: a reservation is described by its last row; `cost` is what the provider
really counted. All summed quantities behave alike and are one amount. `Restart` is
`reconcileOpenReservations`; `HookReserve`, `HookRefuse` and `ResumeAfterCapRaised` are
the governor of `budget-stops.ts`.

**Jev**: `Take` to `PoolResolves` are the pool of `askAll`; `Attempt`, `Retry`,
`WakeBackoff`, `DeadlineFires` are `withRetry` and `withDeadline`; `Reply` and `WakeHttp`
are the HTTP transport with its own retries; `BeforeCall`, `OnSuccess`, `OnFailure`,
`OnCancelled`, `Trip` are the breaker. `Tick` waits for everything that is due, which is
what an event loop does.

**Approvals**: `requests` and `approvals` are the two tables, `dialogs` the open prompts
with the row and the clock reading they were opened with. `Answer` is
`resolveApprovalInteractively` after its await. `ReviseTask`, `RevisePlan` and
`ApplyScopeChange` move the revisions that pin a grant. A definition is a set of owned
paths and one value for everything `definitionOfDoneChanged` compares. The digest of a
proposal is what `proposeScopeChange` hashes, which is less than the candidate: of a
redefined task it says only that it was redefined. `RequestAct` classifies an act and
does what its disposition says: it is performed at once or becomes a question.
`outrun` and `performed` are history variables.

**ApprovalClasses**: `classifyAct` over the facts computed about an act, the default
table, the rules `validateApprovalClasses` holds a configured table to, and
`resolveDisposition` with its signals.

**Rollback** extends `Approvals`. A tree is one content value, so the overwriting of a
tree is exact and its paths are not told apart; contents are numbered by the edit that
wrote them. `ApplyRefused` and `CaptureFails` are the early returns of `applyRollback`,
`ApplyCaptures` goes as far as the capture of the tree, `ApplyRestores` is the overwriting
by a later git process, `RestoreFails` its failure, `ResolveApplied` and
`RecordCompletedAction` are the two transactions afterwards; `Crash` and `Edit` may come
between any two of them. A restore that fails half way counts as one that replaced
everything. That the path of a worktree comes to belong to the main tree while git works
on it is not modelled. `restores` and `overwritten` are history variables.

**TaskGate** composes two modules. **CheckRuns** has the calls of registered checks
(`CallCheck`, `BeginRun`, `EndCommand`, `RecordResult` are the synchronous parts of
`runCheck` with its reruns), while `MoveHead` moves the worktree underneath, to new
commits and to earlier ones, and `InvalidateStaleEvidence` sends the task back to
verifying. The rows of one call are stored in order or under one `createdAt` stamp, and
then the gate sees them in any order. **GapEvaluation** has the thresholds, the finding
of a criterion and the decision row as operators. `TaskGate` adds reviews (`BeginReview`
reads commit and revision, `EndReview` pins the record to them after the await) with their
rechecks and dispositions, approvals and their lapse, `BeginEvaluation` and
`FinishEvaluation` around the awaited questions, and `CompleteTask`, the gate as
`runTaskGate` calls it over what is stored at that moment, without the review records.
The state hash of a gap decision is its caller's: it may be from before the questions or
from after them. The run has a command check; human checks are in the module and their
evidence is recorded like that of any command's output. Edits without a commit are left
out, because the code pins evidence by commit. Whether a reviewer is independent is
decided by the chain of hand-offs. `ran`, `tied` and `judged` are history.

**FailurePolicy**: `classifyTurn`, the attempt budget, the rules that name a failure, the
stall detector and the recovery ladder, as operators. **AttemptLoop**: the two loops that
try again. `Turn` is `settleTurn`; `FailAttempt`, `Reclassify` and `RecoverFromFailure`
are `recovery.ts` around a step whose effect may land, partly or wholly, and whose receipt
may be lost.

**Workers**: one `WorkerRun` with its process, descendants, marker file, reservation and
attempt row. `Climb` and `SweepSnapshot` are the rungs of the cancellation ladder, one
ladder per caller (the limit and the user), because both may be climbing. `Finish` and
`SettleRow` are two steps; `Crash` takes the coordinator or the machine;
`OpenStoreAndReconcile` and `FailInterruptedTask` are the startup.

**ModelRoutes**: the shared availability table, and one attempt that is selected, capped,
switched, paused and resumed. A selection takes two actions, `BeginAttempt` or
`ChooseFallback` and `VerdictsArrive`, since the ranking is awaited; caps, budgets,
probes and refreshes happen in between. A provider's error is what `cap-detect.ts` can
see in it. A resumed task is ready again: its next attempt is selected anew. Neither
`chooseFallback` nor `resumeIfCapCleared` has a caller in `src/`; the model calls them when
they apply.

**Orchestrator**: `file` is `state.json` and `mem` its copy in the process; `Pass` fetches,
selects and begins a batch, `Advance` is one await of one dispatch, of its gate or of its
merge review, any of which may throw: what it had recorded stays. A merge review may
rebase the branch and push it before it runs the checks. `Crash` leaves file, tracker and
detached workers behind. `judged` and what `review` holds of `settled`, `verdict` and
`merged` are history.

**Planning** composes two modules. **PlanSchema**: the rules of a plan document, the cycle
search, checks that can fail, readiness, and the size of artifacts. **Coupling**: the
intersection of glob patterns, conflicts, the cache key and batch selection. `Planning`
adds the planner's retry loop, `StorePlan` (`persistPlan` and `revisePlan` on the task
rows) and `fillCouplingCache`, whose questions are awaited while the plan is revised.

## 4. Runs

| Run | Instance | Shows |
|---|---|---|
| `Workflow` | two tasks of one phase, the second depending on the first; one row per kind and subject, at most two unresolved reasons, the second task revised once and dispatched twice | `TypeOK`, `ActiveTaskUnheld`, `WorkAtCurrentRevision`, `DoneOverDoneDependencies`, `DoneExactlyByReceipt`, `MovesAreListed` |
| `FileLock` | three processes, two may die, two polls, lease or lock | `SingleHolder`, `HolderNamed`, and `ImplementsLock`: `FileLock` implements `Lock`, so until a file in use is removed nobody is refused a free lock, and every request ends in any case |
| `Scheduler` | three tasks, one dependency, one shared path, ceilings 1 and 2, two coupling relations, one task that owns nothing, calls of `cancelWorker` that resolve, reject or hang, two dispatches of a task | `DisjointWorkers`, `ReservationsMatchWorkers`, `CancelledRunEnds` |
| `LedgerCaps` | three reservations, two tasks of one phase, estimates 1 and 2, calls that use up to 2, caps 2 and 3 | `SpendWithinCap` |
| `Jev` | two workers, three groups, two retries per layer, threshold 2, one probe, a deadline of four ticks that the second retry can still meet | `OverrunBounded`, `AskAllEnds`, `BreakerRecovers` |
| `Rollback` | four kinds of behaviour: a completion question; a scope change; two rollbacks with a crash and either a plan revision or an edit; one act of every kind under every accepted table that loosens one entry for its mode | `GrantedOnceAsAsked`, `ChangesAuthorisedOnce`, `RestoresAuthorised`, `UnaskedActsHarmless`, `OverwrittenPreserved`, `RestoreStepsSafe` |
| `TaskGate` | one check and one criterion, four settings: Jev and an approval over two task revisions; two calls for two requirements under Jev; a call with a rerun and another; a call and a model review by one of two reviewers, one of whom inherits from the author | `ChecksCarryGate`, `CriteriaEvidenced`, `ReviewCarriesGate` |
| `Attempts` | the shipped budgets, a failure of every category, a worker that repeats itself, every kind of step | `EffectAtMostOnce`, `RetriesBounded` |
| `Workers` | one run with two descendants, a limit of two ticks, two crashes | `RowsTellTheTruth`, `CancelLeavesNoOrphan`, `OverdueWorkerStops` |
| `ModelRoutes` | two models of two providers, seven settings, three minutes, two caps, one refresh | `SwitchesWithinPolicy`, `CappedRouteLeft`, `PauseEnds` |
| `Orchestrator` | two issues, two models, four settings, one or two sessions of three runs, one act of the owner in two of the settings | `WorkersBounded`, `MergedAsVerified`, `SessionEnds` |
| `Planning` | some seven hundred documents, then one of six revisions, then one that has dropped tasks back; two answers, two fillings of the cache | `AcceptedPlanRuns`, `ChecksJudged`, `BatchIndependent` |

Properties that combine several named parts (`ChecksCarryGate`, `GrantedOnceAsAsked`,
`RestoreStepsSafe`, `SwitchesWithinPolicy`, `RetriesBounded`, `BatchIndependent` and
others) define each part under its own name above them.

Why the bounds are enough. *Workflow*: every operation, every blocker kind and every pair
of reasons occurs, a dependency occurs in both roles, and a revised task is dispatched
again; one phase suffices because no operation reads two phases together except
invalidation, which treats them alike. *FileLock*: the third process is needed to find
the takeover race, and a fourth adds no file-system call. *Scheduler*: two tasks compete
for a path, one waits for another, and a slot is missing or not. *Ledger*: two
reservations fill a cap and the third is refused; overruns need an amount of 2. *Jev*:
one call outlives a period of the breaker while another probes. *Rollback*: two prompts
race for one question while the plan moves twice; two questions are compared by key only,
so a second one multiplies states without new cases; every lifetime is one tick, so one
tick tells an expired question from one that stands; two proposals for one checkpoint and
one crash are what a replay needs, and whether a restore may happen does not depend on
what the trees hold, so revisions and edits come in different behaviours; every rule of a table is about one entry, so tables
that loosen one entry reach every rule. *TaskGate*: two calls, two commits and two
revisions are one to be current and one to be overtaken, and a commit is revisited; the
settings separate what no condition of the gate relates. *Attempts*: nothing is bounded
but by the policy itself. *Workers*: two runs share only the coordinator's crash and the
ledger; the second crash falls into the reconciliation after the first. *ModelRoutes*:
with two models one is left or taken, and two caps take both; time covers a dwell and a
reset. *Orchestrator*: two issues are dependent or side by side, and the second session
finds whatever the first left. *Planning*: all graphs of three tasks contain every shape
of cycle the search treats differently; patterns are compared with all files of up to
three names of up to two characters, which every pattern used can tell apart; command
lines of three segments join every two operators; a task is dropped by the second revision
and can be back in the third.

Deadlock is checked for `FileLock` and `Jev`; the others may really stop (everything is
done, or a bound is reached).

Fairness. `FileLock`: weak fairness of `Step`, because the calls of an acquisition or a
heartbeat are synchronous and follow one another, and strong fairness of a creation that
finds the path free: without it a process is overtaken for ever by others that acquire
and die between its removal and its creation, a livelock that needs a new dead owner each
time; none on starting, beating, releasing or crashing. `Scheduler`: weak fairness of the loop (the event loop runs what is ready)
and of settling, which the wall-clock limit of every worker and the kill escalation
guarantee (`OverdueWorkerStops`); none on users. `Jev`: strong fairness of `Tick` (real
time passes although other events disable it for a moment), weak fairness of due timers
and ready promises; none on the server, which may never answer. `Workers`: weak fairness
of the clock, of armed timers, of the delivery of an exit and of the awaits of a ladder;
none on the worker, which may run for ever, ignore SIGTERM or spawn. `ModelRoutes`: the
clock, the answer of a ranking (it has a deadline), the decision after a cap, and the look
at a paused attempt's routes; none on providers. `Orchestrator`: a running process goes
on, and a worker ends or is killed by its timer; none on crashes, restarts or the owner.

### Counterexample configurations

Twenty further properties state what a text of the repository says, and TLC finds a
behaviour of the code that contradicts each. They are run by hand. Four have a
configuration of their own, e.g. `tlc -config StoreLockRace.cfg FileLock`. The others
need the constants of a run of the table above: copy that configuration, put
`INVARIANT <property>` (`PROPERTY` for the formulas that are temporal or speak of a step)
in place of its properties, and check the module named here.

| Configuration, module | Property | The text | What the code does |
|---|---|---|---|
| `StoreLockRace.cfg`, `FileLock` | `ExactlyOneWinner` | "two processes racing to take over the same dead owner still produce exactly one winner" (`workflow/coordinator.ts:174`) | the takeover removes the path unconditionally after it read a stale holder (`storage/lock.ts:217`), so the second of two removes the file the first has created, and both hold the lock |
| `SchedulerDuplicate.cfg`, `MCScheduler` | `NoDuplicateWorker` | "This is what prevents a duplicate dispatch" (`workflow/scheduler.ts:304`) | a pass does not leave out tasks in flight: one that owns nothing, and that the signal calls independent of itself, is claimed again when it is blocked and readied under its worker |
| constants of `Scheduler.cfg`, `MCScheduler` (a `PROPERTY`) | `NoHalfCancelledRun` | "leaving that behind would be the half-cancelled run the acceptance criterion rules out" (`workflow/scheduler.ts:636`) | the drain awaits all calls of `cancelWorker` (`:560`): when one rejects, so does the run, and when one hangs the run does; what was dispatched stays running |
| constants of `Workflow.cfg`, `MCWorkflowState` | `RunningPhaseUnstopped` | "A cap clearing cannot clear another unresolved reason" (`docs/state-machine.md:233`) | `resumeIfCapCleared` answers `cap_resume_valid` with true (`models/cap-pause.ts:109`): a phase the user or a budget stopped meanwhile runs again |
| constants of `Workflow.cfg`, `MCWorkflowState` | `GatedPhaseComplete` | "a phase with a failed, blocked or cancelled task must never pass it, whatever an evaluator claims" (`workflow/state.ts:1128`) | `structuralGuards` (`:221`) has no verdict for a phase, and `allPhaseTasksDone` reaches the gate only if a caller puts it into its guards; no caller in `src/` does |
| constants of `LedgerCaps.cfg`, `MCLedger` | `ReleasedUsedNothing` | "the call never ran, so it used nothing" (`telemetry/ledger.ts:478`) | a call that throws is released whatever it has used (`:511`), and so is a dispatch whose usage the caller does not know (`workflow/budget-stops.ts:247`) |
| `RejectionEvents.cfg`, `MCTransitionAudit` | `RejectionsAudited` | "Every accepted and every rejected request appends a `transition_event` row" (`workflow/state.ts:30`) | a refusal inside a caller's transaction is rolled back with it |
| constants of `Rollback.cfg`, `MCRollback` | `EverythingPreserved` | "Everything it removes is in the preservation checkpoint, which is why this is safe" (`git/checkpoint.ts:334`) | capture and overwriting are separate git processes (`:351`, `:369`): what is written into the tree between them is overwritten and held nowhere |
| constants of `Rollback.cfg`, `MCRollback` | `ManifestChangesAsked` | "an act that satisfies several rules lands in the most restrictive class" (`workflow/approval-classes.ts:368`) | the rules for executions ask first whether the command is a registered check: one that changes the dependency manifest runs unasked where `add_dependency` is queued |
| `RollbackReplay.cfg`, `MCRollback` | `NeverReplayed` | "A rollback is never replayed." (`workflow/checkpoint.ts:31`) | the tree is restored before anything is recorded (`:605`), so after a crash in between the same checkpoint is restored again |
| constants of `TaskGate.cfg`, `MCTaskGate` | `FlakyNeverPasses` | "The reconciled row is appended last, so the gate's 'latest result wins' rule lands on `flaky`" (`verification/flaky.ts:141`) | rows that the caller stores under one `createdAt` are ranked by their ids (`verification/task-gate.ts:273`), and the passing one may be the last |
| constants of `TaskGate.cfg`, `MCTaskGate` | `JudgedOnGatedEvidence` | "an evaluation cannot claim freshness the gate would not agree with" (`verification/evaluate.ts:657`) | `recordGateDecision` stores the hash it is given: one computed after the questions fits rows that nobody was asked about |
| `TaskGate.cfg` with `Limits(3, 1, 1, 2, {"ac"})` in the last setting, `MCTaskGate` | `BlockersHoldGate` | "the review *records* say whether a blocking finding is still open. Both are consulted, and either can refuse" (`verification/task-gate.ts:843`) | `runTaskGate` never passes them (`:1114`), so a clean review of one reviewer carries the gate beside the open blocker of another |
| constants of `Workers.cfg`, `MCWorkers` | `LiveWorkerNeverClosed` | "A live worker is never closed by reconciliation." (`workers/reconcile.ts:191`) | the marker is written after the process was spawned (`workers/lifecycle.ts:276`), and a missing marker is read as not alive (`reconcile.ts:165`) |
| constants of `ModelRoutes.cfg`, `MCModelRoutes` | `PauseOnlyWhenAllCapped` | "a nonempty, code-computed eligible set with every member capped" (`models/cap-pause.ts:33`) | `chooseFallback` also pauses with `no_adequate` while candidates are available (`models/fallback.ts:278`) and with no candidates at all (`:201`) |
| constants of `Orchestrator.cfg`, `MCOrchestrator` | `ChecksNeverWaived` | "can only *fail* an attempt, never waive a check" (`scripts/orchestrate/README.md:15`) | with an answer of the engine, the exit codes of tests and verification commands are not looked at (`scripts/orchestrate/run.mjs:328`) |
| constants of `Orchestrator.cfg`, `MCOrchestrator` | `EnforcementTested` | "verified by a passing test run at this revision" (`scripts/orchestrate/run.mjs:962`) | the tests run on the local head and `gh pr merge` merges the pushed one (`:999`), which may be older, or newer by a worker that outlived its orchestrator |
| constants of `Planning.cfg`, `MCPlanning` | `NothingWaitsForCancelled` | "`done` and `cancelled` are terminal ... New follow-up work needs explicit scope approval and new tasks" (`docs/state-machine.md:58`) | a plan that has a dropped task back, unchanged, is matched with its cancelled row (`workflow/plan-store.ts:442`), of which only the blocker is written (`:387`): it stays cancelled and its dependents never become ready |
| constants of `Planning.cfg`, `MCPlanning` | `NoWeakCheckVerifies` | "there is no code path that treats a weak check as verification" (`workflow/weak-checks.ts:19`) | after a pipe the last program alone decides (`:184`): `true \|\| npm test \| cat` always exits 0 and is judged able to fail |
| constants of `Planning.cfg`, `MCPlanning` | `BatchJudgedAsOwned` | "exactly the fields the question is asked about" (`workflow/coupling.ts:330`, of what bumps `Task.revision`) | the question is asked about paths and components too (`:676`), whose change bumps no revision, so the old verdict is served |

## 5. Proofs

Every invariant and action property of `Workflow`, `Scheduler`, `Attempts`, `Workers`,
`Rollback`, `TaskGate` and `Orchestrator`, both invariants of `FileLock`, and the safety
half of `ImplementsLock`, are theorems: they hold for every value of the constants that
satisfies the assumptions of the modules. Those assumptions are what the schemas of the
configuration and of the plan, or the types of the code, already demand; the few
hypotheses beyond them stand in the theorems and are named here.

`WorkflowStateProofs`, for any plan (`Deps` need not be acyclic). `ActiveTaskUnheld`,
`WorkAtCurrentRevision` and `DoneOverDoneDependencies` are the conjuncts of `Safety`,
inductive together with `TypeOK`: completion rests on the dependencies of an active task,
those on done tasks staying done and on readiness having been checked while nothing has
been raised since. Instead of three times twenty actions, `NextSafeStep` shows that every
action is a `SafeStep`, an action formula that says what a step may do to one task (done
stays done; a task becomes active only over done dependencies, without a reason, with a
check; a working task keeps its revision), and `SafeStepSafety` that a `SafeStep`
preserves `Safety`. The lemmas on the tables (`PlainTaskEdge`,
`PlainPhaseEdge`, `OtherPhaseEdge`) are what makes a change of a table row fail a proof;
`MovesAreListedTheorem` is about the same tables. `DoneExactlyByReceipt` is inductive
given the two before it: only `CompleteTask` consumes a receipt and only it leads to
done, from a review of work at the current revision, and a done task is not dispatched.

`FileLockProofs`, for any finite set of processes, without further hypotheses.
`SingleHolder` (no more owners than one and the thefts) is not inductive: a creation adds
an owner and no theft. The inductive `OwnersCounted` adds that the owners are within the
thefts alone while nobody uses the path, and `PathAgrees` says who may use it, by program
counter. The lemmas on finite sets carry the count. `OneOwner`: before any theft the one
owner is the one user of the path. With it `RefinesLock` shows that each call on the file
is a step of `Lock` or a stutter: the refinement of its safety half. `ExactlyOneWinner`,
which is `SingleHolder` without the thefts, is false; `StoreLockRace.cfg` shows it.

`SchedulerProofs`, without hypothesis on the plan: a task need not own anything. All that
keeps a pass from dispatching what is still in flight is that it may not run beside
itself, so the properties say of which tasks they speak. `Exclusive` ones own a path or a
component or are not judged independent of themselves, and never have two workers;
`Tracked` ones are exclusive or were dispatched once, and of these the map holds all the
workers (`MapHoldsWorkers`). Its tasks are pairwise disjoint (`MapDisjoint`) and it is
within the ceiling; the properties are about workers, the loop only reads the map. Of a
task that is neither, what remains is that its reservations match its workers and that
it conflicts with nobody, since it owns nothing. `GreedyExists` and `GreedyAgree` show that the selection of a
pass is well defined: for any ranking there is exactly one set it can select.

`AttemptLoopProofs`, for any limits. `EffectAtMostOnce` needs `EffectInv` (no
effect has landed while another attempt may begin) and `LandedIsHeld`: whatever the receipt
and the probe say or fail to say of a step that landed, `reconcileStep` does not permit
its retry. `RetriesBounded` needs the books of both loops: `BudgetInv` for the
turns, and `LogInv`, which equates the length of the recovery log with the attempts and
gatherings that paid for it.

`WorkersProofs`, for any number of runs and descendants and any bound on crashes.
`RunInv` says what memory, disk and process may say of one run at the same time: that a
started run has its marker written (`MemoryInv`), that the marker knows who asked for a
cancellation (`AskedInv`), what each closed row presupposes (`RowInv`), and that a living
descendant that is owed is in the snapshot of a ladder that has not swept (`OwedInv`).
Both properties follow from it. A cancellation that could not read the process table
(`process-tree.ts:57`) knows no descendants and owes none, so `CancelLeavesNoOrphan` speaks
of those that could.

`RollbackProofs`, for any tables, questions, prompts, trees and crashes. `GrantInv` ties
each approval row to the request row it was granted for, neither of which a step rewrites
in what it is about; `ChangeInv` ties a scope change to a grant that stands no more.
`PolicyInv` keeps the table that intake accepted; with it the lemma
`UnaskedActsHarmlessAlways` follows from the tables for every act code can describe.
`RestoresAuthorised` and `OverwrittenPreserved` rest on `JobInv`: between the capture and
the overwriting the approval stays usable and the action undone, the tree is not the main
one, and what is in it is held by a ref or was written since.

`TaskGateProofs`, for any checks, commits, revisions and bounds (and ids that are not both
an attempt's and a check's: rows of both kinds name their source in one column).
`ChecksCarryGate` is far from inductive: it is about a verdict that reads the rows of
calls that began before. `RowsInv` is the history it needs: the types, which rows a call
can have stored (`EvidenceOK`: what its run was pinned to, and how the rows of one call
stand to each other), and what a call in flight may still store (`CallsOK`). Its one
hypothesis is `MaxReruns <= 1`, the shipped default; with two reruns the property fails
(section 6). Commits may be revisited and stamps may be equal: the property says of a
disagreement only that it does not go unnoticed by accident of the worktree, and names
the ties and the superseded rows it excepts. `ReviewCarriesGate` follows from the pin of a
review row (`EvidenceOK` again) and from the chain of hand-offs. `CriteriaEvidenced` needs
`GapInv`: what the mapping of an evaluation concluded about a state stays true of the rows
of that state, since rows are only appended, and what supersedes a row changes the state.

`OrchestratorProofs`, for any issues, models, limits and sessions. `Tables` says that file
and memory hold at least as many attempts of an issue as workers were ever started for it
(an attempt is on file before its worker exists; closing, capping or interrupting one
changes outcomes only), and that a last attempt awaiting review, in either, was passed
since its last worker; `Picked`, that an issue picked for dispatch is open and has room;
`Reviewed`, that a merge review, begun by the loop or by `--merge`, is of a passed issue.
`HeadKept` carries the tested head to the merge: nothing writes to a branch that had
settled when its review began.

Only model-checked. Liveness under fairness (`ImplementsLock`'s promise that every request
ends, `CancelledRunEnds`, `AskAllEnds`, `BreakerRecovers`, `OverdueWorkerStops`,
`PauseEnds`, `SessionEnds`) is out of the prover's reach. `SpendWithinCap` is about sums
over sets, which are folds: what a fold computes needs an induction that the installed
provers cannot instantiate. `PlanSchema`, `Coupling` and `Planning` use recursive
operators and stay with TLC, which compares the recursive algorithms (cycle search, glob
intersection, command lines) with reference definitions over every instance of the run.
`OverrunBounded`, `SwitchesWithinPolicy` and `CappedRouteLeft` are within reach and not
proved yet.

## 6. Where the code and its texts disagree

The counterexamples of section 4. Noticed while modelling, without a
configuration of their own:

- `Task.blocker` is the derived view of the rows (`workflow/state.ts:754`), but a second
  reason on a task that is blocked already updates only the rows (`invalidation.ts:213`).
- `all_tasks_done` speaks of done tasks at their current revision (`transitions.ts:43`);
  `state.ts:1131` looks at the status alone.
- A receipt carries an input hash (`gate-receipts.ts:143`) that `authoriseDone` does not
  compare, so a verdict whose inputs have changed still completes the task.
- `scheduler.ts:614` calls what is left at the end not startable; a task that can never
  be claimed can take the slot of one that could.
- Consumption of a scope only grows (`ledger.ts:106`), but a settlement below its
  estimate or a release lets it fall; so `resumeAfterCapRaised` can clear a latch although
  no cap was raised (`budget-stops.ts:150`).
- `release` is for a call that never ran, so used nothing (`ledger.ts:478`), but
  `withReservation` releases after a call that threw (`:511`; only tests call it), and the
  hook of the budget stop after a dispatch whose usage is not known yet
  (`budget-stops.ts:247`): what they used is in no cap, and the same money is granted
  again. `SpendWithinCap` says that nothing but this, and the overrun of single estimates,
  escapes the caps. A worker that outlives its session and is reattached has had its
  reservation abandoned (`storage/reconcile.ts:136`), so beyond its estimate it is not
  accounted either, and it is in no concurrency count.
- The half-open limit bounds probes per period and not in flight
  (`jev/resilience.ts:217`); exhausted retries are an error and not "disabled" (`:405`).
- `withRetry` sleeps its backoff without regard to the remaining time, so a call may
  outlast its total deadline (`resilience.ts:347`) by one backoff; `OverrunBounded` shows
  that it is no more.
- `resolveApprovalInteractively` grants with the clock reading from before the prompt, so
  a request that expires while the prompt is open is granted
  (`approval-prompt.ts:231`, against `docs/approvals.md:100`).
- `reconcileSession`, and a `reviseTask` that changes ownership only, invalidate the
  approvals of a scope and leave its pending requests grantable (`approvals.ts:29`).
- The digest of a scope change leaves out checks, criteria and dependencies
  (`scope-change.ts:216`), so an approval of one redefinition fits another (`:281`).
- `applyRollback` called before the answer refuses the proposal for good. A second,
  freshly approved rollback to the same checkpoint is always refused, because the action
  id ignores the proposal. After a crash between resolution and receipt a second proposal
  restores, and then fails on the unique index, each time it is applied.
- `consumeApproval` has no caller.
- `plan-store.ts` writes `Task.status` itself (a revised task becomes proposed, a dropped
  one cancelled), although `state.ts:6` calls itself the only writer; the theorems on
  `WorkflowState` hold between two plan revisions.
- `planApproved` (`run.ts:132`) answers true for every workflow that is past planning.
- Gate: `runTaskGate` never passes `reviews` to the gate (`verification/task-gate.ts:1114`),
  although the gate reads them (`:886`). `askCriterionQuestions` ignores the configured
  thresholds (`evaluate.ts:468`, against `docs/config-reference.md:346`). With `maxReruns` of two or more the disagreement of
  two runs can be missed: `reconcileRuns` compares runs at the revision of the first
  (`flaky.ts:125`), so a failure at one commit followed by a failure and a pass at the
  next is stored as failed and then passed, although `flaky.ts:9` calls exactly that
  flaky. TLC finds it with `MaxReruns = 2`; the default of one (`DEFAULT_RERUN_POLICY`)
  cannot get there.
- Workers: `cancelAll` can set a finished run back to "stopping". A cancellation that
  comes after the end, followed by a crash, reports "process_killed" for a run that ended
  by itself. If the ledger refuses a start, the spawned process stays unsupervised. The
  reservation of a reattached worker is abandoned. Descendants of a worker that exits by
  itself are not swept. `applyRestart` writes receipt and row in two writes.
- The recovery ladder with no attempt used is exhausted at once (`recovery.ts:400`).
- Models: `prefer_wait` may pause an attempt whose model is available; a pin that has left
  the catalog pauses with nothing to watch; a `no_adequate` pause resumes at once
  (`docs/state-machine.md:228`); availability read before the ranking is stale after it.
- Orchestrator: `exhausted` (`run.mjs:782`) counts truncated attempts, which `readyIssues`
  does not, and an issue whose last attempt was capped or timed out is at its limit
  without a label. With every model in cooldown a worker is started with none.
  `state.json` is read (84) before the lock is taken (1014), by a check and a write.
  Workers survive a crash, and a second one gets the same worktree. An attempt recorded
  before `gh` threw stays "running" until the next session, and so does one whose judgment
  threw (`:1035`). A batch may exceed `--max` by the
  concurrency less one. `sessionTokens` is never reset. The README of the orchestrator
  says that merging is never in the dispatch loop; the configuration does it there.
- Planning: a task that is done may get dependencies that are not. Dropped phases stay
  stored. `commandCanFail` forgets what stands before a pipeline that follows `&&` or `||`:
  after `||` it passes a check that cannot fail, after `&&` it holds back one that can
  (the two exceptions of `ChecksJudged`).
  `validateGreenfieldPlan` is called enforced (`greenfield.ts:176`) and only adds warnings.
  A failed model call repeats the previous prompt. The entry points of planner, plan store
  and plan evaluation have no caller in `src/`.
- An act that satisfies several rules is said to land in the most restrictive class, but a
  registered check that touches a dependency manifest is `run_checks` (automatic by
  default) and not `add_dependency`. `classifyAct` has no caller outside the tests.
- A failed `git status` counts as a clean tree (`git/revision.ts`), whose header says that
  failures are never guessed at.
- `runCommand` (`extension/commands/run.ts:278`) reads `planApproved`, awaits the
  confirmation and then starts the run with `authorizationCurrent` always true.

## 7. Not modelled

Listed in `PROJECT.json` under `components`, with the reason for each: texts and tables
(questions, catalogue, prompts, intake, context); stateless classification of command
lines (security); plain I/O (store access, git commands, logs, artifacts, retention,
process enumeration); read-only views (boards, listings); commands and wiring, which call
what is modelled. Left out of modelled parts: reuse of process ids, the content of trees
path by path, prices, the wording of prompts and refusals, the drift computed by
`reconcileSession` (its result is environment), hand-off packets, and a recorder of
decisions that throws (`decisions/ask.ts:272`), which would end `askAll` by rejecting it.
