---------------------------- MODULE Orchestrator ----------------------------
(***************************************************************************)
(* The batch orchestrator that builds the repository from its own issue     *)
(* tracker (scripts/orchestrate/run.mjs).  It keeps its attempts in a file,  *)
(* reads and labels issues on a remote tracker, runs detached workers, and   *)
(* merges what passes two reviews.  It may die between any two steps; its    *)
(* file, the tracker and its workers survive it.                             *)
(***************************************************************************)
EXTENDS Integers, Sequences, FiniteSets, SequencesExt

CONSTANTS
    Issues,         \* issue numbers, a set of naturals
    Models,         \* the allowlisted models, in the order of StaticOrder
    StaticOrder,    \* staticFallbackOrder
    Settings,       \* [deps, maxAttempts, concurrency, merge, retryStuck, verified], and
                    \* bounds: the sessions of a behaviour, the labels the owner sets
    NoModel,        \* undefined
    MaxRuns         \* bound on worker runs of a session (--max)

ASSUME OrchestratorAssumption ==
    /\ Issues \subseteq Nat /\ MaxRuns \in Nat
    /\ NoModel \notin Models
    /\ \A s \in Settings :
         /\ s.deps \in [Issues -> SUBSET Issues] /\ s.maxAttempts \in Nat
         /\ s.retryStuck \in BOOLEAN
         /\ s.sessions \in Nat /\ s.ownerActs \in Nat
         /\ s.verified \subseteq Issues  \* that list verification commands

VARIABLES
    setting,
    file,      \* .orchestrate/state.json: [attempts : [Issues -> Seq(attempt)], caps : SUBSET Models]
    mem,       \* the same, as the running process holds it
    pc,        \* "off", "revalidate", "pass", "batch" or "command"
    batch,     \* the issues being dispatched
    step,      \* [Issues -> where the dispatch of an issue is]
    result,    \* [Issues -> what its dispatch returned]
    seen,      \* [Issues -> labels as last fetched for its dispatch or review]
    review,    \* [Issues -> what a merge review read before it asked the engine, and
               \* history: whether the branch had settled by then, that is was pushed
               \* and without a worker of its own, and what was merged]
    runs,      \* runsThisSession
    labels,    \* the tracker: [Issues -> labels]
    closed,    \* the tracker: issues closed by a merge
    work,      \* [Issues -> the state of the branch]
    orphans,   \* issues with a worker whose orchestrator died
    sessions, ownerActs,
    spawned,   \* history: workers ever started for an issue
    judged     \* history: workers started for an issue when the gate last passed it

procVars == <<mem, pc, batch, step, result, seen, review, runs>>
vars == <<setting, file, procVars, labels, closed, work, orphans, sessions, ownerActs, spawned,
          judged>>

Attempt(m, o) == [model |-> m, outcome |-> o]
NoWork == [pr |-> FALSE, tests |-> "none", pushed |-> FALSE]
NoLabels == [i \in Issues |-> {}]
Review(blocked, tests, settled) ==
    [blocked |-> blocked, tests |-> tests, settled |-> settled, verdict |-> "none", merged |-> "none"]
NoReview == Review(FALSE, "none", FALSE)

Attempts(i) == mem.attempts[i]
Count(i, outcomes) ==
    Cardinality({n \in DOMAIN Attempts(i) : Attempts(i)[n].outcome \in outcomes})

\* The process changes its last attempt of i and writes its file.
SaveOutcome(i, o) ==
    LET n == Len(Attempts(i))
    IN  /\ mem' = [mem EXCEPT !.attempts[i][n].outcome = o]
        /\ file' = mem'

---------------------------------------------------------------------------
(* Readiness and model choice *)

AttemptCap(i) ==
    IF setting.retryStuck /\ "orchestrator-stuck" \in labels[i]
    THEN 2 * setting.maxAttempts ELSE setting.maxAttempts

\* Truncated turns are counted apart from the others.
WithinAttempts(i) ==
    /\ Count(i, {"truncated"}) < AttemptCap(i)
    /\ Len(Attempts(i)) - Count(i, {"truncated"}) < AttemptCap(i)

BlockersClosed(i) == setting.deps[i] \subseteq closed

\* fetchIssues reads the labels in the same step.
IsReady(i) ==
    /\ i \notin closed
    /\ "needs-human" \notin labels[i]
    /\ Count(i, {"running"}) = 0
    /\ "orchestrator-stuck" \in labels[i] => setting.retryStuck
    /\ BlockersClosed(i)
    /\ WithinAttempts(i)
    /\ Count(i, {"awaiting-review"}) = 0

Dependents(i) == Cardinality({j \in Issues : i \in setting.deps[j]})

\* Most dependents first, then the lowest number.  All issues share a milestone.
Before(i, j) ==
    \/ Dependents(i) > Dependents(j)
    \/ Dependents(i) = Dependents(j) /\ i < j

ReadyIssues == {i \in Issues : IsReady(i)}

\* ready.slice(0, concurrency), in that order.
NextBatch ==
    {i \in ReadyIssues : Cardinality({j \in ReadyIssues : Before(j, i)}) < setting.concurrency}

AvailableModels == Models \ mem.caps

StaticChoice(from) ==
    LET order == SelectSeq(StaticOrder, LAMBDA m : m \in from)
    IN  IF order = << >> THEN NoModel ELSE Head(order)

Failures(i, m) ==
    Cardinality({n \in DOMAIN Attempts(i) :
        Attempts(i)[n].model = m /\ Attempts(i)[n].outcome \in {"gap", "timeout", "truncated"}})

\* The ranking prefers one adequate model, or the static order decides; a model
\* that was just capped or failed twice gives way to another if there is one.
ProfileAndSelect(i) ==
    LET first  == AvailableModels \union (IF AvailableModels = {} THEN {NoModel} ELSE {})
        last   == IF Attempts(i) = << >> THEN Attempt(NoModel, "none") ELSE Last(Attempts(i))
        Uncapped(m) == IF last = Attempt(m, "capped") /\ m # NoModel
                       THEN StaticChoice(AvailableModels \ {m}) ELSE m
        Fresh(m)    == IF m # NoModel /\ Failures(i, m) >= 2 /\ AvailableModels # {m}
                       THEN StaticChoice(AvailableModels \ {m}) ELSE m
    IN  {Fresh(Uncapped(m)) : m \in first}

---------------------------------------------------------------------------
(* Sessions *)

\* Attempts a dead process left running are closed on the way in.
Interrupted(attempts) ==
    [i \in Issues |-> [n \in DOMAIN attempts[i] |->
        IF attempts[i][n].outcome = "running"
        THEN [attempts[i][n] EXCEPT !.outcome = "interrupted"] ELSE attempts[i][n]]]

Idle == [i \in Issues |-> "idle"]

\* main(): load the file, take the lock, clean up.  The lock of a dead process is
\* taken over; one session runs at a time.
StartSession ==
    /\ pc = "off" /\ sessions < setting.sessions
    /\ sessions' = sessions + 1
    /\ mem' = [file EXCEPT !.attempts = Interrupted(file.attempts)]
    /\ file' = mem'
    /\ pc' = "revalidate" /\ runs' = 0
    /\ batch' = {} /\ step' = Idle /\ result' = Idle
    /\ seen' = NoLabels
    /\ UNCHANGED <<setting, labels, closed, work, orphans, ownerActs, spawned, judged, review>>

\* Mutant: --merge takes the last attempt whatever became of it.
MergeLastAttempt(i) ==
    /\ pc = "off" /\ sessions < setting.sessions
    /\ file.attempts[i] # << >>
    /\ sessions' = sessions + 1
    /\ mem' = file /\ pc' = "command" /\ runs' = 0 /\ batch' = {i}
    /\ step' = [Idle EXCEPT ![i] = "merge"]
    /\ result' = Idle /\ seen' = NoLabels
    /\ UNCHANGED <<setting, file, labels, closed, work, orphans, ownerActs, spawned, judged, review>>

\* --merge n and --review n: one issue, no clean-up, no loop.
StartCommand(i) ==
    /\ pc = "off" /\ sessions < setting.sessions
    /\ file.attempts[i] # << >>
    /\ sessions' = sessions + 1
    /\ mem' = file /\ pc' = "command" /\ runs' = 0 /\ batch' = {i}
    /\ \/ Last(file.attempts[i]).outcome = "awaiting-review" /\ step' = [Idle EXCEPT ![i] = "merge"]
       \/ step' = [Idle EXCEPT ![i] = "rejudge"]
    /\ result' = Idle /\ seen' = NoLabels
    /\ UNCHANGED <<setting, file, labels, closed, work, orphans, ownerActs, spawned, judged, review>>

\* The owner's label stays unless the engine is confident that nobody needs the owner.
RevalidateNeedsHuman ==
    /\ pc = "revalidate"
    /\ \E cleared \in SUBSET {i \in Issues \ closed : "needs-human" \in labels[i]} :
         labels' = [i \in Issues |-> IF i \in cleared THEN labels[i] \ {"needs-human"} ELSE labels[i]]
    /\ pc' = "pass"
    /\ UNCHANGED <<setting, file, mem, batch, step, result, seen, review, runs, closed, work, orphans, sessions,
                   ownerActs, spawned, judged>>

EndSession ==
    /\ pc' = "off" /\ batch' = {} /\ runs' = 0
    /\ step' = Idle /\ result' = Idle

\* Nothing ready: look again.
KeepPolling == UNCHANGED <<pc, batch, runs, step, result>>

NothingReady == EndSession

\* One turn of the loop: budget, fetch, ready issues, the next batch.
Pass ==
    /\ pc = "pass"
    /\ IF runs >= MaxRuns THEN EndSession
       ELSE IF ReadyIssues = {} THEN NothingReady
       ELSE /\ batch' = NextBatch
            /\ step' = [i \in Issues |-> IF i \in batch' THEN "select" ELSE "idle"]
            /\ result' = Idle /\ pc' = "batch" /\ UNCHANGED runs
    /\ seen' = [i \in Issues |-> IF i \in batch' THEN labels[i] ELSE {}]
    /\ UNCHANGED <<setting, file, mem, review, labels, closed, work, orphans, sessions, ownerActs, spawned, judged>>

\* Promise.all: the batch is over, and a batch that dispatched nothing ends it.
BatchEnds ==
    /\ pc \in {"batch", "command"} /\ \A i \in batch : step[i] = "finished"
    /\ IF pc = "command" \/ \A i \in batch : result[i] = "null"
       THEN EndSession
       ELSE /\ pc' = "pass" /\ batch' = {} /\ runs' = runs + Cardinality(batch)
            /\ step' = Idle /\ result' = Idle
    /\ seen' = NoLabels
    /\ UNCHANGED <<setting, file, mem, review, labels, closed, work, orphans, sessions, ownerActs, spawned, judged>>

Finished(i, r) == step' = [step EXCEPT ![i] = "finished"] /\ result' = [result EXCEPT ![i] = r]
Goes(i, s) == step' = [step EXCEPT ![i] = s] /\ UNCHANGED result

At(i, s) == pc \in {"batch", "command"} /\ i \in batch /\ step[i] = s

---------------------------------------------------------------------------
(* One dispatch *)

\* The attempt is kept in memory until it has an outcome.
RecordLater(i, m) ==
    /\ mem' = [mem EXCEPT !.attempts[i] = Append(@, Attempt(m, "running"))]
    /\ UNCHANGED file

\* The attempt is on file before its worker exists.
RecordAttempt(i, m) ==
    /\ mem' = [mem EXCEPT !.attempts[i] = Append(@, Attempt(m, "running"))]
    /\ file' = mem'

\* An issue judged under-specified is labelled instead.
FlagUnderSpecified(i) ==
    /\ labels' = [labels EXCEPT ![i] = @ \union {"needs-human"}]
    /\ Finished(i, "null")
    /\ UNCHANGED <<mem, file, spawned>>

\* git throws before the attempt is recorded, or gh after it, which leaves an
\* attempt that runs nothing on file: main() catches either.
DispatchThrows(i) ==
    /\ \/ UNCHANGED <<mem, file>>
       \/ \E m \in ProfileAndSelect(i) : RecordAttempt(i, m)
    /\ Finished(i, "error")
    /\ UNCHANGED <<labels, spawned>>

Dispatch(i) ==
    /\ At(i, "select")
    /\ \/ FlagUnderSpecified(i)
       \/ DispatchThrows(i)
       \/ \E m \in ProfileAndSelect(i) :
            /\ RecordAttempt(i, m)
            /\ spawned' = [spawned EXCEPT ![i] = @ + 1]
            /\ Goes(i, "worker")
            /\ UNCHANGED labels
    /\ UNCHANGED <<setting, pc, batch, seen, review, runs, closed, work, orphans, sessions, ownerActs, judged>>

\* What a worker may leave behind: a pull request stays open once it is.  `tests'
\* is what the checks say in its worktree: "fail" when the suite or a verification
\* command exits with another code than zero, "none" when there is no suite.
WorkOf(i) == [pr : {work[i].pr, TRUE}, tests : {"none", "pass", "fail"}, pushed : BOOLEAN]

CurrentModel(i) == Last(Attempts(i)).model

\* The worker exits, is killed by its timer, is cut off, or meets a cap.  A worker
\* started with no model ends without having done anything.
WorkerEnds(i) ==
    /\ At(i, "worker")
    /\ \/ /\ CurrentModel(i) # NoModel
          /\ mem' = [mem EXCEPT !.attempts[i][Len(Attempts(i))].outcome = "capped",
                                !.caps = @ \union {CurrentModel(i)}]
          /\ file' = mem' /\ Finished(i, "retry") /\ UNCHANGED work
       \/ /\ CurrentModel(i) # NoModel
          /\ \E o \in {"timeout", "truncated"} : SaveOutcome(i, o)
          /\ Finished(i, "retry") /\ UNCHANGED work
       \/ /\ work' \in {[work EXCEPT ![i] = w] :
                          w \in IF CurrentModel(i) = NoModel THEN {work[i]} ELSE WorkOf(i)}
          /\ Goes(i, "judge") /\ UNCHANGED <<mem, file>>
    /\ UNCHANGED <<setting, pc, batch, seen, review, runs, labels, closed, orphans, sessions, ownerActs, spawned,
                   judged>>

\* The engine's answer about the criteria: unavailable, met, or a gap.
Verdicts == {"unavailable", "met", "gap"}

\* With an answer the recorded exits do not count; without one the commands of the
\* issue must all have passed, and its suite if there is one.
GapPasses(i, verdict) ==
    /\ work[i].pr
    /\ IF verdict = "unavailable" THEN i \in setting.verified /\ work[i].tests # "fail"
                                  ELSE verdict = "met"

PassedNow(i) == judged' = [judged EXCEPT ![i] = spawned[i]]

Exhausted(i) == Len(Attempts(i)) >= setting.maxAttempts

\* An exception leaves the attempt as it is, or skips the escalation.
Judge(i) ==
    /\ At(i, "judge")
    /\ \/ \E verdict \in Verdicts, reported \in {"done", "partial"} :
            IF GapPasses(i, verdict) /\ reported = "done" /\ CurrentModel(i) # NoModel
            THEN /\ SaveOutcome(i, "awaiting-review") /\ PassedNow(i)
                 /\ IF setting.merge THEN Goes(i, "merge") ELSE Finished(i, "done")
            ELSE /\ SaveOutcome(i, "gap") /\ UNCHANGED judged
                 /\ \/ Exhausted(i) /\ Goes(i, "escalate")
                    \/ Finished(i, "retry")
       \/ Finished(i, "error") /\ UNCHANGED <<mem, file, judged>>
    /\ UNCHANGED <<setting, pc, batch, seen, review, runs, labels, closed, work, orphans, sessions, ownerActs, spawned>>

\* --review: the gate again, without the worker's own verdict.
ReviewOnly(i) ==
    /\ At(i, "rejudge")
    /\ \E verdict \in Verdicts :
         IF GapPasses(i, verdict) THEN SaveOutcome(i, "awaiting-review") /\ PassedNow(i)
                                  ELSE UNCHANGED <<mem, file, judged>>
    /\ Finished(i, "done")
    /\ UNCHANGED <<setting, pc, batch, seen, review, runs, labels, closed, work, orphans, sessions, ownerActs, spawned>>

\* needs-human if the engine is silent or says so, otherwise parked as stuck; no
\* label when gh throws.
EscalateOrPark(i) ==
    /\ At(i, "escalate")
    /\ \/ UNCHANGED labels
       \/ /\ "needs-human" \notin seen[i]
          /\ \E l \in {"needs-human", "orchestrator-stuck"} :
               labels' = [labels EXCEPT ![i] = @ \union {l}]
    /\ Finished(i, "retry")
    /\ UNCHANGED <<setting, file, mem, pc, batch, seen, review, runs, closed, work, orphans, sessions, ownerActs, spawned,
                   judged>>

---------------------------------------------------------------------------
(* Merge review *)

\* A conflict is resolved by a rebase, which is pushed and may change what the
\* checks say.
Rebased(i) ==
    IF work[i].pr THEN [pr : {TRUE}, tests : {"none", "pass", "fail"}, pushed : {TRUE}] ELSE {}

\* Mutant: the checks run before the rebase.
TestsBeforeRebase(i, w) == work[i].tests

\* deterministicChecks in the worktree w, which is the one after the rebase.
TestsReviewed(i, w) == w.tests

\* Fetch, look at the pull request (rebasing it if it conflicts), run the checks.
\* A mergeability nobody has computed, or a gh that throws, leaves the attempt
\* awaiting review.
MergeBegins(i) ==
    /\ At(i, "merge")
    /\ seen' = [seen EXCEPT ![i] = labels[i]]
    /\ \/ Finished(i, "done") /\ UNCHANGED <<review, work>>
       \/ /\ \E blocked \in BOOLEAN, w \in {work[i]} \union Rebased(i) :
                /\ work' = [work EXCEPT ![i] = w]
                /\ review' = [review EXCEPT ![i] =
                      Review(blocked \/ ~w.pr, TestsReviewed(i, w), w.pushed /\ i \notin orphans)]
          /\ Goes(i, "verdict")
    /\ UNCHANGED <<setting, file, mem, pc, batch, runs, labels, closed, orphans, sessions, ownerActs, spawned, judged>>

\* "sound" is a review without a soft objection; "touches" one of enforcement code
\* that weakens nothing; "weakens" one that does; "objects" any low score.
MergeVerdicts == {"unavailable", "objects", "sound", "touches", "weakens"}

OwnerOnly(i, verdict) == "needs-human" \in seen[i] \/ verdict = "weakens"

\* Mutant: no runnable suite is no failure, for enforcement code as for the rest.
TouchesUntested(i, verdict) ==
    \/ review[i].blocked \/ review[i].tests = "fail" \/ OwnerOnly(i, verdict)
    \/ verdict \in {"unavailable", "objects"}

Blockers(i, verdict) ==
    \/ review[i].blocked \/ review[i].tests = "fail" \/ OwnerOnly(i, verdict)
    \/ verdict \in {"unavailable", "objects"}
    \/ verdict = "touches" /\ review[i].tests # "pass"

\* What the remote branch, which gh merges, would be tested as.
MergedTests(i) == IF work[i].pushed THEN work[i].tests ELSE "unknown"

\* gh pr merge closes the issue at once; the file learns of it in the next step.
\* Without an answer of gh nothing is decided.
MergeDecided(i) ==
    /\ At(i, "verdict")
    /\ \/ \E verdict \in MergeVerdicts :
            IF Blockers(i, verdict)
            THEN /\ SaveOutcome(i, "merge-blocked")
                 /\ IF OwnerOnly(i, verdict) \/ Exhausted(i) THEN Goes(i, "escalate") ELSE Finished(i, "done")
                 /\ review' = [review EXCEPT ![i] = NoReview]
                 /\ UNCHANGED closed
            ELSE /\ closed' = closed \union {i}
                 /\ review' = [review EXCEPT ![i].verdict = verdict, ![i].merged = MergedTests(i)]
                 /\ Goes(i, "merged") /\ UNCHANGED <<mem, file>>
       \/ /\ Finished(i, "done")
          /\ review' = [review EXCEPT ![i] = NoReview]
          /\ UNCHANGED <<mem, file, closed>>
    /\ UNCHANGED <<setting, pc, batch, seen, runs, labels, work, orphans, sessions, ownerActs, spawned, judged>>

\* Record the merge and remove the worktree, unless gh has thrown although it had
\* merged.
MergeRecorded(i) ==
    /\ At(i, "merged")
    /\ \/ SaveOutcome(i, "merged") /\ work' = [work EXCEPT ![i] = NoWork]
       \/ UNCHANGED <<mem, file, work>>
    /\ Finished(i, "done")
    /\ review' = [review EXCEPT ![i] = NoReview]
    /\ UNCHANGED <<setting, pc, batch, seen, runs, labels, closed, orphans, sessions, ownerActs, spawned, judged>>

---------------------------------------------------------------------------
(* Everything else *)

\* The process dies.  Its workers are detached and go on.
Crash ==
    /\ pc # "off" /\ sessions < setting.sessions
    /\ pc' = "off" /\ batch' = {} /\ runs' = 0 /\ step' = Idle /\ result' = Idle
    /\ mem' = file /\ seen' = NoLabels /\ review' = [i \in Issues |-> NoReview]
    /\ orphans' = orphans \union {i \in batch : step[i] = "worker"}
    /\ UNCHANGED <<setting, file, labels, closed, work, sessions, ownerActs, spawned, judged>>

OrphanEnds(i) ==
    /\ i \in orphans
    /\ orphans' = orphans \ {i}
    /\ work' \in {[work EXCEPT ![i] = w] : w \in WorkOf(i)}
    /\ UNCHANGED <<setting, file, procVars, labels, closed, sessions, ownerActs, spawned, judged>>

CooldownOver(m) ==
    /\ pc # "off" /\ m \in mem.caps
    /\ mem' = [mem EXCEPT !.caps = @ \ {m}]
    /\ file' = [file EXCEPT !.caps = @ \ {m}]
    /\ UNCHANGED <<setting, pc, batch, step, result, seen, review, runs, labels, closed, work, orphans,
                   sessions, ownerActs, spawned, judged>>

OwnerLabels(i) ==
    /\ ownerActs < setting.ownerActs /\ i \notin closed /\ "needs-human" \notin labels[i]
    /\ labels' = [labels EXCEPT ![i] = @ \union {"needs-human"}]
    /\ ownerActs' = ownerActs + 1
    /\ UNCHANGED <<setting, file, procVars, closed, work, orphans, sessions, spawned, judged>>

Init ==
    /\ setting \in Settings
    /\ file = [attempts |-> [i \in Issues |-> << >>], caps |-> {}]
    /\ mem = file /\ pc = "off" /\ batch = {} /\ step = Idle /\ result = Idle
    /\ seen = NoLabels /\ review = [i \in Issues |-> NoReview] /\ runs = 0
    /\ labels = NoLabels
    /\ closed = {} /\ work = [i \in Issues |-> NoWork] /\ orphans = {}
    /\ sessions = 0 /\ ownerActs = 0
    /\ spawned = [i \in Issues |-> 0] /\ judged = [i \in Issues |-> 0]

Advance(i) ==
    \/ Dispatch(i) \/ WorkerEnds(i) \/ Judge(i) \/ ReviewOnly(i) \/ EscalateOrPark(i)
    \/ MergeBegins(i) \/ MergeDecided(i) \/ MergeRecorded(i)

Next ==
    \/ StartSession \/ RevalidateNeedsHuman \/ Pass \/ BatchEnds \/ Crash
    \/ \E i \in Issues : StartCommand(i) \/ Advance(i) \/ OrphanEnds(i) \/ OwnerLabels(i)
    \/ \E m \in Models : CooldownOver(m)

\* A running process goes on; workers end or are killed by their timer.
Fairness ==
    /\ WF_vars(RevalidateNeedsHuman) /\ WF_vars(Pass) /\ WF_vars(BatchEnds)
    /\ \A i \in Issues : WF_vars(Advance(i))

Spec == Init /\ [][Next]_vars /\ Fairness

---------------------------------------------------------------------------
(* Properties *)

\* Workers are bounded per issue, over every crash and restart: neither real nor
\* truncated attempts exceed the configured limit (readyIssues, saveState).
WorkersBounded ==
    \A i \in Issues :
        LET cap == setting.maxAttempts * (IF setting.retryStuck THEN 2 ELSE 1)
        IN  spawned[i] = 0 \/ spawned[i] <= 2 * cap - 1

\* The gate has passed the work of the last worker a merged issue was given: over
\* every crash, blocked review, re-review and command, no merge is of an attempt that
\* was not judged, and none is followed by another worker, whatever the file says
\* (readyIssues, reviewOnly and mergeReview, which read the last attempt on file).
MergedAfterGate == \A i \in closed : judged[i] = spawned[i]

\* The head that was merged has no failing check, and a passing suite if it touches
\* enforcement code, rebased or not, as long as the branch had settled when the review
\* began: it was pushed, and no worker that outlived its orchestrator was at it.
MergedHeadVerified ==
    \A i \in Issues : step[i] = "merged" /\ review[i].settled =>
        review[i].merged \in (IF review[i].verdict = "touches" THEN {"pass"} ELSE {"none", "pass"})

\* What is merged was passed by the gate and verified at the head that was merged.
MergedAsVerified == MergedAfterGate /\ MergedHeadVerified

\* Every session ends by itself: no mixture of caps, truncations, blocked merges and
\* parked issues keeps the loop going for ever.
SessionEnds == (pc # "off") ~> (pc = "off")

\* The gate's judgment can only fail an attempt: what awaits review has no failing check.
ChecksNeverWaived ==
    \A i \in Issues :
        At(i, "merge") /\ i \notin orphans => work[i].tests # "fail"

\* run.mjs:962: enforcement code is merged with a passing test run at this revision.
EnforcementTested ==
    \A i \in Issues : step[i] = "merged" /\ review[i].verdict = "touches" => review[i].merged = "pass"
=============================================================================
