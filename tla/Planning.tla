------------------------------ MODULE Planning ------------------------------
(***************************************************************************)
(* From the planner's answers to tasks that run side by side: the planner  *)
(* loop (workflow/planner.ts, plan-parse.ts), the plan store and its       *)
(* revisions (workflow/plan-store.ts), and the coupling cache that the     *)
(* coordinator fills while the plan may be revised (workflow/coupling.ts). *)
(*                                                                         *)
(* A revision is one store.write; the planner's model call and each        *)
(* coupling question are awaits, and anything else may happen meanwhile.   *)
(* Stored phases are told apart by their order.                            *)
(***************************************************************************)
EXTENDS PlanSchema, Coupling

CONSTANTS
  Documents,      \* what the planner model may answer for each revision of the plan
  Limits,         \* the output limits of the worker model
  MaxAttempts,    \* options.maxAttempts
  MaxRevisions,   \* bound: plans stored
  MaxFills,       \* bound: fillings of the coupling cache
  Patterns,       \* the ownership patterns of the documents
  Files           \* bound: the paths patterns are compared by

ASSUME PlanningAssumption ==
  /\ MaxAttempts \in Nat \ {0}
  /\ MaxRevisions \in Nat
  /\ DOMAIN Documents = 1..MaxRevisions
  /\ MaxFills \in Nat

VARIABLES
  planner,   \* generatePlan: idle, asking or planned; its attempt, the findings its
             \* prompt shows, and the plan it has accepted
  tasks,     \* the workflow's task rows, by record id
  revision,  \* Workflow.planRevision
  refused,   \* the store refused a plan the planner had accepted
  doneAs,    \* history: the definition each task was completed with
  cache,     \* the coupling cache: verdict, and history: what was asked
  fill,      \* fillCouplingCache: its candidates, the pairs left, the one asked
  fills,     \* fillings begun
  batch      \* the last batch selected

planVars == <<tasks, revision, refused, doneAs>>
couplingVars == <<cache, fill, fills, batch>>
vars == <<planner, planVars, couplingVars>>

NotPlanning ==
  [pc |-> "idle", attempt |-> 0, prompt |-> {}, plan |-> << >>]
NoFill == [candidates |-> << >>, left |-> {}, asked |-> << >>]
NoBatch == [parallel |-> << >>, serial |-> << >>]

Init ==
  /\ planner = NotPlanning
  /\ tasks = << >>
  /\ revision = 0
  /\ refused = FALSE
  /\ doneAs = << >>
  /\ cache = << >>
  /\ fill = NoFill
  /\ fills = 0
  /\ batch = NoBatch

-----------------------------------------------------------------------------
(* generatePlan *)

StartPlanning ==
  /\ planner.pc = "idle"
  /\ revision < MaxRevisions
  /\ planner' = [NotPlanning EXCEPT !.pc = "asking", !.attempt = 1]
  /\ UNCHANGED <<planVars, couplingVars>>

\* An attempt that found errors: the loop goes on while attempts are left,
\* with the findings that the next prompt shows; else they are returned.
Rejected(prompt) ==
  planner' = IF planner.attempt < MaxAttempts
               THEN [planner EXCEPT !.attempt = @ + 1, !.prompt = prompt]
               ELSE NotPlanning

\* The model call fails; the next one is given the prompt this one had.
CallFails ==
  /\ planner.pc = "asking"
  /\ Rejected(planner.prompt)
  /\ UNCHANGED <<planVars, couplingVars>>

\* The model answers, and parsePlanOutput accepts or rejects the answer.
Answers ==
  /\ planner.pc = "asking"
  /\ \E doc \in Documents[revision + 1] :
       LET errors == ParsePlanOutput(doc)
       IN  IF errors # {} THEN Rejected(errors)
           ELSE planner' = [planner EXCEPT !.pc = "planned", !.plan = doc]
  /\ UNCHANGED <<planVars, couplingVars>>

-----------------------------------------------------------------------------
(* The plan store *)

DefinitionOfDoneChanged(row, t) == row.goal # t.goal \/ row.checks # t.checks

\* matchPreviousTask: by goal, else by the one row that owns one of its paths.
\* Rows are looked at in the order of their ids; 0 is no match.
MatchPreviousTask(t, taken) ==
  LET available == DOMAIN tasks \ taken
      byGoal == {r \in available : tasks[r].goal = t.goal}
      overlapping == {r \in available : tasks[r].paths \cap t.paths # {}}
  IN  CASE byGoal # {} -> Min(byGoal)
        [] byGoal = {} /\ Cardinality(overlapping) = 1 -> Min(overlapping)
        [] OTHER -> 0

\* Pass 1 of writeTasks: the record id of every task of the document, which
\* lists its tasks in the order of their names.
RecordIds(doc, order) ==
  LET Assign(a, n) ==
        LET m == MatchPreviousTask(doc.tasks[n], a.taken)
        IN  IF m # 0 THEN [a EXCEPT !.ids = Append(@, m), !.taken = @ \cup {m}]
                     ELSE [a EXCEPT !.ids = Append(@, a.next), !.next = @ + 1]
      pass == FoldLeft(Assign, [ids |-> << >>, taken |-> {}, next |-> Len(tasks) + 1], order)
  IN  [n \in Range(order) |-> pass.ids[CHOOSE i \in DOMAIN order : order[i] = n]]

\* initialStatusFor: the plan-time blocker; the status is proposed.
InitialBlocker(t, oversized) ==
  CASE TaskReadiness(t) # "none" -> TaskReadiness(t)
    [] TaskReadiness(t) = "none" /\ oversized -> "output_budget"
    [] OTHER -> "none"

\* buildTask
BuildTask(t, phase, deps, blocker) ==
  [goal |-> t.goal, checks |-> t.checks, paths |-> t.paths, components |-> t.components,
   phase |-> phase, deps |-> deps, revision |-> 1, status |-> "proposed", blocker |-> blocker]

\* Mutant: a redefined task keeps its status.
PatchTaskInPlace(row, t, phase, deps, blocker) ==
  [BuildTask(t, phase, deps, blocker) EXCEPT !.revision = row.revision + 1,
                                             !.status = row.status]

\* The row of a matched task: redefined it starts over at the next revision,
\* otherwise it keeps its status.
PatchTask(row, t, phase, deps, blocker) ==
  IF DefinitionOfDoneChanged(row, t)
    THEN [BuildTask(t, phase, deps, blocker) EXCEPT !.revision = row.revision + 1]
    ELSE [row EXCEPT !.phase = phase, !.deps = deps, !.paths = t.paths,
                     !.components = t.components, !.blocker = blocker]

\* supersedeDroppedTasks
Superseded(row) ==
  IF row.status \in {"cancelled", "done"} THEN row
  ELSE [row EXCEPT !.status = "cancelled", !.blocker = "superseded"]

\* The task rows a document leaves (writeTasks).
WrittenTasks(doc) ==
  LET ids == RecordIds(doc, SetToSortSeq(DOMAIN doc.tasks, <))
      written == {ids[n] : n \in DOMAIN doc.tasks}
      oversized == TasksNeedingDecomposition(doc, Limits)
      Row(r) ==
        LET n == CHOOSE m \in DOMAIN doc.tasks : ids[m] = r
            t == doc.tasks[n]
            deps == {ids[d] : d \in t.deps}
            blocker == InitialBlocker(t, n \in oversized)
        IN  IF r \in DOMAIN tasks
              THEN PatchTask(tasks[r], t, doc.phases[t.phase], deps, blocker)
              ELSE BuildTask(t, doc.phases[t.phase], deps, blocker)
  IN  [rows |-> [r \in 1..Max({0} \cup DOMAIN tasks \cup written) |->
                   IF r \in written THEN Row(r) ELSE Superseded(tasks[r])],
       written |-> written]

\* persistPlan or revisePlan, in one transaction: a graph the store refuses
\* leaves nothing.
StorePlan ==
  LET after == WrittenTasks(planner.plan)
      rows == after.rows
      issues == ValidateGraph([r \in after.written |-> rows[r].deps],
                              [r \in after.written |-> rows[r].phase])
  IN  /\ planner.pc = "planned"
      /\ IF issues # {}
           THEN refused' = TRUE /\ UNCHANGED <<tasks, revision>>
           ELSE /\ tasks' = rows
                /\ revision' = revision + 1
                /\ UNCHANGED refused
      /\ planner' = NotPlanning
      /\ batch' = NoBatch
      /\ UNCHANGED <<doneAs, cache, fill, fills>>

-----------------------------------------------------------------------------
(* The coupling cache *)

\* Rows as the coordinator reads them.
Read(ids) ==
  LET Row(r) == [id |-> r, revision |-> tasks[r].revision, goal |-> tasks[r].goal,
                 checks |-> tasks[r].checks, paths |-> tasks[r].paths,
                 components |-> tasks[r].components]
      order == SetToSortSeq(ids, <)
  IN  [i \in DOMAIN order |-> Row(order[i])]

Eligible == {r \in ReadySet(tasks) : tasks[r].blocker = "none"}

\* fillCouplingCache is called with the tasks that are ready now.
StartFill ==
  /\ fill = NoFill
  /\ fills < MaxFills
  /\ LET rows == Read(Eligible)
     IN  /\ Len(rows) > 1
         /\ fill' = [candidates |-> rows, asked |-> << >>,
                     left |-> {<<i, j>> \in (DOMAIN rows) \X (DOMAIN rows) : i < j}]
  /\ fills' = fills + 1
  /\ UNCHANGED <<planner, planVars, cache, batch>>

\* The next pair: it is cached or its ownership overlaps and it is skipped, or
\* it is asked about as it was read.
NextPair ==
  /\ fill.left # {} /\ fill.asked = << >>
  /\ LET pair == CHOOSE p \in fill.left :
                   \A q \in fill.left : p[1] < q[1] \/ (p[1] = q[1] /\ p[2] <= q[2])
         s == fill.candidates[pair[1]]
         t == fill.candidates[pair[2]]
         left == fill.left \ {pair}
     IN  IF Cached(s, t, cache) \/ OwnershipConflict(s, t)
           THEN fill' = IF left = {} THEN NoFill ELSE [fill EXCEPT !.left = left]
           ELSE fill' = [fill EXCEPT !.left = left, !.asked = pair]
  /\ UNCHANGED <<planner, planVars, cache, fills, batch>>

\* askCoupling resolves; a failure of any kind is the verdict unknown.
CouplingAnswered(v) ==
  /\ fill.asked # << >>
  /\ LET s == fill.candidates[fill.asked[1]]
         t == fill.candidates[fill.asked[2]]
         key == CouplingKey(s, t)
     IN  cache' = [k \in DOMAIN cache \cup {key} |->
                     IF k = key THEN [verdict |-> v, about |-> {s, t}] ELSE cache[k]]
  /\ fill' = IF fill.left = {} THEN NoFill ELSE [fill EXCEPT !.asked = << >>]
  /\ UNCHANGED <<planner, planVars, fills, batch>>

\* A scheduling pass selects what to run together, of the rows it reads; the
\* selection is kept until they change.
SelectBatch ==
  /\ batch = NoBatch
  /\ batch' = SelectConcurrentBatch(Read(Eligible), cache)
  /\ UNCHANGED <<planner, planVars, cache, fill, fills>>

\* The workflow completes a task that is ready and not held (its gate is WorkflowState's).
Complete(r) ==
  /\ tasks' = [tasks EXCEPT ![r].status = "done"]
  /\ doneAs' = [k \in DOMAIN doneAs \cup {r} |->
                  IF k = r THEN <<tasks[r].goal, tasks[r].checks>> ELSE doneAs[k]]
  /\ batch' = NoBatch
  /\ UNCHANGED <<planner, revision, refused, cache, fill, fills>>

-----------------------------------------------------------------------------
Next ==
  \/ StartPlanning
  \/ CallFails
  \/ Answers
  \/ StorePlan
  \/ StartFill
  \/ NextPair
  \/ \E v \in Verdicts : CouplingAnswered(v)
  \/ SelectBatch
  \/ \E r \in Eligible : Complete(r)

Spec == Init /\ [][Next]_vars

-----------------------------------------------------------------------------
(* References the code's algorithms are compared with *)

\* A command line as a shell groups it: a pipe binds tighter than the other
\* operators, and a pipeline has the status of its last program.
Pipelines(line) ==
  LET Extend(ps, s) == IF s.op = "|" THEN [ps EXCEPT ![Len(ps)].can = s.can] ELSE Append(ps, s)
  IN  FoldLeft(Extend, <<Head(line)>>, Tail(line))

\* The exit statuses a shell may give a command line, pipeline by pipeline: one
\* after && runs if the status is 0, after || if it is not.
ExitStatuses(line) ==
  LET Of(s) == IF s.can THEN {0, 1} ELSE {0}
      Run(sts, s) ==
        CASE s.op = "&&" -> (sts \ {0}) \cup (IF 0 \in sts THEN Of(s) ELSE {})
          [] s.op = "||" -> (sts \cap {0}) \cup (IF 1 \in sts THEN Of(s) ELSE {})
          [] OTHER -> Of(s)
  IN  IF line = << >> THEN {0} ELSE LET ps == Pipelines(line) IN FoldLeft(Run, Of(Head(ps)), Tail(ps))

\* A pipeline of several programs after op: commandCanFail lets its last program
\* stand for the whole line before it.
PipesAfter(line, op) ==
  \E i \in 1..(Len(line) - 1) : line[i].op = op /\ line[i + 1].op = "|"

CanFail(c) == IF c.kind \in ExecutedKinds THEN ExitStatuses(c.line) # {0} ELSE c.required

\* What depends on itself, by paths of any length.
Upstream(deps) ==
  LET Step(reach) == [n \in DOMAIN deps |->
                        reach[n] \cup UNION {reach[d] : d \in reach[n] \cap DOMAIN deps}]
      Iterate[i \in 0..Cardinality(DOMAIN deps)] ==
        IF i = 0 THEN deps ELSE Step(Iterate[i - 1])
  IN  Iterate[Cardinality(DOMAIN deps)]

RECURSIVE NameMatches(_, _)
NameMatches(segment, name) ==
  CASE segment = << >> -> name = << >>
    [] segment # << >> /\ Head(segment) = Star ->
         \E i \in 0..Len(name) : NameMatches(Tail(segment), SubSeq(name, i + 1, Len(name)))
    [] OTHER -> name # << >> /\ Head(name) \in Head(segment)
                /\ NameMatches(Tail(segment), Tail(name))

RECURSIVE PathMatches(_, _)
PathMatches(pattern, file) ==
  CASE pattern = << >> -> file = << >>
    [] pattern # << >> /\ Head(pattern) = DoubleStar ->
         \E i \in 0..Len(file) : PathMatches(Tail(pattern), SubSeq(file, i + 1, Len(file)))
    [] OTHER -> file # << >> /\ NameMatches(Head(pattern), Head(file))
                /\ PathMatches(Tail(pattern), Tail(file))

\* The files a pattern owns: those it matches and, unless it ends in a star,
\* those below.
OwnedFiles == [p \in Patterns |->
  {f \in Files : \E k \in 1..Len(f) :
     /\ PathMatches(p, SubSeq(f, 1, k))
     /\ k < Len(f) => Last(Last(p)) # Star}]

Shares(s, t) ==
  \/ s.components \cap t.components # {}
  \/ \E p \in s.paths, q \in t.paths : OwnedFiles[p] \cap OwnedFiles[q] # {}

Wording(rows) == {<<x.id, x.goal, x.checks>> : x \in rows}

-----------------------------------------------------------------------------
\* validatePlanDocument and writeTasks agree: the store never refuses a plan
\* that generatePlan has accepted, whatever the revisions before it.
NeverRefused == ~refused

\* Neither finished nor given up.
Open(r) == tasks[r].status \notin {"cancelled", "done"}

\* What is stored can be run: no open task waits for itself, directly or through
\* others, for a task of a later phase, or for one a revision has dropped.
Schedulable ==
  LET up == Upstream([r \in DOMAIN tasks |-> tasks[r].deps])
  IN  \A r \in DOMAIN tasks : Open(r) =>
        /\ r \notin up[r]
        /\ \A d \in tasks[r].deps : /\ tasks[d].phase <= tasks[r].phase
                                   /\ tasks[d].blocker # "superseded"

\* revisePlan: a task that is done was completed with the goal and checks it
\* has now; a revision that changes them makes it start over.
DoneAsDefined ==
  \A r \in DOMAIN tasks : tasks[r].status = "done" =>
    doneAs[r] = <<tasks[r].goal, tasks[r].checks>>

\* planIncrementalSteps: the steps an artifact is split into are never empty,
\* none exceeds what one turn may hold, and together they are the artifact.
StepsFitTurn ==
  planner.pc = "planned" =>
    \A n \in DOMAIN planner.plan.tasks : \A a \in planner.plan.tasks[n].artifacts :
      SizeArtifact(a, OutputBudget(Limits)) = "decompose" =>
        LET steps == PlanIncrementalSteps(a, Limits)
        IN  /\ \A i \in DOMAIN steps : steps[i] \in 1..OutputBudget(Limits).decomposeAbove
            /\ FoldLeft(+, 0, steps) = EstimateTokens(a)

\* generatePlan and the plan store: a plan the planner accepts is stored, its open
\* tasks can be put in an order, each artifact fits turns that hold it, and a
\* revision keeps done only what was done as the plan now has it.  A task that
\* was dropped and is planned again unchanged is written but stays cancelled:
\* NothingWaitsForCancelled fails.
AcceptedPlanRuns == NeverRefused /\ Schedulable /\ DoneAsDefined /\ StepsFitTurn

\* docs/state-machine.md has cancelled terminal and new work done by new tasks: no
\* open task waits for a cancelled one.  The code breaks it when a dropped task is
\* planned again unchanged: its row is matched and its status left as it was.
NothingWaitsForCancelled ==
  \A r \in DOMAIN tasks : Open(r) => \A d \in tasks[r].deps : tasks[d].status # "cancelled"

\* taskReadiness and commandCanFail: a task nothing holds back has a check that
\* some run of its command line fails, or that a person must give; unless a
\* line has a pipeline after ||, whose unreachable last program is counted.
UnheldTaskCanFail ==
  \A r \in DOMAIN tasks : tasks[r].blocker = "none" =>
    \E c \in tasks[r].checks : CanFail(c) \/ PipesAfter(c.line, "||")

\* A task held back for its checks has none that can fail; unless a line has a
\* pipeline after &&, for which what comes before it is forgotten.
WeakTaskCannotFail ==
  \A r \in DOMAIN tasks : tasks[r].blocker \in {"no_checks", "weak_check"} =>
    \A c \in tasks[r].checks : CanFail(c) => PipesAfter(c.line, "&&")

\* The blocker of every stored task says whether its checks can fail, as a shell
\* runs them, whatever its operators but those two forms of a pipeline.
ChecksJudged == UnheldTaskCanFail /\ WeakTaskCannotFail

\* weak-checks.ts has no path that treats a weak check as verification.  The code
\* breaks it: "true || npm test | cat" always exits 0 and is judged able to fail.
NoWeakCheckVerifies ==
  \A r \in DOMAIN tasks : tasks[r].blocker = "none" => \E c \in tasks[r].checks : CanFail(c)

\* selectConcurrentBatch: no file and no component belongs to two tasks of a
\* batch, and a task held back for its ownership shares one with the batch.
BatchByOwnership ==
  /\ \A i, j \in DOMAIN batch.parallel : i # j =>
       ~Shares(batch.parallel[i], batch.parallel[j])
  /\ \A h \in Range(batch.serial) : h.reason = "ownership_conflict" =>
       \E o \in Range(batch.parallel) : Shares(h.task, o)

\* CouplingCache: tasks run together only on the answer that they are
\* independent, given about the goals and checks they had when the batch was
\* selected.  The paths and components the question also shows may be older
\* ones (BatchJudgedAsOwned fails): what the tasks own is decided afresh.
BatchJudgedAsWorded ==
  \A i, j \in DOMAIN batch.parallel : i # j =>
    LET s == batch.parallel[i]
        t == batch.parallel[j]
    IN  \E k \in DOMAIN cache : /\ cache[k].verdict = "independent"
                                /\ Wording(cache[k].about) = Wording({s, t})

\* Tasks that run side by side share nothing they own and were judged
\* independent at the goals and checks they have now, however revisions and the
\* awaited questions of fillCouplingCache interleave.
BatchIndependent == BatchByOwnership /\ BatchJudgedAsWorded

\* CouplingCache as its comment has it, of everything the question is asked
\* about: a batch rests on answers about the ownership its tasks have now.  The
\* code breaks it: a change of ownership bumps no revision.
BatchJudgedAsOwned ==
  \A i, j \in DOMAIN batch.parallel : i # j =>
    \E k \in DOMAIN cache : cache[k].about = {batch.parallel[i], batch.parallel[j]}
=============================================================================
