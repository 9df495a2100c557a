----------------------------- MODULE PlanSchema -----------------------------
(***************************************************************************)
(* What the planner's documents must satisfy before they become tasks:     *)
(* the document's rules (workflow/plan-schema.ts), the dependency graph    *)
(* (workflow/graph.ts, the same search as plan-schema.ts has), the checks  *)
(* that can never fail (workflow/weak-checks.ts) and the size of one       *)
(* worker turn (workflow/output-budget.ts).                                *)
(*                                                                         *)
(* A document is unreadable, misshapen (a field of the wrong type, an      *)
(* empty or duplicate id), or has phases, each with its order, and tasks   *)
(* by their planner-local id.  Acceptance criteria change and are compared *)
(* together with the goal and the checks, and are not kept apart.          *)
(***************************************************************************)
EXTENDS Integers, Sequences, FiniteSets, FiniteSetsExt, SequencesExt, Functions

-----------------------------------------------------------------------------
(* Checks that can fail.  A command line is a sequence of segments: the     *)
(* operator that introduces it and whether its program can fail.            *)

\* Mutant: a swallowed failure still counts.
CommandCanFailAnywhere(line) == \E i \in DOMAIN line : line[i].can

\* Mutant: the last program decides, as after ; and |.
CommandCanFailLast(line) == line # << >> /\ Last(line).can

\* commandCanFail: from left to right, the last program deciding after ; and |.
CommandCanFail(line) ==
  LET Join(can, s) == CASE s.op = "&&" -> can \/ s.can
                        [] s.op = "||" -> can /\ s.can
                        [] OTHER       -> s.can
  IN  line # << >> /\ FoldLeft(Join, Head(line).can, Tail(line))

ExecutedKinds == {"command", "assertion", "lint", "typecheck"}

IsVerifyingCheck(c) ==
  IF c.kind \in ExecutedKinds THEN CommandCanFail(c.line)
                              ELSE c.kind = "human" /\ c.required

\* taskReadiness: the plan-time blocker of a task, none when it may become ready.
TaskReadiness(t) ==
  CASE t.checks = {} -> "no_checks"
    [] t.checks # {} /\ ~\E c \in t.checks : IsVerifyingCheck(c) -> "weak_check"
    [] OTHER -> "none"

-----------------------------------------------------------------------------
(* The dependency graph.  deps maps every node to the ones it depends on.   *)

RECURSIVE Visit(_, _, _)

\* One subtree of the depth-first search: a grey dependency closes a cycle
\* with the path down to it, a white one is visited.
Visit(n, deps, s) ==
  LET Follow(acc, d) ==
        CASE acc.colour[d] = "grey" ->
               LET from == CHOOSE i \in DOMAIN acc.path : acc.path[i] = d
               IN  [acc EXCEPT !.cycles = @ \cup {Range(SubSeq(acc.path, from, Len(acc.path)))}]
          [] acc.colour[d] = "white" -> Visit(d, deps, acc)
          [] OTHER -> acc
      entered == [s EXCEPT !.colour[n] = "grey", !.path = Append(@, n)]
      left == FoldLeft(Follow, entered, SetToSeq(deps[n] \cap DOMAIN deps))
  IN  [left EXCEPT !.colour[n] = "black", !.order = Append(@, n), !.path = Front(@)]

\* Mutant: the search starts at the first node only.
FindGraphCyclesRooted(deps) ==
  LET start == [colour |-> [n \in DOMAIN deps |-> "white"], path |-> << >>,
                cycles |-> {}, order |-> << >>]
  IN  IF DOMAIN deps = {} THEN start ELSE Visit(SetToSeq(DOMAIN deps)[1], deps, start)

\* findGraphCycles: the cycles met, and the nodes after their dependencies.
FindGraphCycles(deps) ==
  LET start == [colour |-> [n \in DOMAIN deps |-> "white"], path |-> << >>,
                cycles |-> {}, order |-> << >>]
      Root(s, n) == IF s.colour[n] = "white" THEN Visit(n, deps, s) ELSE s
  IN  FoldLeft(Root, start, SetToSeq(DOMAIN deps))

\* One finding of the validators.
Issue(rule, broken) == IF broken THEN {rule} ELSE {}

\* validateGraph, and validateDependencyGraph under other rule names: the
\* rules a graph breaks.
ValidateGraph(deps, orderOf) ==
  UNION {Issue("self_dependency", n \in deps[n])
         \cup Issue("unknown_dependency", ~(deps[n] \subseteq DOMAIN deps))
         \cup Issue("forward_phase_dependency",
                    \E d \in deps[n] \cap DOMAIN deps : orderOf[d] > orderOf[n]) :
         n \in DOMAIN deps}
  \cup Issue("dependency_cycle", FindGraphCycles(deps).cycles # {})

\* readySet: the candidates whose dependencies are done, outside any cycle.
ReadySet(tasks) ==
  LET inCycle == UNION FindGraphCycles([n \in DOMAIN tasks |-> tasks[n].deps]).cycles
  IN  {n \in DOMAIN tasks :
         /\ tasks[n].status \in {"proposed", "ready"}
         /\ n \notin inCycle
         /\ \A d \in tasks[n].deps : d \in DOMAIN tasks /\ tasks[d].status = "done"}

-----------------------------------------------------------------------------
(* The document *)

DenseOrders(phases) ==
  {phases[p] : p \in DOMAIN phases} = 0..(Cardinality(DOMAIN phases) - 1)

\* validateChecks: an executed check is a command line, not prose.
ChecksShaped(t) == \A c \in t.checks : c.kind \in ExecutedKinds => c.line # << >>

\* validateOwnership and checkRelativePath: no path leaves the repository.
DotDot == <<{"."}, {"."}>>
PathsShaped(t) == \A p \in t.paths : \A i \in DOMAIN p : p[i] # DotDot

\* validateArtifacts: an estimate is not negative.
ArtifactsShaped(t) == \A a \in t.artifacts : a.value >= 0

\* The fields and ids of a value that is no plan document.
ShapeIssues(doc) == Issue("type", doc.form = "misshapen")

\* validateTasks, for one task.
TaskIssues(doc, n) ==
  Issue("check_shape", ~ChecksShaped(doc.tasks[n]))
  \cup Issue("path_shape", ~PathsShaped(doc.tasks[n]))
  \cup Issue("range", ~ArtifactsShaped(doc.tasks[n]))
  \cup Issue("unknown_reference", doc.tasks[n].phase \notin DOMAIN doc.phases)
  \cup Issue("self_dependency", n \in doc.tasks[n].deps)

DocumentDeps(doc) == [n \in DOMAIN doc.tasks |-> doc.tasks[n].deps]

\* The order of each task's phase; a task of no phase is dropped before the
\* graph is looked at.
PhaseOrders(doc) ==
  [n \in DOMAIN doc.tasks |->
     IF doc.tasks[n].phase \in DOMAIN doc.phases THEN doc.phases[doc.tasks[n].phase] ELSE 0]

\* validateDependencyGraph, which has its own copy of the search.
ValidateDependencyGraph(doc) == ValidateGraph(DocumentDeps(doc), PhaseOrders(doc))

\* validatePlanDocument: every rule the document breaks.
ValidatePlanDocument(doc) ==
  IF doc.form = "misshapen" THEN ShapeIssues(doc)
  ELSE Issue("range", DOMAIN doc.tasks = {} \/ DOMAIN doc.phases = {})
       \cup Issue("phase_order", ~DenseOrders(doc.phases))
       \cup UNION {TaskIssues(doc, n) : n \in DOMAIN doc.tasks}
       \cup ValidateDependencyGraph(doc)

\* parsePlanOutput: the findings of an answer of the model.
ParsePlanOutput(doc) ==
  IF doc.form = "unreadable" THEN {"type"} ELSE ValidatePlanDocument(doc)

-----------------------------------------------------------------------------
(* One worker turn *)

AssumedMaxOutputTokens == 16384
TokensPerLine == 14

CeilDiv(a, b) == (a + b - 1) \div b

\* 3.5 bytes per token.
EstimateTokens(e) ==
  CASE e.unit = "tokens" -> e.value
    [] e.unit = "lines"  -> e.value * TokensPerLine
    [] e.unit = "bytes"  -> CeilDiv(2 * e.value, 7)

ThinkingReserve(max, thinking) ==
  CASE thinking = "off"    -> 0
    [] thinking = "low"    -> max \div 10
    [] thinking = "medium" -> max \div 4
    [] thinking = "high"   -> max \div 2

\* outputBudget: an unreported ceiling is the conservative one.
OutputBudget(limits) ==
  LET max == IF limits.maxTokens <= 0 THEN AssumedMaxOutputTokens ELSE limits.maxTokens
      usable == Max({1, max - ThinkingReserve(max, limits.thinking)})
  IN  [usable |-> usable, decomposeAbove |-> usable \div 2, warnAbove |-> usable \div 4]

\* sizeArtifact
SizeArtifact(a, budget) ==
  LET tokens == EstimateTokens(a)
  IN  CASE tokens > budget.decomposeAbove -> IF a.atomic THEN "flag" ELSE "decompose"
        [] tokens <= budget.decomposeAbove /\ tokens > budget.warnAbove -> "tight"
        [] OTHER -> "fits"

\* sizeTaskOutput: the worst verdict, and whether it must be split.
MustDecompose(t, limits) ==
  \E a \in t.artifacts : SizeArtifact(a, OutputBudget(limits)) \in {"decompose", "flag"}

\* Mutant: the steps are counted by rounding down.
PlanIncrementalStepsShort(a, limits) ==
  LET tokens == EstimateTokens(a)
      above == Max({1, OutputBudget(limits).decomposeAbove})
      steps == Max({1, tokens \div above})
      per == CeilDiv(tokens, steps)
  IN  [i \in 1..steps |-> Min({per, tokens - per * (i - 1)})]

\* planIncrementalSteps: the output tokens of the write and of each edit.
PlanIncrementalSteps(a, limits) ==
  LET tokens == EstimateTokens(a)
      above == Max({1, OutputBudget(limits).decomposeAbove})
      steps == Max({1, CeilDiv(tokens, above)})
      per == CeilDiv(tokens, steps)
  IN  [i \in 1..steps |-> Min({per, tokens - per * (i - 1)})]

\* tasksNeedingDecomposition over sizePlanTasks.
TasksNeedingDecomposition(doc, limits) ==
  {n \in DOMAIN doc.tasks : MustDecompose(doc.tasks[n], limits)}
=============================================================================
