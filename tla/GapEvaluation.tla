--------------------------- MODULE GapEvaluation ---------------------------
(***************************************************************************)
(* The evidence-gap evaluator (verification/evaluate.ts) as operators: one *)
(* criterion's finding from the deterministic mapping and Jev's answers,   *)
(* the conjunction over the criteria, and the decision row the task gate   *)
(* reads.  Confidences and probabilities are percentages.  Question        *)
(* wording, excerpts and usage figures are left out.                       *)
(***************************************************************************)
EXTENDS Integers, FiniteSets, FiniteSetsExt

\* EvaluatorThresholds and DEFAULT_EVALUATOR_THRESHOLDS.
TEST_EXERCISES_MIN_LEVEL == 2
DEFAULT_EVALUATOR_THRESHOLDS ==
  [low    |-> [claim |-> 60, gap |-> 35, level |-> TEST_EXERCISES_MIN_LEVEL,
               exercise |-> FALSE],
   medium |-> [claim |-> 70, gap |-> 25, level |-> TEST_EXERCISES_MIN_LEVEL,
               exercise |-> TRUE],
   high   |-> [claim |-> 80, gap |-> 15, level |-> TEST_EXERCISES_MIN_LEVEL + 1,
               exercise |-> TRUE]]
RiskClasses == DOMAIN DEFAULT_EVALUATOR_THRESHOLDS
NoOverride == [claim |-> 0, gap |-> 100, level |-> 0, exercise |-> FALSE]

Stricter(x, y, larger) == IF (x >= y) = larger THEN x ELSE y

\* thresholdsFor: an override only ever tightens a field.
ThresholdsFor(risk, over) ==
  LET base == DEFAULT_EVALUATOR_THRESHOLDS[risk] IN
  [claim    |-> Stricter(base.claim, over.claim, TRUE),
   gap      |-> Stricter(base.gap, over.gap, FALSE),
   level    |-> Stricter(base.level, over.level, TRUE),
   exercise |-> base.exercise \/ over.exercise]

-----------------------------------------------------------------------------
(* Answers.  An answer came from Jev, or is the question's fallback because *)
(* Jev abstained or was not available.                                      *)

Sources == {"jev", "abstained", "disabled"}
ClaimVerdicts == {"supported", "unsupported", "unknown"}

NOT_ASKED == [evaluated |-> FALSE, reason |-> "not_asked"]
ABSTAINED == [evaluated |-> FALSE, reason |-> "abstained"]
DISABLED == [evaluated |-> FALSE, reason |-> "jev_disabled"]
Evaluated(v) == [evaluated |-> TRUE, value |-> v]
NotEvaluated(a) == IF a.source = "abstained" THEN ABSTAINED ELSE DISABLED

\* The claim, the semantic gap and one test as askCriterionQuestions reads
\* them under the thresholds t.
ClaimOf(a, t) ==
  CASE a.source # "jev" -> NotEvaluated(a)
    [] a.source = "jev" /\ a.verdict = "supported" /\ a.conf < t.claim -> ABSTAINED
    [] OTHER -> Evaluated(a.verdict)
SemanticGapOf(a, t) ==
  CASE a.source # "jev" -> NotEvaluated(a)
    [] a.source = "jev" /\ a.value -> Evaluated(TRUE)
    [] a.source = "jev" /\ ~a.value /\ a.gapProbability <= t.gap -> Evaluated(FALSE)
    [] OTHER -> ABSTAINED
LevelOf(a) == IF a.source = "jev" THEN Evaluated(a.level) ELSE NotEvaluated(a)

\* creditTest
Exercises(a, t) == LevelOf(a).evaluated /\ LevelOf(a).value >= t.level

-----------------------------------------------------------------------------
(* One criterion. *)

\* mappingReasons, for a criterion whose linked checks have the states
\* checkStates and whose evidence rows have the states rowStates.
MappingReasons(checkStates, rowStates) ==
  (CASE checkStates = {} -> {"no_linked_check"}
     [] checkStates # {} /\ "pass" \notin checkStates -> {"no_passing_check"}
     [] OTHER -> {})
  \cup (IF "pass" \in rowStates THEN {} ELSE {"no_passing_evidence"})

ClaimReasons(c) ==
  CASE c.evaluated /\ c.value = "unsupported" -> {"claim_unsupported"}
    [] c.evaluated /\ c.value = "unknown" -> {"claim_unknown"}
    [] ~c.evaluated /\ c.reason = "abstained" -> {"jev_abstained"}
    [] OTHER -> {}
GapReasons(g) ==
  CASE g.evaluated /\ g.value -> {"jev_reports_gap"}
    [] ~g.evaluated /\ g.reason = "abstained" -> {"jev_abstained"}
    [] OTHER -> {}

\* evaluateCriterion with a Jev context: the mapping's reasons and those of
\* the answers.  The answers are read under the shipped thresholds of the
\* risk class (askCriterionQuestions), the credit of a test under the
\* configured ones.
CriterionReasons(mapping, answers, risk, over) ==
  LET shipped == ThresholdsFor(risk, NoOverride)
      t == ThresholdsFor(risk, over) IN
  mapping
    \cup ClaimReasons(ClaimOf(answers.claim, shipped))
    \cup GapReasons(SemanticGapOf(answers.gap, shipped))
    \cup (IF /\ t.exercise
             /\ answers.tests # {}
             /\ ~\E a \in answers.tests : Exercises(a, t)
          THEN {"no_exercising_test"} ELSE {})

\* The confidence of the finding: the least of the claim's and the tests'
\* answers that came from Jev, 0 (null) when there is none.
CriterionConfidence(answers) ==
  LET values == {a.conf : a \in {x \in {answers.claim} \cup answers.tests : x.source = "jev"}}
  IN IF values = {} THEN 0 ELSE Min(values)

\* evaluateEvidenceGap over the reasons of each criterion, and minConfidence.
NoGap(reasons) == DOMAIN reasons # {} /\ \A a \in DOMAIN reasons : reasons[a] = {}
EvaluationConfidence(confs) ==
  LET known == {c \in confs : c > 0} IN IF known = {} THEN 0 ELSE Min(known)

\* buildGateDecision: the fallback branch is recorded as an override by the
\* policy, without a confidence.  The hash is the caller's; `judged' is
\* history, the state the questions were asked about.
FallbackReasons == {"jev_disabled", "jev_no_key", "jev_unavailable"}
GateDecision(noGap, conf, fallback, hash, judged) ==
  [hash |-> hash,
   judged |-> judged,
   action |-> IF fallback \in FallbackReasons THEN "deterministic_fallback"
              ELSE IF noGap THEN "no_gap" ELSE "gap",
   conf |-> IF fallback \in FallbackReasons THEN 0 ELSE conf,
   override |-> fallback]
=============================================================================
