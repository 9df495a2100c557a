--------------------------- MODULE FailurePolicy ---------------------------
(***************************************************************************)
(* How a failed attempt is read and what may follow: the classification of *)
(* a turn (workers/truncation.ts), the attempt budget it is charged to     *)
(* (workflow/attempt-budget.ts, attempt-controller.ts), the rules that     *)
(* name a failure (workflow/failure.ts), the stall detector                *)
(* (workflow/stall.ts), and the bounded recovery ladder                    *)
(* (workflow/recovery.ts).  Everything here is a pure function.            *)
(*                                                                         *)
(* A FailureSignal is the set of marks a rule can find in it: a status, a  *)
(* code, a phrase.  Reasons and evidence requests are wording.             *)
(***************************************************************************)
EXTENDS Integers, Sequences, FiniteSets, Functions, SequencesExt

CONSTANT BudgetLimits   \* [maxAttempts, maxHarnessRetries, maxConsecutiveTruncations]
CONSTANT RecoveryConfig \* the caps of config.recovery and its two terminal answers
CONSTANT Stalling       \* StallThresholds

ASSUME FailurePolicyAssumption ==
  /\ BudgetLimits \in [{"maxAttempts", "maxHarnessRetries", "maxConsecutiveTruncations"}
                       -> Nat \ {0}]
  /\ {RecoveryConfig.finalResponse, RecoveryConfig.unreconcilable} \subseteq {"ask_user", "stop"}
  /\ {RecoveryConfig.maxAttemptsPerTask, RecoveryConfig.maxAttemptsPerPhase} \subseteq Nat \ {0}
  /\ RecoveryConfig.caps \in [{"gather_evidence", "replan", "fallback_model", "change_worker"}
                                -> Nat]
  /\ \A k \in DOMAIN Stalling : Stalling[k] \in Nat \ {0}
----------------------------------------------------------------------------
(* Turns and the attempt budget.                                           *)

\* What the supervisor saw of a turn: its stop reason, whether the deadline
\* killed it, whether the process exited with a code other than 0.
Observations == [length: BOOLEAN, killed: BOOLEAN, badExit: BOOLEAN]

ClassifyTurn(o) ==
  CASE o.length -> "truncated"
    [] ~o.length /\ o.killed -> "timeout"
    [] ~o.length /\ ~o.killed /\ o.badExit -> "transport_error"
    [] OTHER -> "none"

HarnessKinds == {"truncated", "timeout", "transport_error", "capped"}

EmptyBudget == [attemptsUsed |-> 0, harnessRetriesUsed |-> 0, consecutiveTruncations |-> 0]

\* Mutant: every turn is charged to the attempts.
ChargeEveryTurn(kind, b) ==
  [attemptsUsed |-> b.attemptsUsed + 1,
   harnessRetriesUsed |-> b.harnessRetriesUsed + (IF kind \in HarnessKinds THEN 1 ELSE 0),
   consecutiveTruncations |-> IF kind = "truncated" THEN b.consecutiveTruncations + 1 ELSE 0]

\* Mutant: a turn the gate judged starts the harness retries over.
ChargeRestarting(kind, b) ==
  [attemptsUsed |-> b.attemptsUsed + (IF kind \in HarnessKinds THEN 0 ELSE 1),
   harnessRetriesUsed |-> IF kind \in HarnessKinds THEN b.harnessRetriesUsed + 1 ELSE 0,
   consecutiveTruncations |-> IF kind = "truncated" THEN b.consecutiveTruncations + 1 ELSE 0]

Charge(kind, b) ==
  [attemptsUsed |-> b.attemptsUsed + (IF kind \in HarnessKinds THEN 0 ELSE 1),
   harnessRetriesUsed |-> b.harnessRetriesUsed + (IF kind \in HarnessKinds THEN 1 ELSE 0),
   consecutiveTruncations |-> IF kind = "truncated" THEN b.consecutiveTruncations + 1 ELSE 0]

\* The order of the tests is the code's: a harness failure never reaches the
\* attempt limit, and work that met no objection is judged, not counted out.
RecordTurn(kind, b) ==
  LET next == Charge(kind, b)
      harness == kind \in HarnessKinds
      Out(verdict, why) == [state |-> next, next |-> verdict, failure |-> why]
  IN CASE kind = "truncated"
          /\ next.consecutiveTruncations >= BudgetLimits.maxConsecutiveTruncations ->
            Out("fail", "persistent_truncation")
       [] harness /\ ~(kind = "truncated"
             /\ next.consecutiveTruncations >= BudgetLimits.maxConsecutiveTruncations) ->
            IF next.harnessRetriesUsed >= BudgetLimits.maxHarnessRetries
            THEN Out("fail", "harness_limit") ELSE Out("retry", "none")
       [] kind = "none" -> Out("judge", "none")
       [] ~harness /\ kind # "none" ->
            IF next.attemptsUsed >= BudgetLimits.maxAttempts
            THEN Out("fail", "attempt_limit") ELSE Out("retry", "none")

\* settleTurn: the gate is heard only on a turn that is not a harness failure.
SettleTurn(o, gatePassed, b) ==
  LET turn == ClassifyTurn(o)
      kind == IF turn = "none" /\ ~gatePassed THEN "gap" ELSE turn
  IN [kind |-> kind, budget |-> RecordTurn(kind, b)]
----------------------------------------------------------------------------
(* Naming a failure.                                                       *)

\* FAILURE_RULES, in order; the first whose mark is in the signal decides.
FAILURE_RULES ==
  << <<"http_429", "quota">>, <<"http_402", "quota">>, <<"quota_phrase", "quota">>,
     <<"http_5xx", "service">>, <<"service_code", "service">>,
     <<"service_phrase", "service">>, <<"check_unavailable", "environment">>,
     <<"command_not_found", "environment">>, <<"environment_code", "environment">>,
     <<"dependency_phrase", "dependency">>,
     <<"test_expectation_phrase", "test_expectation">>,
     <<"missing_information_marker", "missing_information">>,
     <<"compile_error", "implementation">> >>

Marks == {rule[1] : rule \in Range(FAILURE_RULES)}
FAILURE_CATEGORIES == {rule[2] : rule \in Range(FAILURE_RULES)} \cup {"harness", "unknown"}

\* The first of the positions that qualify.
First(indices) == CHOOSE i \in indices : \A j \in indices : i <= j

\* classifyFailureByRules.  turn is the kind of the turn, or "unobserved".
ClassifyByRules(turn, marks) ==
  LET hits == {i \in DOMAIN FAILURE_RULES : FAILURE_RULES[i][1] \in marks}
  IN CASE turn = "capped" -> "quota"
       [] turn \in HarnessKinds \ {"capped"} -> "harness"
       [] turn \notin HarnessKinds /\ hits # {} -> FAILURE_RULES[First(hits)][2]
       [] OTHER -> "unknown"

\* classifyFailureWithJev: Jev is asked only about what no rule matched, and
\* an answer that did not come from Jev, or says unknown, stays unknown.
ClassifyWithJev(turn, marks, answer) ==
  LET ruled == ClassifyByRules(turn, marks)
  IN IF ruled # "unknown" THEN ruled
     ELSE IF answer.source = "jev" THEN answer.value ELSE "unknown"

\* quotaEventFor: only a quota failure caps the route it happened on.
QuotaEvents(category, route) == IF category = "quota" THEN {route} ELSE {}
----------------------------------------------------------------------------
(* Stalls.                                                                 *)

\* An attempt as the detector sees it: its failing checks with their
\* signatures, the checks that pass, which of those can fail, the fingerprint
\* of its approach, whether files changed, tool calls, writes outside.
EmptyStall == [failures |-> <<>>, approaches |-> <<>>, streak |-> 0,
               lastFailing |-> {}, fired |-> {}]

\* How often v occurs in s.
Times(s, v) == Cardinality({i \in DOMAIN s : s[i] = v})

AttemptMadeProgress(a, lastFailing) ==
  a.filesChanged \/ \E c \in a.passing : c \in lastFailing /\ c \in a.verifying

ObserveAttempt(st, a) ==
  LET harness == a.kind \in HarnessKinds
      failures == IF harness THEN st.failures ELSE st.failures \o SetToSeq(a.signatures)
      approaches == IF a.fingerprint = "none" THEN st.approaches
                    ELSE Append(st.approaches, a.fingerprint)
      grown == IF harness \/ AttemptMadeProgress(a, st.lastFailing) THEN 0 ELSE st.streak + 1
      churned == ~a.filesChanged /\ a.toolCalls >= Stalling.toolCallsWithoutChange /\ ~harness
      stalled == {k \in {"repeated_failure", "repeated_approach", "no_progress", "scope_drift"} :
                    CASE k = "repeated_failure" ->
                           ~harness /\ \E s \in a.signatures :
                                         Times(failures, s) >= Stalling.repeatedFailures
                      [] k = "repeated_approach" ->
                           /\ a.fingerprint # "none"
                           /\ Times(approaches, a.fingerprint) >= Stalling.repeatedApproaches
                      [] k = "no_progress" -> grown >= Stalling.noProgressAttempts \/ churned
                      [] k = "scope_drift" -> a.drifts}
      events == stalled \ st.fired
      byChurn == "no_progress" \in events /\ grown < Stalling.noProgressAttempts
  IN [state |-> [failures |-> failures, approaches |-> approaches,
                 streak |-> IF byChurn THEN grown + 1 ELSE grown,
                 lastFailing |-> a.failing, fired |-> st.fired \cup events],
      events |-> events]
----------------------------------------------------------------------------
(* Recovery.                                                               *)

RECOVERY_LADDERS ==
  [c \in FAILURE_CATEGORIES |->
     CASE c = "implementation" -> <<"retry", "fallback_model", "request_review">>
       [] c \in {"environment", "unknown"} -> <<"gather_evidence">>
       [] c = "missing_information" -> <<>>
       [] c = "dependency" -> <<"retry", "replan">>
       [] c = "test_expectation" -> <<"replan", "request_review">>
       [] c \in {"service", "quota"} -> <<"fallback_model">>
       [] c = "harness" -> <<"retry", "change_worker">>]

TERMINAL_RESPONSES == {"ask_user", "stop"}

Used(log, response) == Times([i \in DOMAIN log |-> log[i].response], response)

\* Mutant: a response is given once more than its cap.
ResponseWithinCap(response, log) ==
  response \in DOMAIN RecoveryConfig.caps =>
    Used(log, response) <= RecoveryConfig.caps[response]

\* responseAvailable, over the usage usageFromLog reads back.
ResponseAvailable(response, log) ==
  response \in DOMAIN RecoveryConfig.caps =>
    Used(log, response) < RecoveryConfig.caps[response]

\* Mutant: only an effect known to have happened is held back.
RetryUnlessApplied(outcome) == outcome \notin {"already_applied", "partially_applied"}

RetryPermittedAfter(outcome) == outcome \in {"none", "not_applied"}

\* reconcileStep: the receipt first, then a probe; a probe that is missing or
\* throws leaves the effect unknown.
ReconcileStep(step, receipt, probe) ==
  CASE ~step.sideEffect -> "none"
    [] step.sideEffect /\ step.actionId /\ receipt -> "already_applied"
    [] step.sideEffect /\ ~(step.actionId /\ receipt) ->
         CASE probe = "applied" -> "already_applied"
           [] probe = "absent" -> "not_applied"
           [] probe = "partial" -> "partially_applied"
           [] OTHER -> "unknown"

EscalationOffset(stalls) ==
  IF stalls \cap {"repeated_approach", "no_progress", "repeated_failure"} # {} THEN 1 ELSE 0

MaxAttemptsFor(kind) ==
  IF kind = "phase" THEN RecoveryConfig.maxAttemptsPerPhase
  ELSE RecoveryConfig.maxAttemptsPerTask

\* The rungs the loop of chooseRecovery would take, from the first it tries;
\* below the first rung ladder[-1] is undefined and the loop breaks at once.
OpenRungs(category, attemptsUsed, stalls, log) ==
  LET ladder == RECOVERY_LADDERS[category]
      from == attemptsUsed + EscalationOffset(stalls)
  IN IF from < 1 THEN {}
     ELSE {i \in from..Len(ladder) : ResponseAvailable(ladder[i], log)}

\* chooseRecovery.  in: category, needsEvidence, attemptsUsed, subject, stalls,
\* effect (a verdict of ReconcileStep, or "no_step").
ChooseRecovery(in, log) ==
  LET rungs == OpenRungs(in.category, in.attemptsUsed, in.stalls, log)
      doubtful == in.category = "unknown" \/ in.needsEvidence
      held == in.effect # "no_step" /\ ~RetryPermittedAfter(in.effect)
  IN CASE in.attemptsUsed >= MaxAttemptsFor(in.subject) -> RecoveryConfig.finalResponse
       [] in.attemptsUsed < MaxAttemptsFor(in.subject) /\ held -> RecoveryConfig.unreconcilable
       [] in.attemptsUsed < MaxAttemptsFor(in.subject) /\ ~held ->
            CASE doubtful /\ ResponseAvailable("gather_evidence", log) -> "gather_evidence"
              [] ~doubtful /\ rungs # {} ->
                   RECOVERY_LADDERS[in.category][First(rungs)]
              [] OTHER -> RecoveryConfig.finalResponse
============================================================================
