------------------------- MODULE AttemptLoopProofs -------------------------
(***************************************************************************)
(* The loops around a task's attempts for any limits, failures, stalls and *)
(* steps: no effect is repeated, and both loops stop within their budgets  *)
(* and are charged for what they did.                                      *)
(***************************************************************************)
EXTENDS AttemptLoop, FiniteSetTheorems, TLAPS

-----------------------------------------------------------------------------
(* Lemmas about the policy *)

LEMMA Categories ==
  FAILURE_CATEGORIES = {"quota", "service", "environment", "dependency", "test_expectation",
                        "missing_information", "implementation", "harness", "unknown"}
<1>1. Range(FAILURE_RULES) = {FAILURE_RULES[i] : i \in 1..13}
  BY DEF Range, FAILURE_RULES
<1> QED
  BY <1>1 DEF FAILURE_CATEGORIES, FAILURE_RULES

\* RecoveryResponse
Responses == {"retry", "fallback_model", "request_review", "gather_evidence", "replan",
              "change_worker"} \cup TERMINAL_RESPONSES

\* Every ladder is short and of listed responses, and retry is never but its
\* first rung.
LEMMA Ladders ==
  ASSUME NEW c \in FAILURE_CATEGORIES
  PROVE  /\ Len(RECOVERY_LADDERS[c]) \in 0..3
         /\ \A i \in 1..Len(RECOVERY_LADDERS[c]) :
              /\ RECOVERY_LADDERS[c][i] \in Responses
              /\ RECOVERY_LADDERS[c][i] = "retry" => i = 1
<1> DEFINE ladders == {<<"retry", "fallback_model", "request_review">>, <<"gather_evidence">>,
                       <<>>, <<"retry", "replan">>, <<"replan", "request_review">>,
                       <<"fallback_model">>, <<"retry", "change_worker">>}
<1>1. RECOVERY_LADDERS[c] \in ladders
  BY Categories DEF RECOVERY_LADDERS
<1>2. ASSUME NEW l \in ladders
      PROVE  /\ Len(l) \in 0..3
             /\ \A i \in 1..Len(l) : l[i] \in Responses /\ (l[i] = "retry" => i = 1)
  BY DEF Responses
<1> QED
  BY <1>1, <1>2

LEMMA FirstOf ==
  ASSUME NEW S \in SUBSET Nat, S # {}
  PROVE  First(S) \in S
<1>1. PICK i \in S : \A j \in S : ~(<<j, i>> \in OpToRel(<, Nat))
  BY NatLessThanWellFounded, WFMin
<1>2. \A j \in S : j < i => <<j, i>> \in OpToRel(<, Nat)
  BY DEF OpToRel
<1>3. \A j \in S : ~(j < i)
  BY <1>1, <1>2, Zenon
<1>4. \A j \in S : i <= j
  BY <1>3
<1> QED
  BY <1>4 DEF First

\* A classification is one of the categories, whoever made it.
LEMMA ClassifiedCategory ==
  ASSUME NEW s \in Signals
  PROVE  ClassifyWithJev(s.turn, s.marks, s.answer) \in FAILURE_CATEGORIES
<1> DEFINE hits == {i \in DOMAIN FAILURE_RULES : FAILURE_RULES[i][1] \in s.marks}
<1>1. hits \in SUBSET (1..13)
  BY DEF FAILURE_RULES
<1>2. \A i \in 1..13 : FAILURE_RULES[i][2] \in FAILURE_CATEGORIES
  BY Categories DEF FAILURE_RULES
<1>3. hits # {} => FAILURE_RULES[First(hits)][2] \in FAILURE_CATEGORIES
  <2> HIDE DEF hits
  <2>1. hits \in SUBSET Nat
    BY <1>1
  <2>2. hits # {} => First(hits) \in hits
    BY <2>1, FirstOf
  <2> QED
    BY <1>1, <1>2, <2>2
<1>4. ClassifyByRules(s.turn, s.marks) \in FAILURE_CATEGORIES
  <2> HIDE DEF hits
  <2>1. ClassifyByRules(s.turn, s.marks)
          = CASE s.turn = "capped" -> "quota"
              [] s.turn \in HarnessKinds \ {"capped"} -> "harness"
              [] s.turn \notin HarnessKinds /\ hits # {} -> FAILURE_RULES[First(hits)][2]
              [] OTHER -> "unknown"
    BY DEF ClassifyByRules, hits
  <2> QED
    BY <1>3, <2>1, Categories DEF HarnessKinds
<1> QED
  BY <1>4, AttemptLoopAssumption, Categories DEF ClassifyWithJev

\* How often a response was given, counted along the log.
LEMMA UsedEmpty == ASSUME NEW r PROVE Used(<<>>, r) = 0
<1>1. {i \in DOMAIN [j \in DOMAIN <<>> |-> <<>>[j].response] :
         [j \in DOMAIN <<>> |-> <<>>[j].response][i] = r} = {}
  OBVIOUS
<1> QED
  BY <1>1, FS_EmptySet DEF Used, Times

Positions(l, r) == {i \in 1..Len(l) : l[i].response = r}

LEMMA UsedIs ==
  ASSUME NEW S, NEW l \in Seq(S), NEW r
  PROVE  /\ Used(l, r) = Cardinality(Positions(l, r))
         /\ IsFiniteSet(Positions(l, r))
         /\ Used(l, r) \in Nat
<1> DEFINE responses == [i \in DOMAIN l |-> l[i].response]
<1>1. {i \in DOMAIN responses : responses[i] = r} = Positions(l, r)
  BY DEF Positions
<1>2. IsFiniteSet(Positions(l, r))
  <2>1. Positions(l, r) \in SUBSET (1..Len(l)) /\ IsFiniteSet(1..Len(l))
    BY FS_Interval DEF Positions
  <2> QED
    BY <2>1, FS_Subset
<1>3. Used(l, r) = Cardinality(Positions(l, r))
  BY <1>1 DEF Used, Times
<1> QED
  BY <1>2, <1>3, FS_CardinalityType

LEMMA UsedAppend ==
  ASSUME NEW S, NEW l \in Seq(S), NEW e \in S, NEW r
  PROVE  Used(Append(l, e), r) = Used(l, r) + (IF e.response = r THEN 1 ELSE 0)
<1> DEFINE m == Append(l, e)
           n == Len(l) + 1
<1>1. m \in Seq(S) /\ Len(m) = n /\ m[n] = e /\ \A i \in 1..Len(l) : m[i] = l[i]
  OBVIOUS
<1>2. n \notin Positions(l, r)
  BY DEF Positions
<1>3. Positions(m, r) = IF e.response = r THEN Positions(l, r) \cup {n} ELSE Positions(l, r)
  <2> HIDE DEF m
  <2> QED
    BY <1>1 DEF Positions
<1> HIDE DEF m
<1>4. /\ Used(m, r) = Cardinality(Positions(m, r))
      /\ Used(l, r) = Cardinality(Positions(l, r))
      /\ IsFiniteSet(Positions(l, r))
      /\ Used(l, r) \in Nat
  BY <1>1, UsedIs
<1>5. CASE e.response = r
  <2>1. Cardinality(Positions(l, r) \cup {n}) = Cardinality(Positions(l, r)) + 1
    BY <1>2, <1>4, FS_AddElement
  <2> QED
    BY <1>3, <1>4, <1>5, <2>1 DEF m
<1>6. CASE e.response # r
  BY <1>3, <1>4, <1>6 DEF m
<1> QED
  BY <1>5, <1>6

\* What an answer of chooseRecovery that does not end the recovery says: the
\* attempts are not spent, the step may run again, the evidence was still to be
\* had, and retry answers the first attempt only.
LEMMA AnswerCharged ==
  ASSUME NEW in, NEW l,
         in.category \in FAILURE_CATEGORIES, in.attemptsUsed \in Nat, in.subject = "task",
         in.effect # "no_step"
  PROVE  /\ ChooseRecovery(in, l) \in Responses
         /\ ChooseRecovery(in, l) \notin TERMINAL_RESPONSES =>
              /\ in.attemptsUsed < RecoveryConfig.maxAttemptsPerTask
              /\ RetryPermittedAfter(in.effect)
         /\ ChooseRecovery(in, l) = "gather_evidence" => ResponseAvailable("gather_evidence", l)
         /\ ChooseRecovery(in, l) = "retry" => in.attemptsUsed <= 1
<1> DEFINE rungs == OpenRungs(in.category, in.attemptsUsed, in.stalls, l)
           ladder == RECOVERY_LADDERS[in.category]
           doubtful == in.category = "unknown" \/ in.needsEvidence
           held == in.effect # "no_step" /\ ~RetryPermittedAfter(in.effect)
           limit == RecoveryConfig.maxAttemptsPerTask
           r == ChooseRecovery(in, l)
<1>1. limit \in Nat /\ {RecoveryConfig.finalResponse, RecoveryConfig.unreconcilable} \subseteq TERMINAL_RESPONSES
  BY FailurePolicyAssumption DEF TERMINAL_RESPONSES
<1>2. /\ rungs \in SUBSET Nat
      /\ \A i \in rungs : in.attemptsUsed <= i /\ i \in 1..Len(ladder)
                          /\ ResponseAvailable(ladder[i], l)
  <2>1. EscalationOffset(in.stalls) \in {0, 1} /\ Len(ladder) \in Nat
    BY Ladders DEF EscalationOffset
  <2> HIDE DEF ladder
  <2>2. rungs = IF in.attemptsUsed + EscalationOffset(in.stalls) < 1 THEN {}
                ELSE {i \in (in.attemptsUsed + EscalationOffset(in.stalls))..Len(ladder) :
                        ResponseAvailable(ladder[i], l)}
    BY DEF OpenRungs, ladder
  <2> HIDE DEF rungs
  <2> QED
    BY <2>1, <2>2
<1> HIDE DEF rungs, ladder, limit, r
<1>3. r = CASE in.attemptsUsed >= limit -> RecoveryConfig.finalResponse
            [] in.attemptsUsed < limit /\ held -> RecoveryConfig.unreconcilable
            [] in.attemptsUsed < limit /\ ~held ->
                 CASE doubtful /\ ResponseAvailable("gather_evidence", l) -> "gather_evidence"
                   [] ~doubtful /\ rungs # {} -> ladder[First(rungs)]
                   [] OTHER -> RecoveryConfig.finalResponse
  BY DEF r, ChooseRecovery, MaxAttemptsFor, limit, rungs, ladder
<1> HIDE DEF doubtful
<1>4. CASE r \in TERMINAL_RESPONSES
  BY <1>4 DEF r, Responses, TERMINAL_RESPONSES
<1>5. ASSUME r \notin TERMINAL_RESPONSES PROVE in.attemptsUsed < limit /\ ~held
  BY <1>1, <1>3, <1>5
<1>6. ASSUME r \notin TERMINAL_RESPONSES
      PROVE  \/ r = "gather_evidence" /\ ResponseAvailable("gather_evidence", l)
             \/ rungs # {} /\ r = ladder[First(rungs)]
  BY <1>1, <1>3, <1>5, <1>6
<1>7. CASE r \notin TERMINAL_RESPONSES /\ rungs # {} /\ r = ladder[First(rungs)]
  <2>1. First(rungs) \in rungs
    BY <1>2, <1>7, FirstOf
  <2>2. r \in Responses /\ (r = "retry" => First(rungs) = 1)
    BY <1>2, <1>7, <2>1, Ladders DEF ladder
  <2> QED
    BY <1>2, <1>5, <1>7, <2>1, <2>2 DEF r, limit
<1>8. CASE r = "gather_evidence" /\ ResponseAvailable("gather_evidence", l)
  <2>1. r \in Responses \ TERMINAL_RESPONSES
    BY <1>8 DEF Responses, TERMINAL_RESPONSES
  <2> QED
    BY <1>5, <1>8, <2>1 DEF r, limit
<1> QED
  BY <1>4, <1>6, <1>7, <1>8

\* An effect that landed is seen: the step is held back whatever the receipt
\* and the probe have lost.
LEMMA LandedIsHeld ==
  ASSUME NEW p \in ProbeAnswers, effects \in Nat \ {0}, step.sideEffect
  PROVE  ~RetryPermittedAfter(ReconcileStep(step, receipt, p))
BY DEF ProbeAnswers, RetryPermittedAfter, ReconcileStep

-----------------------------------------------------------------------------
(* The inductive invariant, in three parts that do not depend on each other:
   the effect of the step, the budget of the turns, the log of the answers.  *)

\* An attempt, and the gathering of evidence, start with no effect landed.
EffectInv ==
  /\ effects \in {0, 1}
  /\ effects > 0 => step.sideEffect
  /\ phase \in {"attempt", "gathering"} => effects = 0

\* Every turn is charged to one of the two budgets, and the loop goes on only
\* below both limits.
BudgetInv ==
  /\ budget.state.attemptsUsed \in Nat
  /\ budget.state.harnessRetriesUsed \in Nat
  /\ turns.judged = budget.state.attemptsUsed
  /\ turns.taken = budget.state.attemptsUsed + budget.state.harnessRetriesUsed
  /\ turns.taken < BudgetLimits.maxAttempts + BudgetLimits.maxHarnessRetries
  /\ budget.failure = "attempt_limit" => budget.state.attemptsUsed = BudgetLimits.maxAttempts
  /\ phase = "attempt" \/ loop = "recovery" =>
       /\ budget.state.attemptsUsed < BudgetLimits.maxAttempts
       /\ budget.state.harnessRetriesUsed < BudgetLimits.maxHarnessRetries

Rows == [response: Responses, category: FAILURE_CATEGORIES]
Gathers == Used(log, "gather_evidence")
Retries == Used(log, "retry")
GatherCap == RecoveryConfig.caps["gather_evidence"]
Ceiling == RecoveryConfig.maxAttemptsPerTask

\* Every answer is paid for by the attempt it follows or is a gathering, and a
\* retry was given after the first attempt.
LogInv ==
  /\ attempts \in Nat
  /\ category \in FAILURE_CATEGORIES
  /\ log \in Seq(Rows)
  /\ Gathers <= GatherCap
  /\ Retries <= 1
  /\ Retries > 0 => attempts >= 1
  /\ Len(log) <= Ceiling + GatherCap
  /\ phase = "attempt" => Len(log) = attempts + Gathers /\ attempts < Ceiling
  /\ phase \in {"failed", "gathering"} =>
       /\ Len(log) + 1 = attempts + Gathers
       /\ 1 <= attempts /\ attempts <= Ceiling
       /\ Retries > 0 => attempts >= 2

IInv == loop \in {"turns", "recovery"} /\ EffectInv /\ BudgetInv /\ LogInv

LEMMA ConstantsTyped ==
  /\ {BudgetLimits.maxAttempts, BudgetLimits.maxHarnessRetries} \subseteq Nat \ {0}
  /\ Ceiling \in Nat \ {0}
  /\ GatherCap \in Nat
  /\ "gather_evidence" \in DOMAIN RecoveryConfig.caps
BY FailurePolicyAssumption DEF Ceiling, GatherCap

LEMMA InitIInv == Init => IInv
<1> SUFFICES ASSUME Init PROVE IInv
  OBVIOUS
<1> USE ConstantsTyped
<1>1. EffectInv
  BY DEF Init, EffectInv
<1>2. BudgetInv
  BY DEF Init, EmptyBudget, BudgetInv
<1>3. LogInv
  BY UsedEmpty, Categories DEF Init, LogInv, Gathers, Retries
<1> QED
  BY <1>1, <1>2, <1>3, AttemptLoopAssumption DEF Init, IInv

\* What recordTurn decides, for any kind of turn: it charges one budget, and
\* goes on only below its limit.
LEMMA TurnCharged ==
  ASSUME NEW kind, NEW b, b.attemptsUsed \in Nat, b.harnessRetriesUsed \in Nat
  PROVE  LET r == RecordTurn(kind, b)
         IN  /\ r.state = Charge(kind, b)
             /\ r.next \in {"fail", "judge", "retry"}
             /\ r.next = "retry" =>
                  IF kind \in HarnessKinds
                    THEN r.state.harnessRetriesUsed < BudgetLimits.maxHarnessRetries
                    ELSE r.state.attemptsUsed < BudgetLimits.maxAttempts
             /\ r.failure = "attempt_limit" =>
                  kind \notin HarnessKinds /\ r.state.attemptsUsed >= BudgetLimits.maxAttempts
<1> DEFINE next == Charge(kind, b)
           harness == kind \in HarnessKinds
           persistent == kind = "truncated"
                           /\ next.consecutiveTruncations >= BudgetLimits.maxConsecutiveTruncations
           Out(verdict, why) == [state |-> next, next |-> verdict, failure |-> why]
<1>1. kind \in {"truncated", "none"} => (harness <=> kind = "truncated")
  BY DEF HarnessKinds
<1>2. RecordTurn(kind, b) =
        CASE persistent -> Out("fail", "persistent_truncation")
          [] harness /\ ~persistent ->
               IF next.harnessRetriesUsed >= BudgetLimits.maxHarnessRetries
               THEN Out("fail", "harness_limit") ELSE Out("retry", "none")
          [] kind = "none" -> Out("judge", "none")
          [] ~harness /\ kind # "none" ->
               IF next.attemptsUsed >= BudgetLimits.maxAttempts
               THEN Out("fail", "attempt_limit") ELSE Out("retry", "none")
  BY DEF RecordTurn
<1>3. next.attemptsUsed \in Nat /\ next.harnessRetriesUsed \in Nat
  BY DEF Charge
<1> HIDE DEF next, persistent
<1> QED
  BY <1>1, <1>2, <1>3, ConstantsTyped DEF next

LEMMA TurnIInv ==
  ASSUME IInv, NEW o \in Observations, NEW gatePassed \in BOOLEAN, Turn(o, gatePassed)
  PROVE  IInv'
<1> USE ConstantsTyped
<1> DEFINE turn == ClassifyTurn(o)
           kind == IF turn = "none" /\ ~gatePassed THEN "gap" ELSE turn
           r == RecordTurn(kind, budget.state)
<1>1. (kind \in HarnessKinds) <=> (turn \in HarnessKinds)
  BY DEF HarnessKinds
<1>2. /\ loop = "turns" /\ phase = "attempt"
      /\ budget' = [state |-> r.state, failure |-> r.failure]
      /\ phase' = CASE r.next = "fail" -> "ended"
                    [] r.next = "judge" -> "passed"
                    [] r.next = "retry" -> "attempt"
      /\ turns' = [taken |-> turns.taken + 1,
                   judged |-> turns.judged + (IF turn \in HarnessKinds THEN 0 ELSE 1)]
      /\ UNCHANGED <<loop, attempts, category, stall, log, step, effects, whole, receipt>>
  BY DEF Turn, SettleTurn
<1>3. /\ r.state = Charge(kind, budget.state)
      /\ r.next \in {"fail", "judge", "retry"}
      /\ r.next = "retry" =>
           IF kind \in HarnessKinds
             THEN r.state.harnessRetriesUsed < BudgetLimits.maxHarnessRetries
             ELSE r.state.attemptsUsed < BudgetLimits.maxAttempts
      /\ r.failure = "attempt_limit" =>
           kind \notin HarnessKinds /\ r.state.attemptsUsed >= BudgetLimits.maxAttempts
  BY TurnCharged DEF IInv, BudgetInv
<1>4. /\ r.state.attemptsUsed = budget.state.attemptsUsed + (IF kind \in HarnessKinds THEN 0 ELSE 1)
      /\ r.state.harnessRetriesUsed
           = budget.state.harnessRetriesUsed + (IF kind \in HarnessKinds THEN 1 ELSE 0)
  BY <1>3 DEF Charge
<1> HIDE DEF turn, kind, r
<1>5. phase' \in {"ended", "passed", "attempt"} /\ (phase' = "attempt" => r.next = "retry")
  BY <1>2, <1>3
<1>6. BudgetInv'
  BY <1>1, <1>2, <1>3, <1>4, <1>5 DEF IInv, BudgetInv
<1>7. EffectInv'
  BY <1>2, <1>5 DEF IInv, EffectInv
<1>8. LogInv'
  BY <1>2, <1>5 DEF IInv, LogInv, Gathers, Retries
<1> QED
  BY <1>2, <1>6, <1>7, <1>8 DEF IInv

\* A step of the other loop, which takes no turns.
LEMMA BudgetKept ==
  ASSUME IInv, UNCHANGED <<budget, turns, loop>>,
         phase' = "attempt" => loop = "recovery" \/ phase = "attempt"
  PROVE  BudgetInv'
BY DEF IInv, BudgetInv

LEMMA FailAttemptIInv ==
  ASSUME IInv, NEW s \in Signals, NEW a \in Attempts, NEW landed \in {"no", "partly", "wholly"},
         NEW recorded \in BOOLEAN, FailAttempt(s, a, landed, recorded)
  PROVE  IInv'
<1>1. /\ phase = "attempt" /\ phase' = "failed"
      /\ attempts' = attempts + 1
      /\ effects' = effects + (IF landed = "no" THEN 0 ELSE 1)
      /\ landed # "no" => step.sideEffect
      /\ category' \in FAILURE_CATEGORIES
      /\ UNCHANGED <<loop, budget, turns, log, step>>
  BY ClassifiedCategory DEF FailAttempt
<1>2. EffectInv'
  BY <1>1 DEF IInv, EffectInv
<1>3. BudgetInv'
  BY <1>1, BudgetKept
<1>4. LogInv'
  <2>1. Gathers' = Gathers /\ Retries' = Retries /\ Len(log') = Len(log)
    BY <1>1 DEF Gathers, Retries
  <2>2. Gathers \in Nat /\ Retries \in Nat /\ Len(log) \in Nat
    BY UsedIs DEF IInv, LogInv, Gathers, Retries
  <2> QED
    BY <1>1, <2>1, <2>2, ConstantsTyped DEF IInv, LogInv
<1> QED
  BY <1>1, <1>2, <1>3, <1>4 DEF IInv

LEMMA RecoverIInv ==
  ASSUME IInv, NEW p \in ProbeAnswers, RecoverFromFailure(p)
  PROVE  IInv'
<1> USE ConstantsTyped
<1> DEFINE in == [category |-> category, needsEvidence |-> category = "unknown",
                  attemptsUsed |-> attempts, subject |-> "task", stalls |-> stall.fired,
                  effect |-> ReconcileStep(step, receipt, p)]
           r == ChooseRecovery(in, log)
           row == [response |-> r, category |-> category]
<1>1. /\ loop = "recovery" /\ phase = "failed"
      /\ log' = Append(log, row)
      /\ phase' = CASE r \in TERMINAL_RESPONSES -> "ended"
                    [] r = "gather_evidence" -> "gathering"
                    [] OTHER -> "attempt"
      /\ UNCHANGED <<loop, budget, turns, attempts, category, stall, step, effects, whole, receipt>>
  BY DEF RecoverFromFailure
<1>2. ReconcileStep(step, receipt, p) # "no_step"
  BY DEF ReconcileStep
<1>3. /\ r \in Responses
      /\ r \notin TERMINAL_RESPONSES =>
           attempts < Ceiling /\ RetryPermittedAfter(ReconcileStep(step, receipt, p))
      /\ r = "gather_evidence" => ResponseAvailable("gather_evidence", log)
      /\ r = "retry" => attempts <= 1
  <2>1. /\ in.category = category /\ in.attemptsUsed = attempts /\ in.subject = "task"
        /\ in.effect = ReconcileStep(step, receipt, p)
    OBVIOUS
  <2>2. category \in FAILURE_CATEGORIES /\ attempts \in Nat
    BY DEF IInv, LogInv
  <2> HIDE DEF in
  <2> QED
    BY <1>2, <2>1, <2>2, AnswerCharged DEF Ceiling
<1> HIDE DEF in, r
<1>4. row \in Rows
  BY <1>3 DEF IInv, LogInv, Rows
<1>5. /\ Gathers' = Gathers + (IF r = "gather_evidence" THEN 1 ELSE 0)
      /\ Retries' = Retries + (IF r = "retry" THEN 1 ELSE 0)
      /\ Gathers \in Nat /\ Retries \in Nat /\ Len(log) \in Nat
      /\ Len(log') = Len(log) + 1 /\ log' \in Seq(Rows)
  BY <1>1, <1>4, UsedAppend, UsedIs DEF IInv, LogInv, Gathers, Retries
<1>6. r = "gather_evidence" => Gathers < GatherCap
  BY <1>3 DEF ResponseAvailable, Gathers, GatherCap
<1>7. /\ phase' \in {"ended", "gathering", "attempt"}
      /\ phase' # "ended" => r \notin TERMINAL_RESPONSES
      /\ phase' = "gathering" <=> r = "gather_evidence"
  BY <1>1 DEF TERMINAL_RESPONSES
<1>8. EffectInv'
  <2>1. effects > 0 => phase' = "ended"
    BY <1>3, <1>7, LandedIsHeld DEF IInv, EffectInv
  <2> QED
    BY <1>1, <1>7, <2>1 DEF IInv, EffectInv
<1>9. BudgetInv'
  BY <1>1, BudgetKept
<1>10. LogInv'
  <2> HIDE DEF row
  <2>1. /\ attempts \in Nat /\ 1 <= attempts /\ attempts <= Ceiling
        /\ Len(log) + 1 = attempts + Gathers
        /\ Gathers <= GatherCap /\ Retries <= 1 /\ (Retries > 0 => attempts >= 2)
    BY <1>1 DEF IInv, LogInv
  <2>2. /\ Gathers' <= GatherCap
        /\ Retries' <= 1
        /\ Retries' > 0 => attempts >= 1
        /\ Len(log') = attempts + Gathers
    <3>1. Gathers' <= GatherCap
      BY <1>5, <1>6, <2>1
    <3>2. Len(log') = attempts + Gathers
      BY <1>5, <2>1
    <3>3. r = "retry" => Retries = 0
      BY <1>3, <1>5, <2>1
    <3>4. Retries' <= 1
      BY <1>5, <2>1, <3>3
    <3> QED
      BY <2>1, <3>1, <3>2, <3>4
  <2>3. phase' = "attempt" => Len(log') = attempts + Gathers' /\ attempts < Ceiling
    BY <1>3, <1>5, <1>7, <2>2
  <2>4. phase' = "gathering" => Len(log') + 1 = attempts + Gathers' /\ (Retries' > 0 => attempts >= 2)
    BY <1>5, <1>7, <2>1, <2>2
  <2>5. Len(log') <= Ceiling + GatherCap
    BY <1>5, <2>1, <2>2
  <2> QED
    BY <1>1, <1>5, <1>7, <2>1, <2>2, <2>3, <2>4, <2>5 DEF IInv, LogInv
<1> QED
  BY <1>1, <1>8, <1>9, <1>10 DEF IInv

LEMMA NextIInv == ASSUME IInv, [Next]_vars PROVE IInv'
<1>1. CASE UNCHANGED vars
  BY <1>1 DEF vars, IInv, EffectInv, BudgetInv, LogInv, Gathers, Retries
<1>2. ASSUME NEW s \in Signals, Reclassify(s) PROVE IInv'
  <2>1. /\ phase = "gathering" /\ phase' = "failed"
        /\ category' \in FAILURE_CATEGORIES
        /\ UNCHANGED <<loop, budget, turns, attempts, stall, log, step, effects, whole, receipt>>
    BY <1>2, ClassifiedCategory DEF Reclassify
  <2> QED
    BY <2>1 DEF IInv, EffectInv, BudgetInv, LogInv, Gathers, Retries
<1>3. CASE PassAttempt
  BY <1>3 DEF PassAttempt, IInv, EffectInv, BudgetInv, LogInv, Gathers, Retries
<1> QED
  BY <1>1, <1>2, <1>3, TurnIInv, FailAttemptIInv, RecoverIInv DEF Next

LEMMA Invariant == Spec => []IInv
<1>1. Init => IInv
  BY InitIInv
<1>2. IInv /\ [Next]_vars => IInv'
  BY NextIInv
<1> QED
  BY <1>1, <1>2, PTL DEF Spec

\* For any limits, signals and steps: recovery never runs a step again whose
\* effect landed (reconcileStep before chooseRecovery), whatever receipt was
\* lost and whatever the probe does not say.
THEOREM EffectAtMostOnceTheorem == Spec => []EffectAtMostOnce
<1>1. IInv => EffectAtMostOnce
  BY DEF IInv, EffectInv, EffectAtMostOnce
<1> QED
  BY <1>1, Invariant, PTL

\* For any limits: attempts are charged for what the gate judged and retries
\* for what the harness lost, and both loops stop within their budgets
\* (recordTurn, chooseRecovery).
THEOREM RetriesBoundedTheorem == Spec => []RetriesBounded
<1>1. IInv => TurnsCharged
  BY DEF IInv, BudgetInv, TurnsCharged
<1>2. IInv => RecoveryCharged
  BY DEF IInv, LogInv, RecoveryCharged, Retries, Ceiling, GatherCap
<1>3. IInv => RetriesBounded
  BY <1>1, <1>2 DEF RetriesBounded
<1> QED
  BY <1>3, Invariant, PTL
=============================================================================
