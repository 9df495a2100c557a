---------------------------- MODULE AttemptLoop ----------------------------
(***************************************************************************)
(* The two loops around a task's attempts.  In "turns" the controller      *)
(* settles each turn and goes on until the gate passes or a limit is hit   *)
(* (attempt-controller.ts).  In "recovery" each failed attempt is          *)
(* classified, looked at for stalls, reconciled and answered from the      *)
(* ladder (recovery.ts), and the answer is carried out by another attempt. *)
(*                                                                         *)
(* The attempt runs a step whose effect may land, land partly, or not, and *)
(* whose receipt may be lost: the crash between an effect and its record.  *)
(* Nothing bounds the loops but the policy itself.                         *)
(***************************************************************************)
EXTENDS FailurePolicy

CONSTANTS
  Loops,       \* which of the loops to run: {"turns", "recovery"}
  Signals,     \* what an attempt may fail with: [turn, marks, answer]
  Attempts,    \* what the stall detector may see of an attempt
  Steps        \* the steps an attempt may run: [sideEffect, actionId, probe]

\* Jev's answer is one of the categories (isFailureCategory).
ASSUME AttemptLoopAssumption ==
  /\ Loops \subseteq {"turns", "recovery"}
  /\ \A s \in Signals : s.answer.value \in FAILURE_CATEGORIES

VARIABLES
  loop,      \* the loop
  phase,     \* "attempt", "failed", "passed", "ended"
  budget,    \* AttemptBudgetState and the TerminalFailure it came to
  turns,     \* history: turns taken, and how many the gate judged
  attempts,  \* attempts spent on the subject
  category,  \* FailureClassification.category of the last failure
  stall,     \* StallState
  log,       \* recovery_decision rows
  step,      \* the step recovery would re-run
  effects,   \* history: how often its effect landed, wholly or partly
  whole,     \* history: the last effect that landed was whole
  receipt    \* completed_action holds its action id

vars == <<loop, phase, budget, turns, attempts, category, stall, log, step, effects,
          whole, receipt>>

Init ==
  /\ loop \in Loops
  /\ phase = "attempt"
  /\ budget = [state |-> EmptyBudget, failure |-> "none"]
  /\ turns = [taken |-> 0, judged |-> 0]
  /\ attempts = 0 /\ category = "unknown" /\ stall = EmptyStall /\ log = <<>>
  /\ step \in Steps
  /\ effects = 0 /\ whole = TRUE /\ receipt = FALSE
----------------------------------------------------------------------------
(* attempt-controller.ts                                                   *)

Turn(o, gatePassed) ==
  LET settled == SettleTurn(o, gatePassed, budget.state)
      harness == ClassifyTurn(o) \in HarnessKinds
  IN /\ loop = "turns" /\ phase = "attempt"
     /\ budget' = [state |-> settled.budget.state, failure |-> settled.budget.failure]
     /\ phase' = CASE settled.budget.next = "fail" -> "ended"
                   [] settled.budget.next = "judge" -> "passed"
                   [] settled.budget.next = "retry" -> "attempt"
     /\ turns' = [taken |-> turns.taken + 1,
                  judged |-> turns.judged + (IF harness THEN 0 ELSE 1)]
     /\ UNCHANGED <<loop, attempts, category, stall, log, step, effects, whole, receipt>>
----------------------------------------------------------------------------
(* recovery.ts                                                             *)

\* The attempt runs its step and fails with this signal; `landed' is what
\* became of the effect and `recorded' whether its receipt was written.
FailAttempt(signal, seen, landed, recorded) ==
  /\ loop = "recovery" /\ phase = "attempt"
  /\ recorded => landed = "wholly" /\ step.actionId
  /\ landed # "no" => step.sideEffect
  /\ phase' = "failed"
  /\ attempts' = attempts + 1
  /\ category' = ClassifyWithJev(signal.turn, signal.marks, signal.answer)
  /\ stall' = ObserveAttempt(stall, [seen EXCEPT !.kind = signal.turn]).state
  /\ effects' = effects + (IF landed = "no" THEN 0 ELSE 1)
  /\ whole' = (landed # "partly")
  /\ receipt' = (receipt \/ recorded)
  /\ UNCHANGED <<loop, budget, turns, log, step>>

\* What a probe may answer: nothing that is untrue, or nothing at all.
ProbeAnswers ==
  IF ~step.probe THEN {"missing"}
  ELSE {"throws", CASE effects = 0 -> "absent"
                    [] effects > 0 /\ whole -> "applied"
                    [] effects > 0 /\ ~whole -> "partial"}

\* recoverFromFailure: reconcile, decide, record.  The stalls are all that
\* were raised for the subject.
RecoverFromFailure(probe) ==
  LET in == [category |-> category, needsEvidence |-> category = "unknown",
             attemptsUsed |-> attempts, subject |-> "task", stalls |-> stall.fired,
             effect |-> ReconcileStep(step, receipt, probe)]
      response == ChooseRecovery(in, log)
  IN /\ loop = "recovery" /\ phase = "failed"
     /\ log' = Append(log, [response |-> response, category |-> category])
     /\ phase' = CASE response \in TERMINAL_RESPONSES -> "ended"
                   [] response = "gather_evidence" -> "gathering"
                   [] OTHER -> "attempt"
     /\ UNCHANGED <<loop, budget, turns, attempts, category, stall, step, effects, whole,
                    receipt>>

\* The evidence is gathered and the same failure classified again.
Reclassify(signal) ==
  /\ phase = "gathering"
  /\ phase' = "failed"
  /\ category' = ClassifyWithJev(signal.turn, signal.marks, signal.answer)
  /\ UNCHANGED <<loop, budget, turns, attempts, stall, log, step, effects, whole, receipt>>

\* The attempt succeeds.
PassAttempt ==
  /\ loop = "recovery" /\ phase = "attempt"
  /\ phase' = "passed"
  /\ UNCHANGED <<loop, budget, turns, attempts, category, stall, log, step, effects, whole,
                 receipt>>

Next ==
  \/ \E o \in Observations, passed \in BOOLEAN : Turn(o, passed)
  \/ \E s \in Signals, a \in Attempts, landed \in {"no", "partly", "wholly"},
        recorded \in BOOLEAN : FailAttempt(s, a, landed, recorded)
  \/ \E p \in ProbeAnswers : RecoverFromFailure(p)
  \/ \E s \in Signals : Reclassify(s)
  \/ PassAttempt

Spec == Init /\ [][Next]_vars
----------------------------------------------------------------------------
\* No recovery, over any order of failures, lost receipts and mute probes, runs
\* a step again whose effect landed (reconcileStep before chooseRecovery).
EffectAtMostOnce == effects <= 1

\* recordTurn: an attempt is spent exactly when the task gate was asked, a turn
\* the harness lost only costs a harness retry, so "attempt_limit" means the
\* criteria were refused that often; and the turns stop within both budgets.
TurnsCharged ==
  /\ budget.state.attemptsUsed = turns.judged
  /\ budget.failure = "attempt_limit" => turns.judged = BudgetLimits.maxAttempts
  /\ turns.taken < BudgetLimits.maxAttempts + BudgetLimits.maxHarnessRetries

\* chooseRecovery and usageFromLog: at most one plain retry, and at most one
\* answer per attempt beyond the evidence that may be gathered.
RecoveryCharged ==
  /\ Used(log, "retry") <= 1
  /\ Len(log) <= RecoveryConfig.maxAttemptsPerTask + RecoveryConfig.caps["gather_evidence"]

\* However a worker fails - truncated, killed, lost and judged turns, stalls and
\* unknown causes in any order - the two loops that try again stop within their
\* budgets, and are charged for what they did.
RetriesBounded == TurnsCharged /\ RecoveryCharged
============================================================================
