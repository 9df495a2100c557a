------------------------------ MODULE TaskGate ------------------------------
(***************************************************************************)
(* The task gate (verification/task-gate.ts) over evidence rows, review    *)
(* records (verification/review.ts), gap decisions (GapEvaluation) and     *)
(* approvals, which arrive in any order while the worktree and the task    *)
(* revision move (CheckRuns).  evaluateTaskGate is pure: C0 /\ C1 /\ C2 /\ *)
(* C3 of what is stored at the revision it is given.  completeTask moves a *)
(* task whose gate passed to done in the same call.                        *)
(*                                                                         *)
(* A review's findings are reduced to whether an unresolved blocking one   *)
(* is among them, and approvals to the last one a user granted for at      *)
(* least the task's risk class.  Receipts, which carry the verdict to the  *)
(* status write, are in WorkflowState.                                     *)
(***************************************************************************)
EXTENDS CheckRuns, GapEvaluation

CONSTANTS
  Criteria,        \* ids of Task.acceptanceCriteria
  Attempts,        \* attempts at the task
  Reviewers,       \* the ones that review it
  Author,          \* the claiming attempt
  HandedOffFrom,   \* Attempt.handedOffFromAttemptId, None when there is none
  Implementers,    \* attempts whose role is implementer or integrator
  None,
  Configs,         \* JevGateConfig (enabled, optional), the policy's modelReview and
                   \* humanApproval and the task's risk class, with the bounds to
                   \* explore them under
  JevThreshold,    \* JevGateConfig.confidenceThreshold
  Answers,         \* the answers Jev may give for a criterion
  MaxDecisions     \* bound: gap decisions

ASSUME TaskGateAssumption ==
  /\ Author \in Attempts /\ Reviewers \cup Implementers \subseteq Attempts
  /\ Attempts \cap Checks = {} /\ None \notin Attempts
  /\ HandedOffFrom \in [Attempts -> Attempts \cup {None}]
  /\ \A c \in Configs :
       /\ c.jev \in [enabled: BOOLEAN, optional: BOOLEAN]
       /\ {c.modelReview, c.humanApproval} \subseteq BOOLEAN /\ c.risk \in RiskClasses
       /\ c.limits \in [rows: Nat, calls: Nat, revisions: Nat, reviews: Nat,
                        reqs: SUBSET STRING]
  /\ {MaxDecisions, JevThreshold} \subseteq Nat

VARIABLES
  claim,      \* the task revision the claiming attempt succeeded at, 0 for none
  reviews,    \* review records of the task, in order
  reviewing,  \* the runReview call of each reviewer
  decisions,  \* decision rows of task_evidence_gap
  asking,     \* the evaluation in flight
  approved,   \* the task revision a user's approval in force is for, 0 for none
  jev,        \* JevGateConfig
  modelReview, \* PolicyReviewResult.modelReview
  humanApproval, \* PolicyReviewResult.humanApproval
  riskClass   \* Task.riskClass

configVars == <<jev, modelReview, humanApproval, riskClass>>
gateVars == <<claim, reviews, reviewing, decisions, asking, approved, configVars>>
vars == <<checkVars, gateVars>>

-----------------------------------------------------------------------------
(* Evidence. *)

SupersededIds == {evidence[i].supersedes : i \in DOMAIN evidence} \ {0}

\* Mutant: freshness looks at the commit alone.
FreshAtCommit == {i \in DOMAIN evidence : evidence[i].sha = head /\ i \notin SupersededIds}

\* stalenessReason and freshEvidence: the rows of this commit and this task
\* revision that no row supersedes.
Fresh == {i \in DOMAIN evidence :
            /\ evidence[i].sha = head
            /\ evidence[i].revision = revision
            /\ i \notin SupersededIds}

\* latestResultFor: the last fresh row of the kind the check calls for.
LatestResultFor(c) ==
  LET mode == IF CheckDef[c].kind = "human" THEN "human" ELSE "deterministic"
      rows == {i \in Fresh : evidence[i].src = c /\ evidence[i].mode = mode}
  IN IF rows = {} THEN 0 ELSE Max(rows)

\* gateCheckState: a passing row of another command is a failure.
GateCheckState(c) ==
  LET i == LatestResultFor(c) IN
  CASE i = 0 -> "missing"
    [] i # 0 /\ evidence[i].exit = "pass" /\ ~evidence[i].registered -> "fail"
    [] OTHER -> evidence[i].exit

Verifying == {c \in Checks : ~CheckDef[c].trivial}
Covering(a) == {c \in Verifying : a \in CheckDef[c].covers}

-----------------------------------------------------------------------------
(* The four conditions. *)

\* evaluateC0 and claimingAttempt; blockers are WorkflowState's.
C0 == status = "review" /\ claim = revision

\* evaluateC1 and uncoveredCriteria.
C1 ==
  /\ Checks # {}
  /\ \A c \in Checks : c \in Verifying /\ GateCheckState(c) = "pass"
  /\ \A a \in Criteria : Covering(a) # {}

\* gateStateHash: what a gap decision was made about.
GateStateHash ==
  [revision |-> revision, sha |-> head,
   states |-> [c \in Checks |-> IF c \in Verifying THEN GateCheckState(c) ELSE "missing"],
   fresh |-> Fresh]

\* Mutant: a decision of the revision is a candidate whatever it was made about.
CandidatesOfRevision ==
  {d \in decisions : d.hash.revision = revision /\ d.hash.sha = head}

\* candidateDecisions
CandidateDecisions == {d \in decisions : d.hash = GateStateHash}

\* evaluateDetCoverage
DetCoverage ==
  /\ \A a \in Criteria :
       /\ \E c \in Covering(a) : GateCheckState(c) = "pass"
       /\ \E i \in Fresh : evidence[i].req = a /\ evidence[i].exit = "pass"
  /\ \A c \in Checks : CheckDef[c].kind = "command" /\ LatestResultFor(c) # 0 =>
       evidence[LatestResultFor(c)].owned

\* evaluateC2: a recorded fallback is judged by coverage, and not at all when
\* Jev is required and was unavailable; otherwise a confident no_gap answers.
C2 ==
  LET fallbacks == {d \in CandidateDecisions : d.override \in FallbackReasons} IN
  IF fallbacks # {}
    THEN \E d \in fallbacks :
           /\ ~(d.override = "jev_unavailable" /\ jev.enabled /\ ~jev.optional)
           /\ DetCoverage
    ELSE \E d \in CandidateDecisions : d.action = "no_gap" /\ d.conf >= JevThreshold

\* Mutant: the handoff chain is not followed.
IsAnother(a) == a # Author /\ a \notin Implementers

\* isIndependentReview: the reviewer's handoff chain, the least set that holds
\* the reviewer and is closed under HandedOffFrom, does not reach the author.
Chain(a) ==
  {b \in Attempts : \A S \in SUBSET Attempts :
     (a \in S /\ \A x \in S : HandedOffFrom[x] \in S \cup {None}) => b \in S}
IsIndependent(a) == Author \notin Chain(a) /\ a \notin Implementers

\* blockingFindings of a record, and recheckOutcome: a recheck clears an
\* earlier review at a newer commit and without blockers of its own.
Cleared(r, n) ==
  \E i \in DOMAIN reviews :
    /\ reviews[i].rechecks = n
    /\ reviews[i].sha > r.sha
    /\ ~reviews[i].open

\* reviewGateVerdict over the review records.  evaluateC3 asks it when its
\* caller passes the records; runTaskGate does not.
ReviewsSatisfy ==
  LET here == {i \in DOMAIN reviews : reviews[i].sha = head /\ reviews[i].revision = revision}
      independent == {i \in here : reviews[i].by # Author}
  IN /\ independent # {}
     /\ \A i \in DOMAIN reviews : reviews[i].open => Cleared(reviews[i], i)
     /\ \A i \in independent : ~reviews[i].open

\* evaluateC3 and approvalRejections as runTaskGate calls them, without the
\* review records, for the policy result p the caller computed at some commit
\* and task revision.
C3(p) ==
  /\ p.sha = head /\ p.revision = revision
  /\ modelReview =>
       \E i \in Fresh : /\ evidence[i].mode = "model" /\ evidence[i].exit = "pass"
                        /\ IsIndependent(evidence[i].src)
  /\ (humanApproval \/ riskClass = "high") => approved = revision

Policies == [sha: 1 .. MaxCommit, revision: 1 .. limits.revisions]

-----------------------------------------------------------------------------
GateInit ==
  /\ CheckInit
  /\ claim = 1
  /\ reviews = <<>>
  /\ reviewing = [a \in Reviewers |-> Idle]
  /\ decisions = {}
  /\ asking = Idle
  /\ approved = 0
  /\ \E c \in Configs : /\ jev = c.jev /\ modelReview = c.modelReview
                         /\ humanApproval = c.humanApproval
                         /\ riskClass = c.risk /\ limits = c.limits

\* ingestFinding, applyGradedSeverity and isUnresolvedBlocking: Jev may raise
\* a severity, and never softens a blocker the reviewer suggested.
Severities == {"none", "minor", "unknown", "blocker"}
Graded(suggested, grade) == IF suggested \in {"none", "blocker"} THEN suggested ELSE grade
Blocking(severity) == severity \in {"blocker", "unknown"}

\* reviewToEvidence, of a review pinned to `at' whose reviewer was shown
\* `ran': the row fails while a blocking finding is unresolved.
ReviewToEvidence(a, open, at, ran) ==
  [src |-> a, mode |-> "model", exit |-> IF open THEN "fail" ELSE "pass",
   sha |-> at.sha, revision |-> at.revision, registered |-> TRUE, owned |-> FALSE,
   req |-> "none", supersedes |-> 0, ran |-> ran, tied |-> FALSE, call |-> NextCall]

\* runReview builds the prompt from its context, at the commit and revision
\* there are, and awaits the reviewer; it may recheck an earlier review.
BeginReview(a) ==
  /\ Live /\ modelReview /\ Len(reviews) < limits.reviews
  /\ reviewing[a] = Idle
  /\ \E recheck \in {0} \cup DOMAIN reviews :
       reviewing' = [reviewing EXCEPT ![a] =
                       [phase |-> "reviewing", at |-> Here, rechecks |-> recheck]]
  /\ UNCHANGED <<checkVars, claim, reviews, decisions, asking, approved, configVars>>

\* The findings are graded, and the caller stores the record and its evidence
\* row, pinned to `at'.
RecordReview(a, at) ==
  /\ Live /\ reviewing[a] # Idle
  /\ Bounded(1) /\ Len(reviews) < limits.reviews
  /\ \E suggested \in Severities, grade \in Severities \ {"none"} :
       LET open == Blocking(Graded(suggested, grade)) IN
       /\ reviews' = Append(reviews, [sha |-> at.sha, revision |-> at.revision, by |-> a,
                                      open |-> open, rechecks |-> reviewing[a].rechecks])
       /\ Store(<<ReviewToEvidence(a, open, at, reviewing[a].at)>>)
  /\ reviewing' = [reviewing EXCEPT ![a] = Idle]
  /\ UNCHANGED <<head, revision, status, run, limits, claim, decisions, asking, approved, configVars>>

\* Mutant: the review is pinned to where HEAD and the task are when it ends.
EndReviewPinsLate(a) == RecordReview(a, Here)

\* runReview returns: the record is pinned to the context it was built from.
EndReview(a) == RecordReview(a, reviewing[a].at)

\* disposeFinding: only a user accepts or rejects a blocking finding.
DisposeFinding(i) ==
  /\ Live
  /\ reviews[i].open
  /\ reviews' = [reviews EXCEPT ![i].open = FALSE]
  /\ UNCHANGED <<checkVars, claim, reviewing, decisions, asking, approved, configVars>>

\* evaluateEvidenceGap starts on the task's evidence, and its questions are
\* awaited.
BeginEvaluation ==
  /\ Live
  /\ asking = Idle
  /\ Cardinality(decisions) < MaxDecisions
  /\ asking' = [phase |-> "asking", judged |-> GateStateHash,
                mapping |-> [a \in Criteria |->
                   MappingReasons({GateCheckState(c) : c \in Covering(a)},
                                  {evidence[i].exit : i \in {j \in Fresh : evidence[j].req = a}})]]
  /\ UNCHANGED <<checkVars, claim, reviews, reviewing, decisions, approved, configVars>>

\* The answers arrive and recordGateDecision stores the verdict, or the
\* fallback with its reason when Jev is off or could not be reached, under the
\* state hash its caller computed: before the questions, or now.
FinishEvaluation ==
  /\ asking # Idle
  /\ \E answer \in Answers, fallback \in {"none"} \cup FallbackReasons,
        hash \in {asking.judged, GateStateHash} :
       /\ fallback = "none" => jev.enabled
       /\ fallback \in {"jev_disabled", "jev_no_key"} => ~jev.enabled
       /\ LET reasons == [a \in Criteria |->
                CriterionReasons(asking.mapping[a], answer, riskClass, NoOverride)] IN
          decisions' = decisions \cup
            {GateDecision(NoGap(reasons), CriterionConfidence(answer), fallback, hash, asking.judged)}
  /\ asking' = Idle
  /\ UNCHANGED <<checkVars, claim, reviews, reviewing, approved, configVars>>

\* A user approves completion of the task at its revision.
Approve ==
  /\ Live /\ (humanApproval \/ riskClass = "high")
  /\ approved' = revision
  /\ UNCHANGED <<checkVars, claim, reviews, reviewing, decisions, asking, configVars>>

\* approvalInvalidReason: the approval expires, is withdrawn, or is of an
\* earlier plan revision.
ApprovalLapses ==
  /\ Live /\ approved # 0
  /\ approved' = 0
  /\ UNCHANGED <<checkVars, claim, reviews, reviewing, decisions, asking, configVars>>

\* The plan revises the task, and a later attempt submits it again, with or
\* without claiming completion.
Resubmit ==
  /\ Live
  /\ revision < limits.revisions
  /\ revision' = revision + 1
  /\ status' = "verifying"
  /\ claim' \in {claim, revision + 1}
  /\ UNCHANGED <<head, run, evidence, limits, reviews, reviewing, decisions, asking, approved,
                 configVars>>

\* task-review, whose guards its caller supplies.
EnterReview ==
  /\ status = "verifying"
  /\ status' = "review"
  /\ UNCHANGED <<head, revision, run, evidence, limits, gateVars>>

\* completeTask: runTaskGate at the commit the resolver reads, and task-done
\* when all four conditions hold.  A refusal leaves a receipt only.
CompleteTask ==
  /\ C0 /\ C1 /\ C2
  /\ \E p \in Policies : C3(p)
  /\ status' = "done"
  /\ UNCHANGED <<head, revision, run, evidence, limits, gateVars>>

Next ==
  \/ \E c \in Checks : (CallCheck(c) \/ BeginRun(c) \/ EndCommand(c) \/ RecordResult(c))
                         /\ UNCHANGED gateVars
  \/ MoveHead /\ UNCHANGED gateVars
  \/ \E ch \in ChangeSets : InvalidateStaleEvidence(ch) /\ UNCHANGED gateVars
  \/ \E a \in Reviewers : BeginReview(a) \/ EndReview(a)
  \/ \E i \in DOMAIN reviews : DisposeFinding(i)
  \/ BeginEvaluation \/ FinishEvaluation
  \/ Approve \/ ApprovalLapses \/ Resubmit \/ EnterReview \/ CompleteTask

Spec == GateInit /\ [][Next]_vars

-----------------------------------------------------------------------------
(* Properties. *)

\* A task reaches done only on executable checks that passed in a run started
\* at the commit the gate evaluated and at the task's revision: a commit made or
\* left while a check runs, a revision bumped between a run and the gate, or a
\* late exit never stand behind a pass (runCheck's pin, freshEvidence).
CheckedAtHead ==
  status = "done" =>
    \A c \in Checks : CheckDef[c].kind = "command" =>
      \E i \in DOMAIN evidence :
        /\ evidence[i].src = c /\ evidence[i].exit = "pass" /\ evidence[i].registered
        /\ evidence[i].ran = Here

\* A task never reaches done on a check whose latest call saw both a pass and
\* a non-pass at the gated commit (reconcileRuns, latestResultFor), except when
\* the caller stored that call's rows under one stamp, or superseded one of them.
FlakyHoldsGate ==
  status = "done" =>
    \A c \in Checks : CheckDef[c].kind = "command" =>
      LET rows == {i \in DOMAIN evidence :
                     /\ evidence[i].src = c /\ evidence[i].registered
                     /\ evidence[i].sha = head /\ evidence[i].revision = revision}
          last == {i \in rows : \A j \in rows : evidence[j].call <= evidence[i].call}
      IN \/ {evidence[i].exit : i \in last} = {"pass"}
         \/ \E i \in last : evidence[i].tied \/ \E j \in DOMAIN evidence : evidence[j].supersedes = i

\* The checks stand behind a pass: each passed in a run of the gated commit and
\* revision, and its last call there did not disagree with itself unnoticed.
ChecksCarryGate == CheckedAtHead /\ FlakyHoldsGate

\* Whichever branch of condition 2 carried the gate, every criterion had a
\* passing row of its own at the gated commit and revision that nothing had
\* superseded: the structural half of a "no gap" outlives the wait for Jev's
\* answers, as long as the state hash was taken before the questions
\* (evaluateCriterion, gateStateHash, evaluateDetCoverage).
CriteriaEvidenced ==
  (status = "done" /\ \A d \in decisions : d.hash = d.judged) =>
    \A a \in Criteria : \E i \in DOMAIN evidence :
      /\ evidence[i].req = a /\ evidence[i].exit = "pass"
      /\ evidence[i].sha = head /\ evidence[i].revision = revision
      /\ \A j \in DOMAIN evidence : evidence[j].supersedes # i

\* Under model review a task reaches done only after a reviewer was shown the
\* commit and task revision the gate evaluated and ended without a blocking
\* finding, and that reviewer is neither the author nor was handed the
\* author's work (runReview's context, isIndependentReview).
ReviewCarriesGate ==
  (status = "done" /\ modelReview) =>
    \E i \in DOMAIN evidence :
      /\ evidence[i].mode = "model" /\ evidence[i].exit = "pass"
      /\ evidence[i].ran = Here
      /\ Author \notin {evidence[i].src, HandedOffFrom[evidence[i].src]}

-----------------------------------------------------------------------------
(* What the comments say and the code does not do: each has a counterexample. *)

\* flaky.ts:9 and 141-146: the latest call never disagreed with itself.
FlakyNeverPasses ==
  status = "done" =>
    \A c \in Checks : CheckDef[c].kind = "command" =>
      ~\E i, j \in DOMAIN evidence :
         /\ evidence[i].src = c /\ evidence[i].exit = "flaky" /\ evidence[i].call = evidence[j].call
         /\ \A k \in DOMAIN evidence : evidence[k].src = c => evidence[k].call <= evidence[j].call

\* evaluate.ts:655-658: the decision that carried the gate was made about the
\* state the gate evaluated.
JudgedOnGatedEvidence ==
  status = "done" => \E d \in decisions : d.judged = GateStateHash

\* task-gate.ts:842-845: the review records are consulted, and an open blocking
\* finding refuses.
BlockersHoldGate == (status = "done" /\ modelReview) => ReviewsSatisfy
=============================================================================
