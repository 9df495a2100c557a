------------------------------ MODULE Approvals ------------------------------
(* The life of an approval: a question (approval_request row), an optional     *)
(* dialog, a grant (approval row) pinned to the revisions the question was     *)
(* asked at, and its end by use, withdrawal, expiry or a revision of what it   *)
(* was about.  The acts that spend approvals and move revisions are here too:  *)
(* reviseTask, revisePlan, applyScopeChange and the reconciliation of a        *)
(* session.  The workflow's mode, its table of approval classes and its policy *)
(* version are set at intake and no operation changes them.                    *)
EXTENDS ApprovalClasses, Sequences

CONSTANTS
  Tasks, Paths, Checks,  \* what a plan is made of
  Dialogs,               \* prompts that can be open at the same time
  Acts,                  \* facts of the acts a worker may want to do
  None,
  Budgets                \* bound: what may happen in one behaviour, see budget

ASSUME ApprovalConstants ==
  /\ \A b \in Budgets :
       /\ {b.configurable, b.no_auto, b.high_risk, b.acts, b.revisions, b.clock} \subseteq Nat
       /\ b.mode \in WORKFLOW_MODES
       /\ b.loosened \in (APPROVAL_CLASSES \X WORKFLOW_MODES) \cup {None}
       /\ b.ttls \subseteq Nat \cup {None}
       /\ b.dialogs \subseteq Dialogs
       /\ b.plans \subseteq [Tasks -> [paths : SUBSET Paths, checks : Checks]]
       /\ {"mode", "loosened"} \subseteq DOMAIN b
  /\ \A f \in Acts : f.kind \in ActKinds /\ f.op \in OperationsOf(f.kind)
  /\ None \notin Nat \cup Tasks

VARIABLES
  clock,
  planRevision, plan,    \* Workflow.planRevision and the stored definitions
  taskRevision,
  requests, approvals,   \* the two tables, a row's id being its position
  dialogs,               \* what each open prompt was opened with
  changes,               \* history: the scope changes applied
  performed,             \* history: the acts nobody was asked about
  budget                 \* the mode and table of this behaviour; bound: the questions of
                         \* each tier and the acts still to come, the plans, prompts and
                         \* lifetimes, the last revision and the end of the clock

approvalVars == <<clock, planRevision, plan, taskRevision, requests, approvals,
                  dialogs, changes, performed, budget>>

Candidates == budget.plans

-----------------------------------------------------------------------------
(* What a question is about *)

NoDigest == <<>>
CompleteTask(t) == [kind |-> "complete_task", task |-> t, digest |-> NoDigest, rollback |-> 0]

\* An act that was classified from its facts
ClassifiedAct(f) == [kind |-> ClassifyAct(f), task |-> None, digest |-> NoDigest, rollback |-> 0]

\* ROLLBACK_APPROVAL_CLASS; every other action is named after its class.
ClassOf(action) == IF action.kind = "rollback_checkpoint" THEN "destructive_git" ELSE action.kind
Tier(action) == TierOf(ClassOf(action))

\* The effective approvals.classes: the shipped table, one entry of it set to auto
\* by a configuration layer.
Table ==
  IF budget.loosened = None THEN DEFAULT_APPROVAL_CLASSES
  ELSE [DEFAULT_APPROVAL_CLASSES EXCEPT ![budget.loosened[1]][budget.loosened[2]] = "auto"]

Decision(action, jev) == ResolveDisposition(ClassOf(action), budget.mode, Table, jev)

\* diffTasks: a task's entry names its new ownership, and of a changed
\* definition of done only that it changed.
Entry(before, after) ==
  [kind    |-> IF before.checks # after.checks THEN "redefined" ELSE "reowned",
   added   |-> after.paths \ before.paths,
   removed |-> before.paths \ after.paths]

Diff(candidate) ==
  [t \in {u \in Tasks : plan[u] # candidate[u]} |-> Entry(plan[t], candidate[t])]

\* proposeScopeChange: a pure function of the stored plan and the candidate.
Proposal(candidate) ==
  [from |-> planRevision, diff |-> Diff(candidate), candidate |-> candidate]

ProposalIsNoop(p) == DOMAIN p.diff = {}
ExpandsScope(p) == \E t \in DOMAIN p.diff : p.diff[t].added # {}

PermittedAction(p) ==
  [kind     |-> IF ExpandsScope(p) THEN "scope_change" ELSE "replan",
   task     |-> None,
   digest   |-> <<p.from, p.diff>>,
   rollback |-> 0]

-----------------------------------------------------------------------------
(* Requests *)

Expiry(now, ttl) == IF ttl = None THEN None ELSE now + ttl
Expired(expiresAt, now) == expiresAt # None /\ expiresAt <= now

\* requestKeyFor: the same act at the same revisions is the same question.
Question(action, scope, revision) ==
  [action |-> action, task |-> scope, taskRevision |-> revision, planRevision |-> planRevision]

SameQuestion(row, q) ==
  /\ row.action = q.action /\ row.task = q.task
  /\ row.taskRevision = q.taskRevision /\ row.planRevision = q.planRevision

\* The proposal is the one the caller keeps while it waits; the last field is
\* history: whether a revision has overtaken the question while it was open.
NewRequest(q, proposal, ttl) ==
  [action |-> q.action, task |-> q.task, taskRevision |-> q.taskRevision,
   planRevision |-> q.planRevision, expiresAt |-> Expiry(clock, ttl),
   status |-> "pending", proposal |-> proposal, outrun |-> FALSE]

Pending == {r \in DOMAIN requests : requests[r].status = "pending"}

\* The bounds on what is still to come
Spend(what) == budget[what] > 0 /\ budget' = [budget EXCEPT ![what] = @ - 1]

\* requestApproval where the disposition is not auto (where it is, no question
\* exists); asking a question that is pending already changes nothing.
RequestApproval(q, proposal, ttl, jev) ==
  /\ Decision(q.action, jev) # "auto"
  /\ \A r \in Pending : ~SameQuestion(requests[r], q)
  /\ requests' = Append(requests, NewRequest(q, proposal, ttl))

\* requestStaleness that compares the plan's revision alone.
RequestStaleByPlan(r, now) ==
  Expired(requests[r].expiresAt, now) \/ requests[r].planRevision # planRevision

\* requestStaleness
RequestStale(r, now) ==
  \/ Expired(requests[r].expiresAt, now)
  \/ requests[r].planRevision # planRevision
  \/ /\ requests[r].task # None
     /\ requests[r].taskRevision # taskRevision[requests[r].task]

\* A human check may be asked about at the revision it was run at, which is
\* not always the current one.
AskTaskCompletion(t, revision, ttl) ==
  /\ Spend("configurable")
  /\ RequestApproval(Question(CompleteTask(t), t, revision), None, ttl, None)
  /\ UNCHANGED <<clock, planRevision, plan, taskRevision, approvals, dialogs, changes, performed>>

AskScopeChange(candidate, ttl) ==
  /\ Spend("no_auto")
  /\ ~ProposalIsNoop(Proposal(candidate))
  /\ LET p == Proposal(candidate)
     IN RequestApproval(Question(PermittedAction(p), None, None), p, ttl, None)
  /\ UNCHANGED <<clock, planRevision, plan, taskRevision, approvals, dialogs, changes, performed>>

\* An act about to be done is classified and asked for, with or without a signal
\* from Jev; pre-approved, it is done at once.
RequestAct(f, jev) ==
  /\ Spend("acts")
  /\ \/ /\ Decision(ClassifiedAct(f), jev) = "auto"
        /\ performed' = performed \cup {[facts |-> f, jev |-> jev]}
        /\ UNCHANGED requests
     \/ /\ RequestApproval(Question(ClassifiedAct(f), None, None), None, None, jev)
        /\ UNCHANGED performed
  /\ UNCHANGED <<clock, planRevision, plan, taskRevision, approvals, dialogs, changes>>

\* resolve: only a pending request is ever answered.  Denied and invalidated
\* requests are both closed.
Resolved(S, status) ==
  [r \in DOMAIN requests |->
     IF r \in S \cap Pending THEN [requests[r] EXCEPT !.status = status] ELSE requests[r]]

\* invalidatePendingRequests
Sweep ==
  /\ requests' = Resolved({r \in Pending : RequestStale(r, clock)}, "closed")
  /\ UNCHANGED <<clock, planRevision, plan, taskRevision, approvals, dialogs, changes, performed, budget>>

-----------------------------------------------------------------------------
(* Grants *)

Grant(r, actor, now, ttl) ==
  [request |-> r, actor |-> actor, action |-> requests[r].action, task |-> requests[r].task,
   taskRevision |-> requests[r].taskRevision, planRevision |-> requests[r].planRevision,
   expiresAt |-> Expiry(now, ttl), standing |-> TRUE]

\* grantApproval that does not ask whether the question is still open.
GrantAnswered(r, actor, now, ttl) ==
  \/ /\ RequestStale(r, now)
     /\ requests' = Resolved({r}, "closed")
     /\ UNCHANGED approvals
  \/ /\ ~RequestStale(r, now)
     /\ Tier(requests[r].action) = "high_risk" => actor = "user"
     /\ approvals' = Append(approvals, Grant(r, actor, now, ttl))
     /\ requests' = Resolved({r}, "granted")

\* grantApproval: an answered question is refused, a stale one is invalidated,
\* and nobody but a user grants a high-risk act.
GrantApproval(r, actor, now, ttl) ==
  \/ /\ r \notin Pending
     /\ UNCHANGED <<requests, approvals>>
  \/ /\ r \in Pending
     /\ RequestStale(r, now)
     /\ requests' = Resolved({r}, "closed")
     /\ UNCHANGED approvals
  \/ /\ r \in Pending
     /\ ~RequestStale(r, now)
     /\ Tier(requests[r].action) = "high_risk" /\ actor # "user"
     /\ UNCHANGED <<requests, approvals>>
  \/ /\ r \in Pending
     /\ ~RequestStale(r, now)
     /\ Tier(requests[r].action) = "high_risk" => actor = "user"
     /\ approvals' = Append(approvals, Grant(r, actor, now, ttl))
     /\ requests' = Resolved({r}, "granted")

\* promptForApproval up to its await.  The caller passes a row it has read as
\* pending, which may have been answered since, and a clock reading that
\* grantApproval is given after the answer.
OpenDialog(d, r) ==
  /\ dialogs[d] = None
  /\ dialogs' = [dialogs EXCEPT ![d] = [request |-> r, now |-> clock]]
  /\ UNCHANGED <<clock, planRevision, plan, taskRevision, requests, approvals, changes, performed, budget>>

\* resolveApprovalInteractively after the await: yes, no, or no answer at all.
Answer(d, answer, actor, ttl) ==
  /\ dialogs[d] # None
  /\ dialogs' = [dialogs EXCEPT ![d] = None]
  /\ LET r == dialogs[d].request
     IN \/ answer = "yes" /\ GrantApproval(r, actor, dialogs[d].now, ttl)
        \/ answer = "no" /\ requests' = Resolved({r}, "closed") /\ UNCHANGED approvals
        \/ answer = "queued" /\ UNCHANGED <<requests, approvals>>
  /\ UNCHANGED <<clock, planRevision, plan, taskRevision, changes, performed, budget>>

-----------------------------------------------------------------------------
(* Validity and its end *)

Standing == {a \in DOMAIN approvals : approvals[a].standing}

\* approvalInvalidReason against the live revisions of the approval's own task
Usable(a) ==
  /\ a \in Standing
  /\ ~Expired(approvals[a].expiresAt, clock)
  /\ approvals[a].planRevision = planRevision
  /\ approvals[a].task # None => approvals[a].taskRevision = taskRevision[approvals[a].task]

\* ApprovalRepository.invalidate: from null to a reason, once.
Invalidated(S) ==
  [a \in DOMAIN approvals |->
     IF a \in S THEN [approvals[a] EXCEPT !.standing = FALSE] ELSE approvals[a]]

\* consumeApproval and revokeApproval
EndApproval(a) ==
  /\ a \in Standing
  /\ approvals' = Invalidated({a})
  /\ UNCHANGED <<clock, planRevision, plan, taskRevision, requests, dialogs, changes, performed, budget>>

\* applyInvalidation ("expired"): the approvals that are past their time
InvalidateExpired ==
  /\ approvals' = Invalidated({a \in Standing : Expired(approvals[a].expiresAt, clock)})
  /\ UNCHANGED <<clock, planRevision, plan, taskRevision, requests, dialogs, changes, performed, budget>>

\* reconcileSession where shouldInvalidate holds: the live repository is not
\* the one the approvals were given for.  Open questions stay open.
ReconcileSession ==
  /\ approvals' = Invalidated(Standing)
  /\ UNCHANGED <<clock, planRevision, plan, taskRevision, requests, dialogs, changes, performed, budget>>

-----------------------------------------------------------------------------
(* Revisions *)

Outrun(S) ==
  [r \in DOMAIN requests |->
     IF r \in S \cap Pending THEN [requests[r] EXCEPT !.outrun = TRUE] ELSE requests[r]]

Redefined(t, after) == plan[t].checks # after.checks

\* affectedApprovals for one task: its own and those of wider scope
Touches(scope, t) == scope \in {t, None}

\* reviseTask: a changed definition of done moves the revision, a changed
\* ownership does not; both invalidate.
ReviseTask(t, after) ==
  /\ plan[t] # after
  /\ Redefined(t, after) => taskRevision[t] < budget.revisions
  /\ plan' = [plan EXCEPT ![t] = after]
  /\ taskRevision' = [taskRevision EXCEPT ![t] = IF Redefined(t, after) THEN @ + 1 ELSE @]
  /\ approvals' = Invalidated({a \in Standing : Touches(approvals[a].task, t)})
  /\ requests' = Outrun({r \in Pending : requests[r].task = t /\ Redefined(t, after)})
  /\ UNCHANGED <<clock, planRevision, dialogs, changes, performed, budget>>

\* revisePlan that keeps the revision where no task was redefined.
RevisePlanInPlace(candidate) ==
  /\ \A t \in Tasks : Redefined(t, candidate[t]) => taskRevision[t] < budget.revisions
  /\ UNCHANGED planRevision
  /\ plan' = candidate
  /\ taskRevision' = [t \in Tasks |-> taskRevision[t] + (IF Redefined(t, candidate[t]) THEN 1 ELSE 0)]
  /\ UNCHANGED approvals
  /\ requests' = Outrun(Pending)

\* revisePlan: revision N+1, redefined tasks moved on, no approval left standing.
RevisePlanTo(candidate) ==
  /\ planRevision < budget.revisions
  /\ \A t \in Tasks : Redefined(t, candidate[t]) => taskRevision[t] < budget.revisions
  /\ planRevision' = planRevision + 1
  /\ plan' = candidate
  /\ taskRevision' = [t \in Tasks |-> taskRevision[t] + (IF Redefined(t, candidate[t]) THEN 1 ELSE 0)]
  /\ approvals' = Invalidated(Standing)
  /\ requests' = Outrun(Pending)

RevisePlan(candidate) ==
  /\ RevisePlanTo(candidate)
  /\ UNCHANGED <<clock, dialogs, changes, performed, budget>>

\* approvalRefusalFor
ApprovalCovers(a, p) ==
  /\ a \in Standing
  /\ ~Expired(approvals[a].expiresAt, clock)
  /\ approvals[a].planRevision = p.from
  /\ approvals[a].task = None
  /\ approvals[a].action = PermittedAction(p)
  /\ approvals[a].actor = "user"

\* The caller applies the proposal it asked with, or one it computes now.
ApplyScopeChange(a, p) ==
  /\ ~ProposalIsNoop(p)
  /\ p.from = planRevision
  /\ ApprovalCovers(a, p)
  /\ RevisePlanTo(p.candidate)
  /\ changes' = Append(changes, [approval |-> a, action |-> PermittedAction(p), from |-> p.from])
  /\ UNCHANGED <<clock, dialogs, performed, budget>>

Tick ==
  /\ clock < budget.clock
  /\ clock' = clock + 1
  /\ UNCHANGED <<planRevision, plan, taskRevision, requests, approvals, dialogs, changes, performed, budget>>

-----------------------------------------------------------------------------
ApprovalInit ==
  /\ budget \in Budgets
  /\ clock = 0
  /\ planRevision = 1
  /\ plan \in Candidates
  /\ taskRevision = [t \in Tasks |-> 1]
  /\ requests = <<>>
  /\ approvals = <<>>
  /\ dialogs = [d \in Dialogs |-> None]
  /\ changes = <<>>
  /\ performed = {}
  /\ ValidateApprovalClasses(Table) = {}

Actors == {"user", "policy"}

ApprovalNext ==
  \/ \E t \in Tasks, ttl \in budget.ttls : \E revision \in 1..taskRevision[t] : AskTaskCompletion(t, revision, ttl)
  \/ \E candidate \in Candidates, ttl \in budget.ttls : AskScopeChange(candidate, ttl)
  \/ budget.acts > 0 /\ \E f \in Acts, jev \in Decisions \cup {None} : RequestAct(f, jev)
  \/ \E candidate \in Candidates : RevisePlan(candidate)
  \/ \E a \in DOMAIN approvals, candidate \in Candidates : ApplyScopeChange(a, Proposal(candidate))
  \/ \E a \in DOMAIN approvals, r \in DOMAIN requests :
       requests[r].proposal # None /\ ApplyScopeChange(a, requests[r].proposal)
  \/ \E d \in budget.dialogs : \E r \in DOMAIN requests : OpenDialog(d, r)
  \/ \E d \in budget.dialogs, answer \in {"yes", "no", "queued"}, actor \in Actors, ttl \in budget.ttls :
       Answer(d, answer, actor, ttl)
  \/ Sweep
  \/ \E a \in DOMAIN approvals : EndApproval(a)
  \/ InvalidateExpired
  \/ ReconcileSession
  \/ \E t \in Tasks, candidate \in Candidates : ReviseTask(t, candidate[t])
  \/ Tick

-----------------------------------------------------------------------------
\* approvals.ts, "Single use": however many prompts are open on a question and
\* in whatever order they are answered, it produces one approval if it was
\* granted and none otherwise.
OneGrantPerQuestion ==
  \A r \in DOMAIN requests :
    Cardinality({a \in DOMAIN approvals : approvals[a].request = r})
      = (IF requests[r].status = "granted" THEN 1 ELSE 0)

\* grantApproval re-reads the revisions after the answer: a question whose task
\* was redefined or whose plan was revised while the dialog was open never
\* becomes a grant.
RevisedQuestionRefused ==
  \A r \in DOMAIN requests : requests[r].outrun => requests[r].status # "granted"

\* A question is granted at most once, and only while it is the question that
\* was asked: several prompts, late answers and revisions in any order.
GrantedOnceAsAsked == OneGrantPerQuestion /\ RevisedQuestionRefused

\* applyScopeChange: every revision made through it spent a grant of its own,
\* given by a user for that digest at that plan revision, and none of those
\* grants can be used again.
ChangesAuthorisedOnce ==
  /\ \A i, j \in DOMAIN changes : changes[i].approval = changes[j].approval => i = j
  /\ \A i \in DOMAIN changes :
       LET a == changes[i].approval
       IN /\ approvals[a].actor = "user"
          /\ requests[approvals[a].request].action = changes[i].action
          /\ requests[approvals[a].request].planRevision = changes[i].from
          /\ ~Usable(a)

\* An act that cannot be undone, that consumers receive or that loosens a policy,
\* whatever else is known about it (PLAN 7, docs/approval-classes.md)
Grave(f) ==
  \/ f.flags \cap {"touchesDenyPath", "touchesKorwfPolicy", "isPublish", "isDeploy"} # {}
  \/ "isMigration" \in f.flags /\ "targetIsEphemeral" \notin f.flags
  \/ f.op \in {"tag", "force_push", "rewrite", "delete_ref"}
  \/ f.op = "push" /\ {"refOwnedByWorkflow", "remoteIsConfigured"} \cap f.flags # {"refOwnedByWorkflow", "remoteIsConfigured"}
  \/ f.kind = "delete" /\ "gitTracked" \notin f.flags
  \/ f.kind \in {"write", "delete"} /\ "insideWorktree" \notin f.flags

Mutates(f) ==
  f.kind \in {"write", "delete", "exec", "git"} \/ f.op \in {"spawn_worker", "complete_task"}

\* Classifier, table rules and disposition together: under every table the
\* configuration rules accept, nothing is done unasked that is grave, that
\* changes the plan, that mutates in a mode that must not, or about which Jev
\* proposed to ask.
UnaskedActsHarmless ==
  \A act \in performed :
    /\ ~Grave(act.facts)
    /\ act.facts.kind # "plan"
    /\ Mutates(act.facts) => budget.mode \notin NON_MUTATING_MODES
    /\ act.jev \in {None, "auto"}

-----------------------------------------------------------------------------
(* What the documentation says and the code does not do *)

\* approval-classes.ts, "an act that satisfies several rules lands in the most
\* restrictive class": a change of the dependency manifest is done unasked only
\* where the table lets add_dependency through.
ManifestChangesAsked ==
  \A act \in performed :
    /\ act.facts.kind \in {"write", "delete", "exec"}
    /\ "touchesDependencyManifest" \in act.facts.flags
    => RuleDecision("add_dependency", budget.mode, Table) = "auto"
=============================================================================
