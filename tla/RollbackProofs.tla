--------------------------- MODULE RollbackProofs ---------------------------
(***************************************************************************)
(* Proofs about Approvals and Rollback: a question is granted at most once *)
(* and only as it was asked, every scope change and every restore rests on *)
(* a grant, nothing is done unasked that must be asked for, and a restore  *)
(* keeps what it replaces.  The invariant ties the approval rows to the    *)
(* request rows they were granted for; a step may add rows and end them,   *)
(* and never rewrites what they are about.                                 *)
(***************************************************************************)
EXTENDS Rollback, FiniteSetTheorems, TLAPS

-----------------------------------------------------------------------------
(* Unasked acts.                                                           *)

\* An act that is done unasked is of a class the tiers let through, and the
\* rules on the table leave that class no mutation where the mode forbids it.
LEMMA AutoDisposition ==
  ASSUME NEW class \in APPROVAL_CLASSES, NEW mode \in WORKFLOW_MODES, NEW table,
         DOMAIN table = APPROVAL_CLASSES, mode \in DOMAIN table[class],
         table[class][mode] \in Decisions,
         ValidateApprovalClasses(table) = {},
         NEW jev, ResolveDisposition(class, mode, table, jev) = "auto"
  PROVE  /\ class \notin HIGH_RISK_CLASSES \cup NO_AUTO_CLASSES
         /\ mode \in NON_MUTATING_MODES => class \notin MUTATION_CLASSES
         /\ jev \in Decisions => jev = "auto"
  <1> DEFINE rule == RuleDecision(class, mode, table)
  <1>1. rule \in Decisions
    BY DEF RuleDecision, Decisions, DECISION_ORDER
  <1>2. \A a, b \in Decisions : IsMoreRestrictive(a, b) => a # "auto"
    BY DEF IsMoreRestrictive, DECISION_ORDER, Decisions
  <1>3. \A a \in Decisions \ {"auto"} : IsMoreRestrictive(a, "auto")
    BY DEF IsMoreRestrictive, DECISION_ORDER, Decisions
  <1>4. rule = "auto" /\ (jev \in Decisions => jev = "auto")
    <2> HIDE DEF rule
    <2>1. ResolveDisposition(class, mode, table, jev)
            = IF jev \in Decisions /\ IsMoreRestrictive(jev, rule) THEN jev ELSE rule
      BY DEF ResolveDisposition, rule
    <2> QED
      BY <1>1, <1>2, <1>3, <2>1
  <1>5. TierOf(class) = "configurable" /\ table[class][mode] = "auto"
    BY <1>4 DEF RuleDecision, TierOf
  <1>6. ~(mode \in NON_MUTATING_MODES /\ class \in MUTATION_CLASSES)
    BY <1>5 DEF ValidateApprovalClasses
  <1> QED
    BY <1>4, <1>5, <1>6 DEF TierOf

\* The first rule that matches decides; no order of the rules lets a grave act,
\* a change of the plan or a mutation into a class made for something else.
LEMMA ClassifyFaithful ==
  ASSUME NEW f, f.kind \in ActKinds, f.op \in OperationsOf(f.kind)
  PROVE  /\ ClassifyAct(f) \in APPROVAL_CLASSES
         /\ Grave(f) => ClassifyAct(f) \in HIGH_RISK_CLASSES
         /\ f.kind = "plan" => ClassifyAct(f) \in HIGH_RISK_CLASSES \cup NO_AUTO_CLASSES
         /\ Mutates(f) => ClassifyAct(f) \in MUTATION_CLASSES
  <1> DEFINE class == ClassifyAct(f)
             high == \/ f.flags \cap {"touchesDenyPath", "touchesKorwfPolicy", "isPublish", "isDeploy"} # {}
                     \/ "isMigration" \in f.flags /\ "targetIsEphemeral" \notin f.flags
                     \/ f.op \in {"tag", "force_push", "rewrite", "delete_ref"}
                     \/ f.op = "push" /\ ~({"refOwnedByWorkflow", "remoteIsConfigured"} \subseteq f.flags)
                     \/ f.kind = "delete" /\ "gitTracked" \notin f.flags
                     \/ f.kind \in {"write", "delete"} /\ "insideWorktree" \notin f.flags
  <1>1. high => class \in {"credential_access", "modify_policy", "publishing", "deployment",
                           "destructive_git", "remote_push", "destructive_cleanup"}
    BY DEF ClassifyAct, Deploys
  <1>2. ~high => class = ClassifyByKind(f)
    BY DEF ClassifyAct, Deploys
  <1>3. Grave(f) => high
    BY DEF Grave
  <1>4. /\ ClassifyByKind(f) \in CONFIGURABLE_CLASSES \cup {"scope_change", "replan"}
        /\ f.kind = "plan" => ClassifyByKind(f) \in {"scope_change", "replan"}
    BY DEF ClassifyByKind, ClassifyExec, ClassifyInside, ActKinds, OperationsOf, CONFIGURABLE_CLASSES
  <1>5. Mutates(f) => ClassifyByKind(f) \notin {"read_repository", "model_fallback",
                         "model_substitute_more_expensive", "spend_over_estimate"}
    BY DEF Mutates, ClassifyByKind, ClassifyExec, ClassifyInside, ActKinds, OperationsOf
  <1> HIDE DEF class, high
  <1> QED
    BY <1>1, <1>2, <1>3, <1>4, <1>5
    DEF class, APPROVAL_CLASSES, HIGH_RISK_CLASSES, NO_AUTO_CLASSES, CONFIGURABLE_CLASSES,
        MUTATION_CLASSES

-----------------------------------------------------------------------------
(* The invariant.                                                          *)

\* A table: rows under the ids 1, 2, 3, ..., whatever the rows are.
IsTable(s) == s \in Seq({s[i] : i \in DOMAIN s})

IsRequest(x) ==
  x = [action |-> x.action, task |-> x.task, taskRevision |-> x.taskRevision,
       planRevision |-> x.planRevision, expiresAt |-> x.expiresAt, status |-> x.status,
       proposal |-> x.proposal, outrun |-> x.outrun]

IsApproval(x) ==
  x = [request |-> x.request, actor |-> x.actor, action |-> x.action, task |-> x.task,
       taskRevision |-> x.taskRevision, planRevision |-> x.planRevision,
       expiresAt |-> x.expiresAt, standing |-> x.standing]

\* A question is about revisions that are not ahead, and about older ones once
\* it has been outrun.
RequestInv(r) ==
  LET q == requests[r]
  IN /\ IsRequest(q)
     /\ q.task \in Tasks \cup {None}
     /\ q.planRevision \in Nat /\ q.planRevision <= planRevision
     /\ q.task # None => q.taskRevision \in Nat /\ q.taskRevision <= taskRevision[q.task]
     /\ q.outrun \in BOOLEAN
     /\ q.outrun => \/ q.planRevision < planRevision
                    \/ q.task # None /\ q.taskRevision < taskRevision[q.task]
     /\ q.outrun => q.status # "granted"

\* A grant answers a question, and is about what that question asked.
ApprovalInv(a) ==
  LET g == approvals[a]
      q == requests[g.request]
  IN /\ IsApproval(g)
     /\ g.request \in DOMAIN requests /\ q.status = "granted"
     /\ g.action = q.action /\ g.task = q.task
     /\ g.taskRevision = q.taskRevision /\ g.planRevision = q.planRevision
     /\ g.standing \in BOOLEAN

GrantInv ==
  /\ planRevision \in Nat /\ taskRevision \in [Tasks -> Nat]
  /\ IsTable(requests) /\ IsTable(approvals)
  /\ \A r \in DOMAIN requests : RequestInv(r)
  /\ \A a \in DOMAIN approvals : ApprovalInv(a)
  /\ \A a, b \in DOMAIN approvals : approvals[a].request = approvals[b].request => a = b
  /\ \A r \in DOMAIN requests :
       requests[r].status = "granted" => \E a \in DOMAIN approvals : approvals[a].request = r

\* A change spent a grant that no longer stands, and no two the same.
ChangeInv ==
  /\ IsTable(changes)
  /\ \A i \in DOMAIN changes :
       LET a == changes[i].approval
       IN /\ a \in DOMAIN approvals
          /\ approvals[a].actor = "user" /\ ~approvals[a].standing
          /\ requests[approvals[a].request].action = changes[i].action
          /\ requests[approvals[a].request].planRevision = changes[i].from
  /\ \A i, j \in DOMAIN changes : changes[i].approval = changes[j].approval => i = j

\* The mode and the table of a behaviour stay what intake accepted.
PolicyInv ==
  /\ {"mode", "loosened"} \subseteq DOMAIN budget
  /\ budget.mode \in WORKFLOW_MODES
  /\ budget.loosened \in (APPROVAL_CLASSES \X WORKFLOW_MODES) \cup {None}
  /\ ValidateApprovalClasses(Table) = {}

TreeInv ==
  /\ DOMAIN tree = Trees
  /\ target \in Trees
  /\ IsTable(restores)

\* The proposal a restore is under way for has a usable approval.
JobApproved ==
  \E a \in DOMAIN approvals :
    /\ Usable(a) /\ approvals[a].action = RollbackAction(job.rollback)
    /\ approvals[a].actor = "user"
    /\ job.task # None => approvals[a].task = job.task

\* Between its capture and the overwriting a restore is still authorised and
\* not done yet, and what is in its tree is held or was written since.
JobInv ==
  /\ edits \in Nat
  /\ job # None =>
       /\ "stage" \in DOMAIN job
       /\ job.stage = "captured" =>
            /\ JobApproved
            /\ job.act \notin receipts
            /\ job.into # "main"
            /\ job.since \in Nat /\ job.since <= edits
            /\ tree[job.into] <= job.since => tree[job.into] \in refs

IInv == /\ GrantInv /\ ChangeInv /\ PolicyInv /\ UnaskedActsHarmless
        /\ TreeInv /\ JobInv /\ RestoresAuthorised /\ OverwrittenPreserved

-----------------------------------------------------------------------------
(* Tables and rows.                                                        *)

\* Appending a row leaves the rows there are.
LEMMA TableAppend ==
  ASSUME NEW s, IsTable(s), NEW e
  PROVE  /\ IsTable(Append(s, e))
         /\ DOMAIN Append(s, e) = DOMAIN s \cup {Len(s) + 1} /\ Len(s) + 1 \notin DOMAIN s
         /\ Len(Append(s, e)) = Len(s) + 1
         /\ \A i \in DOMAIN s : Append(s, e)[i] = s[i]
         /\ Append(s, e)[Len(s) + 1] = e
  <1> DEFINE S == {s[i] : i \in DOMAIN s}
             T == S \cup {e}
  <1>1. s \in Seq(S) /\ S \subseteq T /\ e \in T
    BY DEF IsTable
  <1> HIDE DEF S, T
  <1>2. s \in Seq(T)
    BY <1>1
  <1>3. Append(s, e) \in Seq(T)
    BY <1>1, <1>2
  <1>4. /\ DOMAIN s = 1..Len(s) /\ Len(s) \in Nat
        /\ DOMAIN Append(s, e) = 1..(Len(s) + 1) /\ Len(Append(s, e)) = Len(s) + 1
        /\ \A i \in 1..Len(s) : Append(s, e)[i] = s[i]
        /\ Append(s, e)[Len(s) + 1] = e
    BY <1>1, <1>2
  <1>5. \A i \in DOMAIN Append(s, e) : Append(s, e)[i] \in {Append(s, e)[j] : j \in DOMAIN Append(s, e)}
    OBVIOUS
  <1>6. IsTable(Append(s, e))
    BY <1>3, <1>4, <1>5 DEF IsTable
  <1> QED
    BY <1>4, <1>6

\* A table of rewritten rows has the ids it had.
LEMMA TableRewrite ==
  ASSUME NEW s, IsTable(s), NEW f, f = [i \in DOMAIN s |-> f[i]]
  PROVE  IsTable(f) /\ DOMAIN f = DOMAIN s
  <1>1. DOMAIN s = 1..Len(s) /\ Len(s) \in Nat
    BY DEF IsTable
  <1>2. f \in [1..Len(s) -> {f[i] : i \in DOMAIN f}]
    BY <1>1
  <1> QED
    BY <1>1, <1>2 DEF IsTable

\* Resolving changes the status of pending requests, and nothing else.
LEMMA ResolvedRows ==
  ASSUME IsTable(requests), \A r \in DOMAIN requests : IsRequest(requests[r]),
         NEW S, NEW status
  PROVE  LET rows == Resolved(S, status)
         IN /\ IsTable(rows) /\ DOMAIN rows = DOMAIN requests
            /\ \A r \in DOMAIN requests :
                 /\ IsRequest(rows[r])
                 /\ rows[r] = requests[r] \/ (r \in S \cap Pending /\ rows[r].status = status)
                 /\ r \in S \cap Pending => rows[r].status = status
                 /\ rows[r].action = requests[r].action /\ rows[r].task = requests[r].task
                 /\ rows[r].taskRevision = requests[r].taskRevision
                 /\ rows[r].planRevision = requests[r].planRevision
                 /\ rows[r].outrun = requests[r].outrun
  <1> DEFINE rows == Resolved(S, status)
  <1>1. rows = [r \in DOMAIN requests |-> rows[r]]
    BY DEF Resolved
  <1>2. IsTable(rows) /\ DOMAIN rows = DOMAIN requests
    BY <1>1, TableRewrite
  <1>3. ASSUME NEW r \in DOMAIN requests
        PROVE  /\ r \notin S \cap Pending => rows[r] = requests[r]
               /\ r \in S \cap Pending => rows[r] = [requests[r] EXCEPT !.status = status]
    BY DEF Resolved
  <1> HIDE DEF rows
  <1> QED
    BY <1>2, <1>3 DEF IsRequest, rows

\* A revision marks the questions it overtakes, and changes nothing else in them.
LEMMA OutrunRows ==
  ASSUME IsTable(requests), \A r \in DOMAIN requests : IsRequest(requests[r]), NEW S
  PROVE  LET rows == Outrun(S)
         IN /\ IsTable(rows) /\ DOMAIN rows = DOMAIN requests
            /\ \A r \in DOMAIN requests :
                 /\ IsRequest(rows[r])
                 /\ r \in S \cap Pending => rows[r].outrun = TRUE
                 /\ r \notin S \cap Pending => rows[r] = requests[r]
                 /\ rows[r].status = requests[r].status
                 /\ rows[r].action = requests[r].action /\ rows[r].task = requests[r].task
                 /\ rows[r].taskRevision = requests[r].taskRevision
                 /\ rows[r].planRevision = requests[r].planRevision
  <1> DEFINE rows == Outrun(S)
  <1>1. rows = [r \in DOMAIN requests |-> rows[r]]
    BY DEF Outrun
  <1>2. IsTable(rows) /\ DOMAIN rows = DOMAIN requests
    BY <1>1, TableRewrite
  <1>3. ASSUME NEW r \in DOMAIN requests
        PROVE  /\ r \notin S \cap Pending => rows[r] = requests[r]
               /\ r \in S \cap Pending => rows[r] = [requests[r] EXCEPT !.outrun = TRUE]
    BY DEF Outrun
  <1> HIDE DEF rows
  <1> QED
    BY <1>2, <1>3 DEF IsRequest, rows

\* Invalidating ends approvals, and changes nothing else in them.
LEMMA InvalidatedRows ==
  ASSUME IsTable(approvals), \A a \in DOMAIN approvals : IsApproval(approvals[a]), NEW S
  PROVE  LET rows == Invalidated(S)
         IN /\ IsTable(rows) /\ DOMAIN rows = DOMAIN approvals
            /\ \A a \in DOMAIN approvals :
                 /\ IsApproval(rows[a])
                 /\ a \in S => rows[a].standing = FALSE
                 /\ a \notin S => rows[a] = approvals[a]
                 /\ rows[a].request = approvals[a].request /\ rows[a].actor = approvals[a].actor
                 /\ rows[a].action = approvals[a].action /\ rows[a].task = approvals[a].task
                 /\ rows[a].taskRevision = approvals[a].taskRevision
                 /\ rows[a].planRevision = approvals[a].planRevision
  <1> DEFINE rows == Invalidated(S)
  <1>1. rows = [a \in DOMAIN approvals |-> rows[a]]
    BY DEF Invalidated
  <1>2. IsTable(rows) /\ DOMAIN rows = DOMAIN approvals
    BY <1>1, TableRewrite
  <1>3. ASSUME NEW a \in DOMAIN approvals
        PROVE  /\ a \notin S => rows[a] = approvals[a]
               /\ a \in S => rows[a] = [approvals[a] EXCEPT !.standing = FALSE]
    BY DEF Invalidated
  <1> HIDE DEF rows
  <1> QED
    BY <1>2, <1>3 DEF IsApproval, rows

-----------------------------------------------------------------------------
(* Steps on the two tables.                                                *)

\* No step takes a row away or rewrites what it is about, and none lets an
\* approval stand that had ended.
RowsKept ==
  /\ DOMAIN requests \subseteq DOMAIN requests' /\ DOMAIN approvals \subseteq DOMAIN approvals'
  /\ \A r \in DOMAIN requests :
       /\ requests'[r].action = requests[r].action
       /\ requests'[r].taskRevision = requests[r].taskRevision
       /\ requests'[r].planRevision = requests[r].planRevision
  /\ \A a \in DOMAIN approvals :
       /\ approvals'[a].request = approvals[a].request /\ approvals'[a].actor = approvals[a].actor
       /\ approvals'[a].standing => approvals[a].standing

\* A question asked about revisions that are not ahead.
LEMMA AskKeeps ==
  ASSUME GrantInv, NEW action, NEW scope \in Tasks \cup {None}, NEW revision,
         scope # None => revision \in Nat /\ revision <= taskRevision[scope],
         NEW proposal, NEW ttl, NEW jev,
         RequestApproval(Question(action, scope, revision), proposal, ttl, jev),
         UNCHANGED <<approvals, planRevision, taskRevision>>
  PROVE  GrantInv' /\ RowsKept
  <1> DEFINE row == NewRequest(Question(action, scope, revision), proposal, ttl)
  <1>1. requests' = Append(requests, row)
    BY DEF RequestApproval
  <1>2. /\ IsRequest(row) /\ row.task = scope /\ row.planRevision = planRevision
        /\ row.taskRevision = revision /\ row.status = "pending"
        /\ row.outrun \in BOOLEAN /\ ~row.outrun
    BY DEF NewRequest, Question, IsRequest
  <1> HIDE DEF row
  <1>3. /\ IsTable(requests') /\ DOMAIN requests' = DOMAIN requests \cup {Len(requests) + 1}
        /\ Len(requests) + 1 \notin DOMAIN requests
        /\ \A r \in DOMAIN requests : requests'[r] = requests[r]
        /\ requests'[Len(requests) + 1] = row
    BY <1>1, TableAppend DEF GrantInv
  <1>4. ASSUME NEW r \in DOMAIN requests' PROVE RequestInv(r)'
    <2>1. CASE r \in DOMAIN requests
      <3>1. RequestInv(r) /\ requests'[r] = requests[r]
        BY <1>3, <2>1 DEF GrantInv
      <3> QED
        BY <3>1 DEF RequestInv
    <2>2. CASE r = Len(requests) + 1
      <3>1. planRevision \in Nat /\ requests'[r] = row
        BY <1>3, <2>2 DEF GrantInv
      <3> QED
        BY <1>2, <3>1 DEF RequestInv
    <2> QED
      BY <1>3, <2>1, <2>2
  <1>5. \A a \in DOMAIN approvals : ApprovalInv(a)'
    BY <1>3 DEF GrantInv, ApprovalInv
  <1>6. \A r \in DOMAIN requests' :
          requests'[r].status = "granted" => \E a \in DOMAIN approvals : approvals[a].request = r
    BY <1>2, <1>3 DEF GrantInv
  <1> QED
    BY <1>3, <1>4, <1>5, <1>6 DEF GrantInv, RowsKept

\* Pending questions are closed.
LEMMA CloseKeeps ==
  ASSUME GrantInv, NEW S, requests' = Resolved(S, "closed"),
         UNCHANGED <<approvals, planRevision, taskRevision>>
  PROVE  GrantInv' /\ RowsKept
  <1>1. /\ IsTable(requests') /\ DOMAIN requests' = DOMAIN requests
        /\ \A r \in DOMAIN requests :
             /\ IsRequest(requests'[r])
             /\ requests'[r] = requests[r] \/ (r \in Pending /\ requests'[r].status = "closed")
             /\ requests'[r].action = requests[r].action /\ requests'[r].task = requests[r].task
             /\ requests'[r].taskRevision = requests[r].taskRevision
             /\ requests'[r].planRevision = requests[r].planRevision
             /\ requests'[r].outrun = requests[r].outrun
    BY ResolvedRows DEF GrantInv, RequestInv
  <1>2. \A r \in DOMAIN requests : RequestInv(r)'
    BY <1>1 DEF GrantInv, RequestInv
  <1>3. \A a \in DOMAIN approvals : ApprovalInv(a)'
    BY <1>1 DEF GrantInv, ApprovalInv, Pending
  <1>4. \A r \in DOMAIN requests :
          requests'[r].status = "granted" => \E a \in DOMAIN approvals : approvals[a].request = r
    BY <1>1 DEF GrantInv
  <1> QED
    BY <1>1, <1>2, <1>3, <1>4 DEF GrantInv, RowsKept

\* A pending question that is not stale is granted.
LEMMA GrantKeeps ==
  ASSUME GrantInv, NEW r \in Pending, NEW actor, NEW now, NEW ttl, ~RequestStale(r, now),
         approvals' = Append(approvals, Grant(r, actor, now, ttl)),
         requests' = Resolved({r}, "granted"), UNCHANGED <<planRevision, taskRevision>>
  PROVE  GrantInv' /\ RowsKept
  <1> DEFINE new == Len(approvals) + 1
             row == Grant(r, actor, now, ttl)
  <1>1. r \in DOMAIN requests /\ requests[r].status = "pending"
    BY DEF Pending
  <1>2. /\ IsTable(requests') /\ DOMAIN requests' = DOMAIN requests
        /\ \A q \in DOMAIN requests :
             /\ IsRequest(requests'[q])
             /\ q # r => requests'[q] = requests[q]
             /\ requests'[q].action = requests[q].action /\ requests'[q].task = requests[q].task
             /\ requests'[q].taskRevision = requests[q].taskRevision
             /\ requests'[q].planRevision = requests[q].planRevision
             /\ requests'[q].outrun = requests[q].outrun
        /\ requests'[r].status = "granted"
    BY <1>1, ResolvedRows DEF GrantInv, RequestInv
  <1>3. /\ IsApproval(row) /\ row.request = r /\ row.standing \in BOOLEAN
        /\ row.action = requests[r].action /\ row.task = requests[r].task
        /\ row.taskRevision = requests[r].taskRevision
        /\ row.planRevision = requests[r].planRevision
    BY DEF Grant, IsApproval
  <1> HIDE DEF row
  <1>4. /\ IsTable(approvals') /\ DOMAIN approvals' = DOMAIN approvals \cup {new}
        /\ new \notin DOMAIN approvals
        /\ \A a \in DOMAIN approvals : approvals'[a] = approvals[a]
        /\ approvals'[new] = row
    BY TableAppend DEF GrantInv, row
  <1> HIDE DEF new
  <1>5. requests[r].outrun = FALSE
    BY <1>1 DEF GrantInv, RequestInv, RequestStale
  <1>6. ASSUME NEW q \in DOMAIN requests PROVE RequestInv(q)'
    <2>1. RequestInv(q)
      BY DEF GrantInv
    <2>2. CASE q = r
      BY <1>2, <1>5, <2>1, <2>2 DEF RequestInv
    <2>3. CASE q # r
      BY <1>2, <2>1, <2>3 DEF RequestInv
    <2> QED
      BY <2>2, <2>3
  <1>7. \A a \in DOMAIN approvals : approvals[a].request # r
    BY <1>1 DEF GrantInv, ApprovalInv
  <1>8. ASSUME NEW a \in DOMAIN approvals' PROVE ApprovalInv(a)'
    <2>1. CASE a \in DOMAIN approvals
      <3>1. ApprovalInv(a) /\ approvals'[a] = approvals[a] /\ approvals[a].request # r
        BY <1>4, <1>7, <2>1 DEF GrantInv
      <3> QED
        BY ZenonT(60), <1>2, <3>1 DEF ApprovalInv
    <2>2. CASE a = new
      <3>1. approvals'[a] = row
        BY <1>4, <2>2
      <3>2. /\ IsApproval(approvals'[a]) /\ approvals'[a].request = r
            /\ approvals'[a].standing \in BOOLEAN
            /\ approvals'[a].action = requests'[r].action /\ approvals'[a].task = requests'[r].task
            /\ approvals'[a].taskRevision = requests'[r].taskRevision
            /\ approvals'[a].planRevision = requests'[r].planRevision
        BY <1>1, <1>2, <1>3, <3>1
      <3> QED
        BY <1>1, <1>2, <3>2 DEF ApprovalInv
    <2> QED
      BY <1>4, <2>1, <2>2
  <1>9. \A a, b \in DOMAIN approvals' : approvals'[a].request = approvals'[b].request => a = b
    BY <1>3, <1>4, <1>7 DEF GrantInv
  <1>10. \A q \in DOMAIN requests :
           requests'[q].status = "granted" => \E a \in DOMAIN approvals' : approvals'[a].request = q
    <2>1. new \in DOMAIN approvals' /\ approvals'[new].request = r
      BY <1>3, <1>4
    <2>2. ASSUME NEW q \in DOMAIN requests, requests'[q].status = "granted", q # r
          PROVE  \E a \in DOMAIN approvals' : approvals'[a].request = q
      <3>1. PICK a \in DOMAIN approvals : approvals[a].request = q
        BY <1>2, <2>2 DEF GrantInv
      <3> QED
        BY <1>4, <3>1
    <2> QED
      BY <2>1, <2>2
  <1> QED
    BY <1>2, <1>4, <1>6, <1>8, <1>9, <1>10 DEF GrantInv, RowsKept

\* Approvals end and questions are outrun; a question that is still pending and
\* about a revision that moved is among those outrun.
LEMMA ReviseKeeps ==
  ASSUME GrantInv, NEW ended, NEW overtaken,
         approvals' = Invalidated(ended), requests' = Outrun(overtaken),
         planRevision' \in Nat, planRevision <= planRevision',
         taskRevision' \in [Tasks -> Nat], \A t \in Tasks : taskRevision[t] <= taskRevision'[t],
         \A r \in overtaken \cap Pending :
           \/ planRevision < planRevision'
           \/ /\ requests[r].task # None
              /\ taskRevision[requests[r].task] < taskRevision'[requests[r].task]
  PROVE  GrantInv' /\ RowsKept
  <1>1. /\ IsTable(requests') /\ DOMAIN requests' = DOMAIN requests
        /\ \A r \in DOMAIN requests :
             /\ IsRequest(requests'[r])
             /\ r \in overtaken \cap Pending => requests'[r].outrun = TRUE
             /\ r \notin overtaken \cap Pending => requests'[r] = requests[r]
             /\ requests'[r].status = requests[r].status
             /\ requests'[r].action = requests[r].action /\ requests'[r].task = requests[r].task
             /\ requests'[r].taskRevision = requests[r].taskRevision
             /\ requests'[r].planRevision = requests[r].planRevision
    <2>1. IsTable(requests) /\ \A r \in DOMAIN requests : IsRequest(requests[r])
      BY DEF GrantInv, RequestInv
    <2> QED
      BY ZenonT(60), <2>1, OutrunRows
  <1>2. /\ IsTable(approvals') /\ DOMAIN approvals' = DOMAIN approvals
        /\ \A a \in DOMAIN approvals :
             /\ IsApproval(approvals'[a])
             /\ approvals'[a].standing = FALSE \/ approvals'[a] = approvals[a]
             /\ approvals'[a].request = approvals[a].request
             /\ approvals'[a].actor = approvals[a].actor
             /\ approvals'[a].action = approvals[a].action
             /\ approvals'[a].task = approvals[a].task
             /\ approvals'[a].taskRevision = approvals[a].taskRevision
             /\ approvals'[a].planRevision = approvals[a].planRevision
    <2>1. IsTable(approvals) /\ \A a \in DOMAIN approvals : IsApproval(approvals[a])
      BY DEF GrantInv, ApprovalInv
    <2> QED
      BY ZenonT(60), <2>1, InvalidatedRows
  <1>3. ASSUME NEW r \in DOMAIN requests PROVE RequestInv(r)'
    <2>1. /\ RequestInv(r)
          /\ requests[r].task # None => taskRevision[requests[r].task] \in Nat
                                        /\ taskRevision'[requests[r].task] \in Nat
                                        /\ taskRevision[requests[r].task]
                                             <= taskRevision'[requests[r].task]
      BY <1>3 DEF GrantInv, RequestInv
    <2>2. planRevision \in Nat
      BY DEF GrantInv
    <2>3. CASE r \in overtaken \cap Pending
      <3>1. requests[r].status = "pending" /\ requests'[r].outrun = TRUE
        BY <1>1, <2>3 DEF Pending
      <3>2. requests'[r].outrun \in BOOLEAN
        BY <3>1, Zenon
      <3>3. \/ requests[r].planRevision < planRevision'
            \/ /\ requests[r].task # None
               /\ requests[r].taskRevision < taskRevision'[requests[r].task]
        BY <2>1, <2>2, <2>3 DEF RequestInv
      <3> QED
        BY <1>1, <2>1, <2>2, <3>1, <3>2, <3>3 DEF RequestInv
    <2>4. CASE r \notin overtaken \cap Pending
      BY <1>1, <2>1, <2>2, <2>4 DEF RequestInv
    <2> QED
      BY <2>3, <2>4
  <1>4. ASSUME NEW a \in DOMAIN approvals PROVE ApprovalInv(a)'
    <2>1. ApprovalInv(a)
      BY DEF GrantInv
    <2>2. approvals'[a].standing \in BOOLEAN
      BY <1>2, <2>1 DEF ApprovalInv
    <2> QED
      BY <1>1, <1>2, <2>1, <2>2 DEF ApprovalInv
  <1>5. \A r \in DOMAIN requests :
          requests'[r].status = "granted" => \E a \in DOMAIN approvals' : approvals'[a].request = r
    BY <1>1, <1>2 DEF GrantInv
  <1>6. \A a, b \in DOMAIN approvals' : approvals'[a].request = approvals'[b].request => a = b
    BY <1>2 DEF GrantInv
  <1> QED
    BY <1>1, <1>2, <1>3, <1>4, <1>5, <1>6 DEF GrantInv, RowsKept

\* Approvals end.
LEMMA EndKeeps ==
  ASSUME GrantInv, NEW ended, approvals' = Invalidated(ended),
         UNCHANGED <<requests, planRevision, taskRevision>>
  PROVE  GrantInv' /\ RowsKept
  <1>1. requests' = Outrun({})
    BY DEF Outrun, GrantInv, IsTable
  <1>2. planRevision' \in Nat /\ planRevision <= planRevision'
        /\ taskRevision' \in [Tasks -> Nat] /\ \A t \in Tasks : taskRevision[t] <= taskRevision'[t]
    BY DEF GrantInv
  <1> QED
    BY <1>1, <1>2, ReviseKeeps

-----------------------------------------------------------------------------
(* What rests on the two tables.                                           *)

\* Changes made earlier still have their grants.
LEMMA ChangesKept ==
  ASSUME GrantInv, ChangeInv, RowsKept, UNCHANGED changes
  PROVE  ChangeInv'
  <1>1. \A a \in DOMAIN approvals : approvals[a].request \in DOMAIN requests
    BY DEF GrantInv, ApprovalInv
  <1>2. \A a \in DOMAIN approvals :
          /\ a \in DOMAIN approvals' /\ approvals'[a].actor = approvals[a].actor
          /\ approvals'[a].standing => approvals[a].standing
          /\ requests'[approvals'[a].request].action = requests[approvals[a].request].action
          /\ requests'[approvals'[a].request].planRevision
               = requests[approvals[a].request].planRevision
    BY <1>1 DEF RowsKept
  <1> QED
    BY <1>2 DEF ChangeInv

\* So have restores.
LEMMA RestoresKept ==
  ASSUME GrantInv, RestoresAuthorised, RowsKept, UNCHANGED restores
  PROVE  RestoresAuthorised'
  <1>1. \A a \in DOMAIN approvals : approvals[a].request \in DOMAIN requests
    BY DEF GrantInv, ApprovalInv
  <1>2. \A a \in DOMAIN approvals :
          /\ a \in DOMAIN approvals' /\ approvals'[a].actor = approvals[a].actor
          /\ requests'[approvals'[a].request].action = requests[approvals[a].request].action
          /\ requests'[approvals'[a].request].planRevision
               = requests[approvals[a].request].planRevision
          /\ requests'[approvals'[a].request].taskRevision
               = requests[approvals[a].request].taskRevision
    BY <1>1 DEF RowsKept
  <1>3. \A p : RollbackAction(p)' = RollbackAction(p)
    BY DEF RollbackAction
  <1> QED
    BY <1>2, <1>3 DEF RestoresAuthorised

\* Spending from a bound changes neither mode nor table.
LEMMA SpendKeeps ==
  ASSUME PolicyInv, NEW what \in {"configurable", "no_auto", "high_risk", "acts"}, Spend(what)
  PROVE  PolicyInv' /\ budget'.mode = budget.mode
  <1>1. /\ budget'.mode = budget.mode /\ budget'.loosened = budget.loosened
        /\ DOMAIN budget' = DOMAIN budget
    BY DEF PolicyInv, Spend
  <1>2. Table' = Table
    BY <1>1 DEF Table
  <1> QED
    BY <1>1, <1>2 DEF PolicyInv, ValidateApprovalClasses

\* The table of a behaviour has a decision for every class and mode.
LEMMA TableDecides ==
  ASSUME PolicyInv
  PROVE  /\ DOMAIN Table = APPROVAL_CLASSES
         /\ \A class \in APPROVAL_CLASSES :
              DOMAIN Table[class] = WORKFLOW_MODES
              /\ \A mode \in WORKFLOW_MODES : Table[class][mode] \in Decisions
  <1> DEFINE Row == [WORKFLOW_MODES -> Decisions]
  <1>1. \A a, b, c, d \in Decisions : PerMode(a, b, c, d) \in Row
    BY DEF PerMode, WORKFLOW_MODES, Decisions
  <1>2. {"auto", "queue", "stop"} \subseteq Decisions
    BY DEF Decisions, DECISION_ORDER
  <1>3. DEFAULT_APPROVAL_CLASSES \in [APPROVAL_CLASSES -> Row]
    BY <1>1, <1>2 DEF DEFAULT_APPROVAL_CLASSES
  <1>4. Table \in [APPROVAL_CLASSES -> Row]
    <2>1. CASE budget.loosened = None
      BY <1>3, <2>1 DEF Table
    <2>2. CASE budget.loosened # None
      BY <1>2, <1>3, <2>2 DEF Table, PolicyInv
    <2> QED
      BY <2>1, <2>2
  <1> QED
    BY <1>4

\* An act is done unasked only where it is harmless.
LEMMA ActKeeps ==
  ASSUME PolicyInv, UnaskedActsHarmless, NEW f \in Acts, NEW jev \in Decisions \cup {None},
         RequestAct(f, jev)
  PROVE  PolicyInv' /\ UnaskedActsHarmless'
  <1>1. PolicyInv' /\ budget'.mode = budget.mode
    BY SpendKeeps DEF RequestAct
  <1>2. CASE UNCHANGED performed
    BY <1>1, <1>2 DEF UnaskedActsHarmless
  <1>3. CASE /\ Decision(ClassifiedAct(f), jev) = "auto"
             /\ performed' = performed \cup {[facts |-> f, jev |-> jev]}
    <2>1. f.kind \in ActKinds /\ f.op \in OperationsOf(f.kind)
      BY ApprovalConstants
    <2>2. /\ ClassifyAct(f) \in APPROVAL_CLASSES
          /\ Grave(f) => ClassifyAct(f) \in HIGH_RISK_CLASSES
          /\ f.kind = "plan" => ClassifyAct(f) \in HIGH_RISK_CLASSES \cup NO_AUTO_CLASSES
          /\ Mutates(f) => ClassifyAct(f) \in MUTATION_CLASSES
      BY <2>1, ClassifyFaithful
    <2>3. ClassOf(ClassifiedAct(f)) = ClassifyAct(f)
      <3>1. "rollback_checkpoint" \notin APPROVAL_CLASSES
        BY DEF APPROVAL_CLASSES, CONFIGURABLE_CLASSES, NO_AUTO_CLASSES, HIGH_RISK_CLASSES
      <3> QED
        BY <2>2, <3>1 DEF ClassOf, ClassifiedAct
    <2>4. ResolveDisposition(ClassifyAct(f), budget.mode, Table, jev) = "auto"
      BY <1>3, <2>3 DEF Decision
    <2>5. budget.mode \in WORKFLOW_MODES /\ ValidateApprovalClasses(Table) = {}
      BY DEF PolicyInv
    <2>6. /\ ClassifyAct(f) \notin HIGH_RISK_CLASSES \cup NO_AUTO_CLASSES
          /\ budget.mode \in NON_MUTATING_MODES => ClassifyAct(f) \notin MUTATION_CLASSES
          /\ jev \in Decisions => jev = "auto"
      BY <2>2, <2>4, <2>5, TableDecides, AutoDisposition
    <2>7. /\ ~Grave(f) /\ f.kind # "plan"
          /\ Mutates(f) => budget.mode \notin NON_MUTATING_MODES
          /\ jev \in {None, "auto"}
      BY <2>2, <2>6
    <2> QED
      BY <1>1, <1>3, <2>7 DEF UnaskedActsHarmless
  <1> QED
    BY <1>2, <1>3 DEF RequestAct

-----------------------------------------------------------------------------
(* The steps.                                                              *)

\* What the approvals' own steps keep.
Held == GrantInv /\ ChangeInv /\ PolicyInv /\ UnaskedActsHarmless

\* A step that keeps the two tables and neither changes the plan through a
\* grant nor does an act keeps all of it.
LEMMA QuietKeeps ==
  ASSUME Held, GrantInv', RowsKept, UNCHANGED <<changes, performed, budget>>
  PROVE  Held' /\ RowsKept
  <1>1. ChangeInv'
    BY ChangesKept DEF Held
  <1>2. PolicyInv' /\ UnaskedActsHarmless'
    BY DEF Held, PolicyInv, UnaskedActsHarmless, Table
  <1> QED
    BY <1>1, <1>2 DEF Held

\* So does one that asks.
LEMMA SpendingKeeps ==
  ASSUME Held, GrantInv', RowsKept, UNCHANGED <<changes, performed>>,
         NEW what \in {"configurable", "no_auto", "high_risk", "acts"}, Spend(what)
  PROVE  Held' /\ RowsKept
  <1>1. ChangeInv'
    BY ChangesKept DEF Held
  <1>2. PolicyInv' /\ UnaskedActsHarmless'
    BY SpendKeeps DEF Held, UnaskedActsHarmless
  <1> QED
    BY <1>1, <1>2 DEF Held

\* A revision of the plan ends every approval and overtakes every question.
LEMMA RevisePlanKeeps ==
  ASSUME GrantInv, NEW candidate, RevisePlanTo(candidate)
  PROVE  /\ GrantInv' /\ RowsKept
         /\ \A a \in DOMAIN approvals : ~approvals'[a].standing
  <1>1. /\ planRevision' \in Nat /\ planRevision < planRevision'
        /\ taskRevision' \in [Tasks -> Nat] /\ \A t \in Tasks : taskRevision[t] <= taskRevision'[t]
    BY DEF GrantInv, RevisePlanTo
  <1>2. planRevision <= planRevision'
    BY <1>1 DEF GrantInv
  <1>3. GrantInv' /\ RowsKept
    BY <1>1, <1>2, ReviseKeeps DEF RevisePlanTo
  <1>4. ASSUME NEW a \in DOMAIN approvals PROVE ~approvals'[a].standing
    <2>1. IsTable(approvals) /\ \A b \in DOMAIN approvals : IsApproval(approvals[b])
      BY DEF GrantInv, ApprovalInv
    <2>2. approvals' = Invalidated(Standing)
      BY DEF RevisePlanTo
    <2>3. /\ a \in Standing => approvals'[a].standing = FALSE
          /\ a \notin Standing => approvals'[a] = approvals[a]
      BY <2>1, <2>2, InvalidatedRows
    <2> QED
      BY <2>3 DEF Standing
  <1> QED
    BY <1>3, <1>4

\* A change of the plan spends a grant that stands, and none stands after it.
LEMMA ApplyKeeps ==
  ASSUME Held, NEW a \in DOMAIN approvals, NEW p, ApplyScopeChange(a, p)
  PROVE  Held' /\ RowsKept
  <1> DEFINE row == [approval |-> a, action |-> PermittedAction(p), from |-> p.from]
  <1>1. /\ GrantInv' /\ RowsKept
        /\ \A b \in DOMAIN approvals : ~approvals'[b].standing
    BY RevisePlanKeeps DEF ApplyScopeChange, Held
  <1>2. /\ approvals[a].standing /\ approvals[a].actor = "user"
        /\ approvals[a].action = PermittedAction(p) /\ approvals[a].planRevision = p.from
    BY DEF ApplyScopeChange, ApprovalCovers, Standing
  <1>3. changes' = Append(changes, row)
    BY DEF ApplyScopeChange
  <1>4. row.approval = a /\ row.action = PermittedAction(p) /\ row.from = p.from
    OBVIOUS
  <1> HIDE DEF row
  <1>5. /\ IsTable(changes') /\ DOMAIN changes' = DOMAIN changes \cup {Len(changes) + 1}
        /\ \A i \in DOMAIN changes : changes'[i] = changes[i]
        /\ changes'[Len(changes) + 1] = row /\ Len(changes) + 1 \notin DOMAIN changes
    BY <1>3, TableAppend DEF Held, ChangeInv
  <1>6. \A b \in DOMAIN approvals :
          /\ approvals[b].request \in DOMAIN requests
          /\ approvals[b].action = requests[approvals[b].request].action
          /\ approvals[b].planRevision = requests[approvals[b].request].planRevision
    BY DEF Held, GrantInv, ApprovalInv
  <1>7. \A b \in DOMAIN approvals :
          /\ b \in DOMAIN approvals' /\ approvals'[b].actor = approvals[b].actor
          /\ requests'[approvals'[b].request].action = requests[approvals[b].request].action
          /\ requests'[approvals'[b].request].planRevision
               = requests[approvals[b].request].planRevision
    BY <1>1, <1>6 DEF RowsKept
  <1>8. \A i \in DOMAIN changes : changes[i].approval # a
    BY <1>2 DEF Held, ChangeInv
  <1>9. ChangeInv'
    <2>1. ASSUME NEW i \in DOMAIN changes'
          PROVE  LET b == changes'[i].approval
                 IN /\ b \in DOMAIN approvals'
                    /\ approvals'[b].actor = "user" /\ ~approvals'[b].standing
                    /\ requests'[approvals'[b].request].action = changes'[i].action
                    /\ requests'[approvals'[b].request].planRevision = changes'[i].from
      <3>1. CASE i \in DOMAIN changes
        BY <1>1, <1>5, <1>7, <3>1 DEF Held, ChangeInv
      <3>2. CASE i = Len(changes) + 1
        BY <1>1, <1>2, <1>4, <1>5, <1>6, <1>7, <3>2
      <3> QED
        BY <1>5, <3>1, <3>2
    <2>2. \A i, j \in DOMAIN changes' : changes'[i].approval = changes'[j].approval => i = j
      BY <1>4, <1>5, <1>8 DEF Held, ChangeInv
    <2> QED
      BY <1>5, <2>1, <2>2 DEF ChangeInv
  <1>10. PolicyInv' /\ UnaskedActsHarmless'
    BY DEF ApplyScopeChange, Held, PolicyInv, UnaskedActsHarmless, Table
  <1> QED
    BY <1>1, <1>9, <1>10 DEF Held

LEMMA ApprovalStep ==
  ASSUME Held, ApprovalNext
  PROVE  Held' /\ RowsKept
  <1>g. GrantInv /\ PolicyInv
    BY DEF Held
  <1>1. ASSUME NEW t \in Tasks, NEW ttl, NEW revision \in 1..taskRevision[t],
               AskTaskCompletion(t, revision, ttl)
        PROVE  Held' /\ RowsKept
    <2>1. t # None => revision \in Nat /\ revision <= taskRevision[t]
      BY DEF Held, GrantInv
    <2>2. GrantInv' /\ RowsKept
      BY <1>1, <1>g, <2>1, AskKeeps DEF AskTaskCompletion
    <2> QED
      BY <1>1, <2>2, SpendingKeeps DEF AskTaskCompletion
  <1>2. ASSUME NEW candidate, NEW ttl, AskScopeChange(candidate, ttl) PROVE Held' /\ RowsKept
    <2>1. GrantInv' /\ RowsKept
      BY <1>2, <1>g, AskKeeps DEF AskScopeChange
    <2> QED
      BY <1>2, <2>1, SpendingKeeps DEF AskScopeChange
  <1>3. ASSUME NEW f \in Acts, NEW jev \in Decisions \cup {None}, RequestAct(f, jev)
        PROVE  Held' /\ RowsKept
    <2>1. PolicyInv' /\ UnaskedActsHarmless'
      BY <1>3, ActKeeps DEF Held
    <2>2. CASE UNCHANGED requests
      <3>1. GrantInv' /\ RowsKept
        BY <1>3, <1>g, <2>2 DEF RequestAct, GrantInv, RequestInv, ApprovalInv, RowsKept
      <3> QED
        BY <1>3, <2>1, <3>1, ChangesKept DEF Held, RequestAct
    <2>3. CASE RequestApproval(Question(ClassifiedAct(f), None, None), None, None, jev)
      <3>1. GrantInv' /\ RowsKept
        BY <1>3, <1>g, <2>3, AskKeeps DEF RequestAct
      <3> QED
        BY <1>3, <2>1, <3>1, ChangesKept DEF Held, RequestAct
    <2> QED
      BY <1>3, <2>2, <2>3 DEF RequestAct
  <1>4. ASSUME NEW candidate, RevisePlan(candidate) PROVE Held' /\ RowsKept
    BY <1>4, <1>g, RevisePlanKeeps, QuietKeeps DEF RevisePlan
  <1>5. ASSUME NEW a \in DOMAIN approvals, NEW p, ApplyScopeChange(a, p) PROVE Held' /\ RowsKept
    BY <1>5, ApplyKeeps
  <1>6. ASSUME NEW d, NEW r, OpenDialog(d, r) PROVE Held' /\ RowsKept
    <2>1. GrantInv' /\ RowsKept
      BY <1>6, <1>g DEF OpenDialog, GrantInv, RequestInv, ApprovalInv, RowsKept
    <2> QED
      BY <1>6, <2>1, QuietKeeps DEF OpenDialog
  <1>7. ASSUME NEW d, NEW answer, NEW actor, NEW ttl, Answer(d, answer, actor, ttl)
        PROVE  Held' /\ RowsKept
    <2> DEFINE r == dialogs[d].request
               now == dialogs[d].now
    <2>1. UNCHANGED <<planRevision, taskRevision, changes, performed, budget>>
      BY <1>7 DEF Answer
    <2>2. \/ UNCHANGED <<requests, approvals>>
          \/ requests' = Resolved({r}, "closed") /\ UNCHANGED approvals
          \/ /\ r \in Pending /\ ~RequestStale(r, now)
             /\ approvals' = Append(approvals, Grant(r, actor, now, ttl))
             /\ requests' = Resolved({r}, "granted")
      BY <1>7 DEF Answer, GrantApproval
    <2>3. GrantInv' /\ RowsKept
      <3>1. CASE UNCHANGED <<requests, approvals>>
        BY <1>g, <2>1, <3>1 DEF GrantInv, RequestInv, ApprovalInv, RowsKept
      <3>2. CASE requests' = Resolved({r}, "closed") /\ UNCHANGED approvals
        BY <1>g, <2>1, <3>2, CloseKeeps
      <3>3. CASE /\ r \in Pending /\ ~RequestStale(r, now)
                 /\ approvals' = Append(approvals, Grant(r, actor, now, ttl))
                 /\ requests' = Resolved({r}, "granted")
        BY <1>g, <2>1, <3>3, GrantKeeps
      <3> QED
        BY <2>2, <3>1, <3>2, <3>3
    <2> QED
      BY <2>1, <2>3, QuietKeeps
  <1>8. CASE Sweep
    BY <1>8, <1>g, CloseKeeps, QuietKeeps DEF Sweep
  <1>9. ASSUME NEW S, approvals' = Invalidated(S),
               UNCHANGED <<planRevision, taskRevision, requests, changes, performed, budget>>
        PROVE  Held' /\ RowsKept
    BY <1>9, <1>g, EndKeeps, QuietKeeps
  <1>10. ASSUME NEW t \in Tasks, NEW after, ReviseTask(t, after) PROVE Held' /\ RowsKept
    <2> DEFINE overtaken == {r \in Pending : requests[r].task = t /\ Redefined(t, after)}
               ended == {a \in Standing : Touches(approvals[a].task, t)}
    <2>1. /\ approvals' = Invalidated(ended) /\ requests' = Outrun(overtaken)
          /\ taskRevision' =
               [taskRevision EXCEPT ![t] = IF Redefined(t, after) THEN @ + 1 ELSE @]
          /\ UNCHANGED <<planRevision, changes, performed, budget>>
      BY <1>10 DEF ReviseTask
    <2>2. /\ planRevision' \in Nat /\ planRevision <= planRevision'
          /\ taskRevision' \in [Tasks -> Nat] /\ \A u \in Tasks : taskRevision[u] <= taskRevision'[u]
          /\ Redefined(t, after) => taskRevision[t] < taskRevision'[t]
      BY <1>g, <2>1 DEF GrantInv
    <2>3. \A r \in overtaken \cap Pending :
            requests[r].task # None /\ taskRevision[requests[r].task] < taskRevision'[requests[r].task]
      BY <2>2, ApprovalConstants
    <2> HIDE DEF overtaken, ended
    <2>4. GrantInv' /\ RowsKept
      BY <1>g, <2>1, <2>2, <2>3, ReviseKeeps
    <2> QED
      BY <2>1, <2>4, QuietKeeps
  <1>11. CASE Tick
    <2>1. GrantInv' /\ RowsKept
      BY <1>11, <1>g DEF Tick, GrantInv, RequestInv, ApprovalInv, RowsKept
    <2> QED
      BY <1>11, <2>1, QuietKeeps DEF Tick
  <1> QED
    BY <1>1, <1>2, <1>3, <1>4, <1>5, <1>6, <1>7, <1>8, <1>9, <1>10, <1>11
    DEF ApprovalNext, EndApproval, InvalidateExpired, ReconcileSession

\* A step that leaves the approvals alone keeps what rests on them.
LEMMA ApprovalStutter ==
  ASSUME Held, UNCHANGED approvalVars
  PROVE  Held' /\ RowsKept
  BY DEF Held, approvalVars, GrantInv, RequestInv, ApprovalInv, ChangeInv, PolicyInv, Table,
         UnaskedActsHarmless, RowsKept

\* A proposal asks a question of the revisions it finds.
LEMMA ProposeKeeps ==
  ASSUME Held, NEW c, NEW scope \in Tasks \cup {None}, NEW ttl, ProposeRollback(c, scope, ttl)
  PROVE  Held' /\ RowsKept
  <1> DEFINE p == Len(rollbacks) + 1
             revision == IF scope = None THEN None ELSE taskRevision[scope]
  <1>1. scope # None => revision \in Nat /\ revision <= taskRevision[scope]
    BY DEF Held, GrantInv
  <1>2. \/ UNCHANGED requests
        \/ RequestApproval(Question(RollbackAction(p), scope, revision), None, ttl, None)
    BY DEF ProposeRollback
  <1>3. /\ UNCHANGED <<approvals, planRevision, taskRevision, changes, performed>>
        /\ Spend("high_risk")
    BY DEF ProposeRollback
  <1> HIDE DEF p, revision
  <1>4. GrantInv' /\ RowsKept
    <2>1. CASE UNCHANGED requests
      BY <1>3, <2>1 DEF Held, GrantInv, RequestInv, ApprovalInv, RowsKept
    <2>2. CASE RequestApproval(Question(RollbackAction(p), scope, revision), None, ttl, None)
      BY <1>1, <1>3, <2>2, AskKeeps DEF Held
    <2> QED
      BY <1>2, <2>1, <2>2
  <1> QED
    BY <1>3, <1>4, SpendingKeeps

-----------------------------------------------------------------------------
(* The restore.  What is checked before the capture still holds at the     *)
(* overwriting: nothing but edits happens in between.                      *)

\* The capture: the approval is usable, the tree is not the main one, and what
\* is in it is held.
LEMMA CapturesKeep ==
  ASSUME TreeInv, JobInv, NEW p, ApplyCaptures(p), UNCHANGED approvalVars
  PROVE  JobInv'
  <1> DEFINE x == Resolves(rollbacks[p].checkpoint)
             content == checkpoints[rollbacks[p].checkpoint].content
             preservation == [content |-> tree[x], tree |-> "task"]
             act == ActionId(p)
             scope == rollbacks[p].task
  <1>1. job' = [rollback |-> p, act |-> act, task |-> scope, into |-> x, content |-> content,
                since |-> edits, preservation |-> preservation, stage |-> "captured"]
    BY DEF ApplyCaptures
  <1>2. /\ x # "main" /\ act \notin receipts'
        /\ tree[x] \in refs' /\ UNCHANGED <<tree, edits>>
    BY DEF ApplyCaptures, MayRestore, MainNow, AlreadyDone, Preserved
  <1>3. PICK a \in DOMAIN approvals :
          /\ Usable(a) /\ approvals[a].action = RollbackAction(p) /\ approvals[a].actor = "user"
          /\ scope # None => approvals[a].task = scope
    BY DEF ApplyCaptures, MayRestore, ApprovedBy
  <1> HIDE DEF x, content, preservation, act, scope
  <1>4. /\ job'.rollback = p /\ job'.act = act /\ job'.task = scope /\ job'.into = x
        /\ job'.since = edits /\ DOMAIN job' = {"rollback", "act", "task", "into", "content",
                                               "since", "preservation", "stage"}
    BY <1>1
  <1>5. UNCHANGED approvals /\ Usable(a)' /\ RollbackAction(p)' = RollbackAction(p)
    BY <1>3 DEF approvalVars, Usable, Standing, Expired, RollbackAction
  <1> QED
    BY <1>2, <1>3, <1>4, <1>5 DEF JobInv, JobApproved, TreeInv

\* Between the capture and the overwriting the tree is only edited.
LEMMA JobKept ==
  ASSUME TreeInv, JobInv, UNCHANGED <<approvalVars, job, receipts, refs>>,
         \/ \E x \in Trees : Edit(x)
         \/ UNCHANGED <<tree, edits>>
  PROVE  JobInv'
  <1>1. \A a : Usable(a)' <=> Usable(a)
    BY DEF approvalVars, Usable, Standing, Expired
  <1>2. JobApproved => JobApproved'
    BY <1>1 DEF approvalVars, JobApproved, RollbackAction
  <1>3. CASE UNCHANGED <<tree, edits>>
    BY <1>2, <1>3 DEF JobInv
  <1>4. ASSUME NEW x \in Trees, Edit(x) PROVE JobInv'
    <2>1. /\ edits' = edits + 1
          /\ tree' = [tree EXCEPT ![x] = edits + 1]
      BY <1>4 DEF Edit
    <2>2. ASSUME job # None, job.stage = "captured"
          PROVE  /\ job.since \in Nat /\ job.since <= edits'
                 /\ tree'[job.into] <= job.since => tree'[job.into] \in refs
      BY <2>1, <2>2 DEF JobInv, TreeInv
    <2>3. edits' \in Nat
      BY <2>1 DEF JobInv
    <2> QED
      BY <1>2, <2>2, <2>3 DEF JobInv
  <1> QED
    BY <1>3, <1>4

\* A restore has a usable approval of its proposal, which was asked for at the
\* revisions of now.
LEMMA RestoreAuthorised ==
  ASSUME Held, TreeInv, JobInv, RestoresAuthorised, ApplyRestores, UNCHANGED approvalVars
  PROVE  RestoresAuthorised' /\ IsTable(restores')
  <1> DEFINE p == job.rollback
             revision == IF job.task = None THEN None ELSE taskRevision[job.task]
             row == [act |-> job.act, rollback |-> p, planRevision |-> planRevision,
                     taskRevision |-> revision]
  <1>1. restores' = Append(restores, row)
    BY DEF ApplyRestores
  <1>2. row.rollback = p /\ row.planRevision = planRevision /\ row.taskRevision = revision
    OBVIOUS
  <1>3. PICK a \in DOMAIN approvals :
          /\ Usable(a) /\ approvals[a].action = RollbackAction(p) /\ approvals[a].actor = "user"
          /\ job.task # None => approvals[a].task = job.task
    BY DEF ApplyRestores, JobInv, JobApproved
  <1>4. /\ approvals[a].planRevision = planRevision
        /\ revision # None => approvals[a].taskRevision = revision
    BY <1>3 DEF Usable
  <1>5. /\ requests[approvals[a].request].action = approvals[a].action
        /\ requests[approvals[a].request].planRevision = approvals[a].planRevision
        /\ requests[approvals[a].request].taskRevision = approvals[a].taskRevision
    BY <1>3 DEF Held, GrantInv, ApprovalInv
  <1> HIDE DEF row, revision, p
  <1>6. /\ IsTable(restores') /\ DOMAIN restores' = DOMAIN restores \cup {Len(restores) + 1}
        /\ \A i \in DOMAIN restores : restores'[i] = restores[i]
        /\ restores'[Len(restores) + 1] = row
    BY <1>1, TableAppend DEF TreeInv
  <1>7. UNCHANGED <<approvals, requests>> /\ \A q : RollbackAction(q)' = RollbackAction(q)
    BY DEF approvalVars, RollbackAction
  <1>8. ASSUME NEW i \in DOMAIN restores'
        PROVE  \E b \in DOMAIN approvals :
                 /\ approvals[b].actor = "user"
                 /\ requests[approvals[b].request].action = RollbackAction(restores'[i].rollback)
                 /\ requests[approvals[b].request].planRevision = restores'[i].planRevision
                 /\ restores'[i].taskRevision # None =>
                      requests[approvals[b].request].taskRevision = restores'[i].taskRevision
    <2>1. CASE i \in DOMAIN restores
      BY <1>6, <2>1 DEF RestoresAuthorised
    <2>2. CASE i = Len(restores) + 1
      BY <1>2, <1>3, <1>4, <1>5, <1>6, <2>2
    <2> QED
      BY <1>6, <2>1, <2>2
  <1> QED
    BY <1>6, <1>7, <1>8 DEF RestoresAuthorised

\* What the overwriting, whole or cut short by git, does to trees and refs.
LEMMA RestoreShape ==
  ASSUME TreeInv, JobInv, OverwrittenPreserved, ApplyRestores \/ RestoreFails
  PROVE  /\ DOMAIN tree' = Trees /\ tree'["main"] = tree["main"]
         /\ OverwrittenPreserved' /\ JobInv' /\ UNCHANGED target
  <1>1. /\ job # None /\ job.stage = "captured"
        /\ Overwrites \/ UNCHANGED <<tree, overwritten>>
        /\ UNCHANGED <<refs, target, edits>>
        /\ job' = None \/ job' = [job EXCEPT !.stage = "restored"]
    BY DEF ApplyRestores, RestoreFails
  <1>2. "main" \in Trees /\ DOMAIN tree = Trees /\ job.into # "main"
    BY <1>1 DEF Trees, TreeInv, JobInv
  <1>3. DOMAIN tree' = Trees /\ tree'["main"] = tree["main"]
    BY <1>1, <1>2 DEF Overwrites, Restored
  <1>4. OverwrittenPreserved'
    <2>1. CASE UNCHANGED overwritten
      BY <1>1, <2>1 DEF OverwrittenPreserved
    <2>2. CASE Overwrites
      <3> DEFINE old == [content |-> tree[job.into], since |-> job.since]
      <3>1. overwritten' = overwritten \cup {old}
        BY <2>2 DEF Overwrites
      <3>2. old.content <= old.since => old.content \in refs
        BY <1>1 DEF JobInv
      <3> HIDE DEF old
      <3> QED
        BY <1>1, <3>1, <3>2 DEF OverwrittenPreserved
    <2> QED
      BY <1>1, <2>1, <2>2
  <1>5. JobInv'
    BY <1>1 DEF JobInv
  <1> QED
    BY <1>1, <1>3, <1>4, <1>5

LEMMA InitIInv == Init => IInv
  <1> SUFFICES ASSUME Init PROVE IInv
    OBVIOUS
  <1>1. GrantInv /\ ChangeInv
    BY DEF Init, ApprovalInit, GrantInv, ChangeInv, IsTable
  <1>2. PolicyInv
    BY ApprovalConstants DEF Init, ApprovalInit, PolicyInv
  <1>3. UnaskedActsHarmless /\ TreeInv /\ JobInv /\ RestoresAuthorised /\ OverwrittenPreserved
    BY DEF Init, ApprovalInit, UnaskedActsHarmless, TreeInv, Trees, JobInv, RestoresAuthorised,
           OverwrittenPreserved, IsTable
  <1> QED
    BY <1>1, <1>2, <1>3 DEF IInv

LEMMA NextIInv == IInv /\ [Next]_vars => IInv'
  <1> SUFFICES ASSUME IInv, [Next]_vars PROVE IInv'
    OBVIOUS
  <1>h. Held /\ GrantInv /\ TreeInv /\ JobInv /\ RestoresAuthorised /\ OverwrittenPreserved
    BY DEF IInv, Held
  <1>q. ASSUME Held', RowsKept, UNCHANGED <<restores, overwritten>>, refs \subseteq refs',
               DOMAIN tree' = Trees, target' \in Trees, JobInv'
        PROVE  IInv'
    <2>1. RestoresAuthorised'
      BY <1>h, <1>q, RestoresKept
    <2>2. TreeInv' /\ OverwrittenPreserved'
      BY <1>h, <1>q DEF TreeInv, OverwrittenPreserved
    <2> QED
      BY <1>q, <2>1, <2>2 DEF IInv, Held
  <1>n. job' = None => (edits' \in Nat => JobInv')
    BY DEF JobInv
  <1>1. CASE job = None /\ ApprovalNext /\ UNCHANGED rollbackVars
    BY <1>h, <1>n, <1>1, <1>q, ApprovalStep DEF rollbackVars, TreeInv, JobInv
  <1>2. ASSUME NEW x \in Trees, TakeCheckpoint(x), UNCHANGED approvalVars PROVE IInv'
    <2>1. /\ UNCHANGED <<restores, overwritten, target, tree, job, edits>> /\ refs \subseteq refs'
          /\ job = None
      BY <1>2 DEF TakeCheckpoint
    <2> QED
      BY <1>h, <1>n, <1>2, <1>q, <2>1, ApprovalStutter DEF TreeInv, JobInv
  <1>3. ASSUME NEW x \in Trees, Edit(x), UNCHANGED approvalVars PROVE IInv'
    <2>1. /\ UNCHANGED <<restores, overwritten, target, refs, job, receipts>>
          /\ DOMAIN tree' = Trees
      BY <1>h, <1>3 DEF Edit, TreeInv
    <2>2. JobInv'
      BY <1>h, <1>3, <2>1, JobKept
    <2> QED
      BY <1>h, <1>3, <1>q, <2>1, <2>2, ApprovalStutter DEF TreeInv
  <1>4. ASSUME NEW c, NEW scope \in Tasks \cup {None}, NEW ttl, ProposeRollback(c, scope, ttl)
        PROVE  IInv'
    <2>1. UNCHANGED <<restores, overwritten, refs, tree, target, job, edits>> /\ job = None
      BY <1>4 DEF ProposeRollback
    <2> QED
      BY <1>h, <1>n, <1>4, <1>q, <2>1, ProposeKeeps DEF TreeInv, JobInv
  <1>5. ASSUME NEW p, \/ \E a \in DOMAIN approvals : AttachRollbackApproval(p, a)
                      \/ ApplyRefused(p) \/ CaptureFails(p),
               UNCHANGED approvalVars
        PROVE  IInv'
    <2>1. UNCHANGED <<restores, overwritten, refs, tree, target, job, edits>> /\ job = None
      BY <1>5 DEF AttachRollbackApproval, ApplyRefused, CaptureFails
    <2> QED
      BY <1>h, <1>n, <1>5, <1>q, <2>1, ApprovalStutter DEF TreeInv, JobInv
  <1>6. ASSUME NEW p, ApplyCaptures(p), UNCHANGED approvalVars PROVE IInv'
    <2>1. UNCHANGED <<restores, overwritten, tree, target>> /\ refs \subseteq refs'
      BY <1>6 DEF ApplyCaptures, Preserved
    <2>2. JobInv'
      BY <1>h, <1>6, CapturesKeep
    <2> QED
      BY <1>h, <1>6, <1>q, <2>1, <2>2, ApprovalStutter DEF TreeInv
  <1>7. ASSUME ApplyRestores, UNCHANGED approvalVars PROVE IInv'
    <2>1. RestoresAuthorised' /\ IsTable(restores')
      BY <1>h, <1>7, RestoreAuthorised
    <2>2. DOMAIN tree' = Trees /\ OverwrittenPreserved' /\ JobInv' /\ UNCHANGED target
      BY <1>h, <1>7, RestoreShape
    <2>3. Held'
      BY <1>h, <1>7, ApprovalStutter
    <2> QED
      BY <1>h, <2>1, <2>2, <2>3 DEF IInv, Held, TreeInv
  <1>8. ASSUME RestoreFails, UNCHANGED approvalVars PROVE IInv'
    <2>1. Held' /\ RowsKept
      BY <1>h, <1>8, ApprovalStutter
    <2>2. DOMAIN tree' = Trees /\ OverwrittenPreserved' /\ JobInv' /\ UNCHANGED target
      BY <1>h, <1>8, RestoreShape
    <2>3. UNCHANGED restores
      BY <1>8 DEF RestoreFails
    <2>4. RestoresAuthorised'
      BY <1>h, <2>1, <2>3, RestoresKept
    <2> QED
      BY <1>h, <2>1, <2>2, <2>3, <2>4 DEF IInv, Held, TreeInv
  <1>9. CASE (ResolveApplied \/ RecordCompletedAction \/ Crash \/ PathBecomesMain)
             /\ UNCHANGED approvalVars
    <2>1. /\ UNCHANGED <<restores, overwritten, refs, tree, edits>> /\ target' \in Trees
          /\ \/ job' = None
             \/ job # None /\ job' = [job EXCEPT !.stage = "resolved"]
      BY <1>h, <1>9 DEF ResolveApplied, RecordCompletedAction, Crash, PathBecomesMain, TreeInv, Trees
    <2>2. JobInv'
      BY <1>h, <2>1 DEF JobInv
    <2> QED
      BY <1>h, <1>9, <1>q, <2>1, <2>2, ApprovalStutter DEF TreeInv
  <1>10. CASE UNCHANGED vars
    <2>1. JobInv'
      BY <1>h, <1>10, JobKept DEF vars, rollbackVars
    <2> QED
      BY <1>h, <1>10, <1>q, <2>1, ApprovalStutter DEF vars, rollbackVars, TreeInv
  <1> QED
    BY <1>1, <1>2, <1>3, <1>4, <1>5, <1>6, <1>7, <1>8, <1>9, <1>10 DEF Next

-----------------------------------------------------------------------------
LEMMA SpecIInv == Spec => []IInv
  BY InitIInv, NextIInv, PTL DEF Spec

\* A question has one approval if it was granted and none otherwise, and none
\* that a revision overtook was granted, for any number of prompts, questions
\* and revisions (grantApproval, resolveApprovalInteractively, requestStaleness).
THEOREM GrantedOnceAsAskedTheorem == Spec => []GrantedOnceAsAsked
  <1>1. IInv => GrantedOnceAsAsked
    <2> SUFFICES ASSUME IInv PROVE GrantedOnceAsAsked
      OBVIOUS
    <2>1. RevisedQuestionRefused
      BY DEF IInv, GrantInv, RequestInv, RevisedQuestionRefused
    <2>2. OneGrantPerQuestion
      <3> SUFFICES ASSUME NEW r \in DOMAIN requests
                   PROVE  Cardinality({a \in DOMAIN approvals : approvals[a].request = r})
                            = (IF requests[r].status = "granted" THEN 1 ELSE 0)
        BY DEF OneGrantPerQuestion
      <3> DEFINE grants == {a \in DOMAIN approvals : approvals[a].request = r}
      <3>1. CASE requests[r].status = "granted"
        <4>1. PICK a \in DOMAIN approvals : approvals[a].request = r
          BY <3>1 DEF IInv, GrantInv
        <4>2. grants = {a}
          BY <4>1 DEF IInv, GrantInv
        <4> QED
          BY <3>1, <4>2, FS_Singleton
      <3>2. CASE requests[r].status # "granted"
        <4>1. grants = {}
          BY <3>2 DEF IInv, GrantInv, ApprovalInv
        <4> QED
          BY <3>2, <4>1, FS_EmptySet
      <3> QED
        BY <3>1, <3>2
    <2> QED
      BY <2>1, <2>2 DEF GrantedOnceAsAsked
  <1> QED
    BY <1>1, SpecIInv, PTL

\* Every scope change spent a grant of its own, given by a user for the digest of
\* that change (paths and identity, not checks or criteria) at the revision it
\* started from, and never usable again (applyScopeChange, approvalRefusalFor,
\* revisePlan).
THEOREM ChangesAuthorisedOnceTheorem == Spec => []ChangesAuthorisedOnce
  <1>1. IInv => ChangesAuthorisedOnce
    BY DEF IInv, ChangeInv, ChangesAuthorisedOnce, Usable, Standing
  <1> QED
    BY <1>1, SpecIInv, PTL

\* Nothing that must be asked for is done unasked, for every act code can
\* describe, every mode and every table the rules accept (classifyAct,
\* validateApprovalClasses, resolveDisposition).
LEMMA UnaskedActsHarmlessAlways == Spec => []UnaskedActsHarmless
  <1>1. IInv => UnaskedActsHarmless
    BY DEF IInv
  <1> QED
    BY <1>1, SpecIInv, PTL

\* Every restore had a user's approval of that proposal, asked for at the
\* revisions the restore was done at (applyRollback, isActionApproved).
THEOREM RestoresAuthorisedTheorem == Spec => []RestoresAuthorised
  <1>1. IInv => RestoresAuthorised
    BY DEF IInv
  <1> QED
    BY <1>1, SpecIInv, PTL

\* What a restore replaced is held by a ref, or was written into the tree after
\* the capture: also where git failed half way, or the process died at any
\* point, or the tree was edited meanwhile (restoreCheckpointTree).
THEOREM OverwrittenPreservedTheorem == Spec => []OverwrittenPreserved
  <1>1. IInv => OverwrittenPreserved
    BY DEF IInv
  <1> QED
    BY <1>1, SpecIInv, PTL

\* Only an edit changes the user's main tree, and no step restores for an act
\* whose receipt is written (applyRollback, isMainTree, guardAction).
THEOREM RestoreStepsSafeTheorem == Spec => RestoreStepsSafe
  <1> DEFINE StepSafe == /\ tree'["main"] # tree["main"] => edits' = edits + 1
                         /\ \A act \in receipts :
                              Len(restores') > Len(restores) => restores'[Len(restores')].act # act
  <1>1. IInv /\ [Next]_vars => [StepSafe]_vars
    <2> SUFFICES ASSUME IInv, Next PROVE StepSafe
      BY DEF StepSafe
    <2>i. TreeInv /\ JobInv /\ OverwrittenPreserved /\ Len(restores) \in Nat
      BY DEF IInv, TreeInv, IsTable
    <2>1. CASE ApplyRestores
      <3>1. tree'["main"] = tree["main"]
        BY <2>i, <2>1, RestoreShape
      <3>2. PICK row : restores' = Append(restores, row) /\ row.act = job.act
        BY <2>1 DEF ApplyRestores
      <3>3. Len(restores') = Len(restores) + 1 /\ restores'[Len(restores) + 1] = row
        BY <2>i, <3>2, TableAppend DEF TreeInv
      <3>4. job.act \notin receipts
        BY <2>i, <2>1 DEF ApplyRestores, JobInv
      <3> QED
        BY <3>1, <3>2, <3>3, <3>4
    <2>2. CASE RestoreFails
      <3>1. tree'["main"] = tree["main"]
        BY <2>i, <2>2, RestoreShape
      <3>2. UNCHANGED restores
        BY <2>2 DEF RestoreFails
      <3> QED
        BY <2>i, <3>1, <3>2
    <2>3. ASSUME NEW x \in Trees, Edit(x) PROVE StepSafe
      BY <2>i, <2>3 DEF Edit
    <2>4. CASE UNCHANGED <<tree, restores>>
      BY <2>i, <2>4
    <2> QED
      BY <2>1, <2>2, <2>3, <2>4
      DEF Next, rollbackVars, TakeCheckpoint, ProposeRollback, AttachRollbackApproval, ApplyRefused,
          ApplyCaptures, CaptureFails, ResolveApplied, RecordCompletedAction, Crash, PathBecomesMain
  <1>2. RestoreStepsSafe <=> [][StepSafe]_vars
    BY DEF RestoreStepsSafe
  <1> HIDE DEF StepSafe
  <1> QED
    BY <1>1, <1>2, SpecIInv, PTL DEF Spec
=============================================================================
