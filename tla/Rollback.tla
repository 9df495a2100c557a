------------------------------ MODULE Rollback ------------------------------
(* Checkpoints and rollback proposals.  A proposal asks for a destructive_git  *)
(* approval; applyRollback re-reads it, restores the worktree and only then    *)
(* records, in two transactions, that it did.  The restore captures the tree   *)
(* and then overwrites it, by git processes of their own.  The process may die *)
(* between any of these.  Whoever holds the store writes alone and             *)
(* applyRollback is synchronous, so nothing but an edit of a tree happens      *)
(* while one is under way; the time it takes decides nothing.                  *)
EXTENDS Approvals

CONSTANTS MaxRestores, MaxCrashes   \* bounds; a budget also bounds edits and checkpoints

ASSUME RollbackConstants ==
  /\ \A b \in Budgets : {b.edits, b.checkpoints} \subseteq Nat
  /\ MaxRestores \in Nat /\ MaxCrashes \in Nat

VARIABLES
  tree,          \* what is in the task's worktree and in the user's main tree
  target,        \* the tree the worktree's path resolves to
  edits,         \* how many times somebody has edited a tree
  refs,          \* contents held by a ref under refs/korwf/checkpoints
  checkpoints,   \* the checkpoint table
  rollbacks,     \* the rollback_proposal table
  receipts,      \* action ids in completed_action
  job,           \* the applyRollback that has captured and not finished, or None
  crashes,
  restores,      \* history: the restores done
  overwritten    \* history: contents a restore has replaced, with the number of
                 \* edits there were at its capture

rollbackVars == <<tree, target, edits, refs, checkpoints, rollbacks, receipts, job,
                  crashes, restores, overwritten>>
vars == <<approvalVars, rollbackVars>>

Trees == {"task", "main"}

-----------------------------------------------------------------------------
(* Capture *)

\* takeCheckpoint of either tree: the commit and its ref, then the row
TakeCheckpoint(x) ==
  /\ job = None
  /\ Len(checkpoints) < budget.checkpoints
  /\ refs' = refs \cup {tree[x]}
  /\ checkpoints' = Append(checkpoints, [content |-> tree[x], tree |-> x])
  /\ UNCHANGED <<tree, target, edits, rollbacks, receipts, job, crashes, restores, overwritten>>

\* worktreeIdentity of a checkpoint's path, as git answers now
Resolves(c) == IF checkpoints[c].tree = "main" THEN "main" ELSE target

-----------------------------------------------------------------------------
(* Proposals *)

Open == {p \in DOMAIN rollbacks : rollbacks[p].status \in {"proposed", "approved"}}

\* actionIdFor: what the effect is, not which proposal asked for it
ActionId(p) == [task |-> rollbacks[p].task, checkpoint |-> rollbacks[p].checkpoint]

RollbackAction(p) ==
  [kind |-> "rollback_checkpoint", task |-> None, digest |-> NoDigest, rollback |-> p]

\* proposeRollback: a proposal against the main tree is refused as it is made,
\* any other asks for its approval.
ProposeRollback(c, scope, ttl) ==
  LET p == Len(rollbacks) + 1
      row(status) == [checkpoint |-> c, task |-> scope, main |-> Resolves(c) = "main",
                      approval |-> None, status |-> status]
      revision == IF scope = None THEN None ELSE taskRevision[scope]
  IN /\ job = None
     /\ Spend("high_risk")
     /\ \/ /\ Resolves(c) = "main"
           /\ rollbacks' = Append(rollbacks, row("refused"))
           /\ UNCHANGED requests
        \/ /\ Resolves(c) # "main"
           /\ RequestApproval(Question(RollbackAction(p), scope, revision), None, ttl, None)
           /\ rollbacks' = Append(rollbacks, row("proposed"))
     /\ UNCHANGED <<clock, planRevision, plan, taskRevision, approvals, dialogs, changes, performed>>
     /\ UNCHANGED <<tree, target, edits, refs, checkpoints, receipts, job, crashes, restores, overwritten>>

\* attachRollbackApproval: any approval id a caller names, without a look at it
AttachRollbackApproval(p, a) ==
  /\ job = None
  /\ rollbacks[p].status = "proposed"
  /\ rollbacks' = [rollbacks EXCEPT ![p].status = "approved", ![p].approval = a]
  /\ UNCHANGED <<tree, target, edits, refs, checkpoints, receipts, job, crashes, restores, overwritten>>

-----------------------------------------------------------------------------
(* Applying *)

\* Taking the approval that was attached for the approval that is needed.
ApprovedByAttached(p) == {a \in DOMAIN approvals : a = rollbacks[p].approval}

\* isActionApproved: a user's approval of this proposal, valid now
ApprovedBy(p) ==
  {a \in DOMAIN approvals : /\ Usable(a)
                            /\ approvals[a].action = RollbackAction(p)
                            /\ rollbacks[p].task # None => approvals[a].task = rollbacks[p].task
                            /\ approvals[a].actor = "user"}

\* guardAction that asks the proposals instead of the action log.
AlreadyDoneElsewhere(p) == \E q \in DOMAIN rollbacks \ {p} : /\ rollbacks[q].status = "refused"
                                                            /\ ActionId(q) = ActionId(p)

\* guardAction
AlreadyDone(p) == ActionId(p) \in receipts

\* Trusting what isMainTree said when the proposal was made.
MainAsProposed(p) == rollbacks[p].main

\* isMainTree, asked again before the restore
MainNow(p) == Resolves(rollbacks[p].checkpoint) = "main"

MayRestore(p) == ~rollbacks[p].main /\ ApprovedBy(p) # {} /\ ~AlreadyDone(p) /\ ~MainNow(p)

\* attachApproval, for a proposal that has none attached
Attached(p) ==
  IF rollbacks[p].approval # None THEN rollbacks
  ELSE [rollbacks EXCEPT ![p].status = "approved",
                         ![p].approval = CHOOSE a \in ApprovedBy(p) : TRUE]

\* The early returns of applyRollback: each resolves the proposal as refused,
\* those behind the approval check after attaching the approval.
ApplyRefused(p) ==
  /\ job = None
  /\ p \in Open
  /\ ~MayRestore(p)
  /\ LET rows == IF ~rollbacks[p].main /\ ApprovedBy(p) # {} THEN Attached(p) ELSE rollbacks
     IN rollbacks' = [rows EXCEPT ![p].status = "refused"]
  /\ UNCHANGED <<tree, target, edits, refs, checkpoints, receipts, job, crashes, restores, overwritten>>

\* A restore that captures nothing first.
NothingPreserved(x) == refs

\* restoreCheckpointTree: what it overwrites, and what captureCheckpoint holds.
Restored(x, content) == [tree EXCEPT ![x] = content]
Preserved(x) == refs \cup {tree[x]}

\* applyRollback up to the capture.  What it has read by then (the proposal,
\* the tree its path resolves to, the checkpoint) is in its local variables.
ApplyCaptures(p) ==
  LET c == rollbacks[p].checkpoint
      x == Resolves(c)
  IN /\ job = None
     /\ p \in Open
     /\ MayRestore(p)
     /\ Len(restores) < MaxRestores
     /\ rollbacks' = Attached(p)
     /\ refs' = Preserved(x)
     /\ job' = [rollback |-> p, act |-> ActionId(p), task |-> rollbacks[p].task,
                into |-> x, content |-> checkpoints[c].content, since |-> edits,
                preservation |-> [content |-> tree[x], tree |-> "task"], stage |-> "captured"]
     /\ UNCHANGED <<tree, target, edits, checkpoints, receipts, crashes, restores, overwritten>>

\* The second read-tree, in a process of its own: it replaces whatever is in
\* the tree by now.
Overwrites ==
  /\ tree' = Restored(job.into, job.content)
  /\ overwritten' = overwritten \cup {[content |-> tree[job.into], since |-> job.since]}

ApplyRestores ==
  /\ job # None
  /\ job.stage = "captured"
  /\ Overwrites
  /\ restores' = Append(restores, [act |-> job.act, rollback |-> job.rollback, planRevision |-> planRevision,
                                   taskRevision |-> IF job.task = None THEN None ELSE taskRevision[job.task]])
  /\ job' = [job EXCEPT !.stage = "restored"]
  /\ UNCHANGED <<target, edits, refs, checkpoints, rollbacks, receipts, crashes>>

\* git fails before the capture, and the proposal is refused.
CaptureFails(p) ==
  /\ job = None
  /\ p \in Open
  /\ MayRestore(p)
  /\ rollbacks' = [Attached(p) EXCEPT ![p].status = "refused"]
  /\ UNCHANGED <<tree, target, edits, refs, checkpoints, receipts, job, crashes, restores, overwritten>>

\* It fails after it, or while it replaces files (counted as if it had replaced
\* them all).
RestoreFails ==
  /\ job # None
  /\ job.stage = "captured"
  /\ Overwrites \/ UNCHANGED <<tree, overwritten>>
  /\ rollbacks' = [rollbacks EXCEPT ![job.rollback].status = "refused"]
  /\ job' = None
  /\ UNCHANGED <<target, edits, refs, checkpoints, receipts, crashes, restores>>

\* rollback_proposal_action_applied: one applied proposal to an action id
AppliedElsewhere(p) ==
  \E q \in DOMAIN rollbacks \ {p} : rollbacks[q].status = "applied" /\ ActionId(q) = ActionId(p)

\* The first transaction: the preservation row and the proposal's resolution.
\* The unique index throws it back where the action is applied already.
ResolveApplied ==
  /\ job # None
  /\ job.stage = "restored"
  /\ \/ /\ ~AppliedElsewhere(job.rollback)
        /\ checkpoints' = Append(checkpoints, job.preservation)
        /\ rollbacks' = [rollbacks EXCEPT ![job.rollback].status = "applied"]
        /\ job' = [job EXCEPT !.stage = "resolved"]
     \/ /\ AppliedElsewhere(job.rollback)
        /\ job' = None
        /\ UNCHANGED <<checkpoints, rollbacks>>
  /\ UNCHANGED <<tree, target, edits, refs, receipts, crashes, restores, overwritten>>

\* recordCompletedAction, the second transaction
ReceiptsWith(p) == receipts \cup {ActionId(p)}

RecordCompletedAction ==
  /\ job # None
  /\ job.stage = "resolved"
  /\ receipts' = ReceiptsWith(job.rollback)
  /\ job' = None
  /\ UNCHANGED <<tree, target, edits, refs, checkpoints, rollbacks, crashes, restores, overwritten>>

-----------------------------------------------------------------------------
(* The world outside *)

\* The process dies with the tree captured or restored and the record incomplete.
Crash ==
  /\ job # None
  /\ crashes < MaxCrashes
  /\ crashes' = crashes + 1
  /\ job' = None
  /\ UNCHANGED <<tree, target, edits, refs, checkpoints, rollbacks, receipts, restores, overwritten>>

\* A worker edits the task's worktree, or the user the main tree.
Edit(x) ==
  /\ edits < budget.edits
  /\ edits' = edits + 1
  /\ tree' = [tree EXCEPT ![x] = edits + 1]
  /\ UNCHANGED <<target, refs, checkpoints, rollbacks, receipts, job, crashes, restores, overwritten>>

\* The worktree is removed and its path now belongs to the main tree.
PathBecomesMain ==
  /\ target = "task"
  /\ job = None
  /\ target' = "main"
  /\ UNCHANGED <<tree, edits, refs, checkpoints, rollbacks, receipts, job, crashes, restores, overwritten>>

-----------------------------------------------------------------------------
Init ==
  /\ ApprovalInit
  /\ tree = [x \in Trees |-> 0]
  /\ target = "task"
  /\ edits = 0
  /\ refs = {}
  /\ checkpoints = <<>>
  /\ rollbacks = <<>>
  /\ receipts = {}
  /\ job = None
  /\ crashes = 0
  /\ restores = <<>>
  /\ overwritten = {}

Next ==
  \/ job = None /\ ApprovalNext /\ UNCHANGED rollbackVars
  \/ \E x \in Trees : (TakeCheckpoint(x) \/ Edit(x)) /\ UNCHANGED approvalVars
  \/ \E c \in DOMAIN checkpoints, scope \in Tasks \cup {None}, ttl \in budget.ttls : ProposeRollback(c, scope, ttl)
  \/ \E p \in DOMAIN rollbacks : /\ \/ \E a \in DOMAIN approvals : AttachRollbackApproval(p, a)
                                    \/ ApplyRefused(p)
                                    \/ ApplyCaptures(p)
                                    \/ CaptureFails(p)
                                 /\ UNCHANGED approvalVars
  \/ /\ \/ ApplyRestores \/ RestoreFails \/ ResolveApplied \/ RecordCompletedAction
        \/ Crash \/ PathBecomesMain
     /\ UNCHANGED approvalVars

Spec == Init /\ [][Next]_vars

-----------------------------------------------------------------------------
\* applyRollback restores only what a user granted: for each restore there is
\* an approval of that very proposal, given by a user to a question asked at the
\* plan and task revisions the restore was done at.
RestoresAuthorised ==
  \A i \in DOMAIN restores :
    \E a \in DOMAIN approvals :
      /\ approvals[a].actor = "user"
      /\ requests[approvals[a].request].action = RollbackAction(restores[i].rollback)
      /\ requests[approvals[a].request].planRevision = restores[i].planRevision
      /\ restores[i].taskRevision # None =>
           requests[approvals[a].request].taskRevision = restores[i].taskRevision

\* git/checkpoint.ts, "even an approved rollback is reversible": whatever a
\* restore has replaced is held by a ref, wherever the process died or git
\* failed, except what was written into the tree after its capture (contents
\* are numbered by the edits that wrote them).
OverwrittenPreserved ==
  \A old \in overwritten : old.content <= old.since => old.content \in refs

\* checkpoint.ts: the user's main tree changes only when somebody edits it,
\* even where the path a proposal was made for has since become the main tree;
\* and "A completed action is never replayed": once its receipt is written no
\* proposal, of this or of a forked session, restores the same checkpoint again.
RestoreStepsSafe ==
  [][/\ tree'["main"] # tree["main"] => edits' = edits + 1
     /\ \A act \in receipts :
          Len(restores') > Len(restores) => restores'[Len(restores')].act # act]_vars

-----------------------------------------------------------------------------
(* What the documentation says and the code does not do *)

\* git/checkpoint.ts: everything a restore removes is in the preservation
\* checkpoint.
EverythingPreserved == \A old \in overwritten : old.content \in refs

\* checkpoint.ts:31, "A rollback is never replayed": the same without a word
\* about crashes.
NeverReplayed ==
  \A i, j \in DOMAIN restores : restores[i].act = restores[j].act => i = j
=============================================================================
