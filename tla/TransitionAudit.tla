-------------------------- MODULE TransitionAudit --------------------------
(***************************************************************************)
(* The rejection events of workflow/state.ts.  A refused request throws    *)
(* PendingRejection, its transaction rolls back, and flushRejection        *)
(* appends the event in a transaction of its own - unless the request was  *)
(* made inside a caller's store.write, which is then still open and is     *)
(* rolled back by the TransitionRejected thrown out of it.                 *)
(***************************************************************************)
EXTENDS WorkflowState

VARIABLE refusal    \* what became of the last request's rejection event

auditVars == <<vars, refusal>>

AuditInit == Init /\ refusal = "none"

Accept == Next /\ refusal' = "none"

\* A request made outside any transaction is refused, by the edge table, the
\* actor, the snapshot or a guard.
Refuse == refusal' = "audited" /\ UNCHANGED vars

\* applyCapPause, for a task whose models turn out capped
\* while it is worked on, or resumeIfCapCleared,
\* for a task paused by the cap, is refused: both make their requests inside
\* one store.write.
RefuseNested(t) ==
  /\ \/ status[t] \in InProgress /\ ~CapPauseAllowed(t)
     \/ status[t] \in TaskCapResume.from /\ ~CapResumeAllowed(t)
  /\ refusal' = "lost"
  /\ UNCHANGED vars

AuditNext == Accept \/ Refuse \/ \E t \in Tasks : RefuseNested(t)

AuditSpec == AuditInit /\ [][AuditNext]_auditVars

-----------------------------------------------------------------------------
\* state.ts: every accepted and every rejected request appends a
\* transition_event row, so no rejection event is lost.
RejectionsAudited == refusal # "lost"
=============================================================================
