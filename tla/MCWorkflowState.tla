-------------------------- MODULE MCWorkflowState --------------------------
(* Instances of WorkflowState. *)
EXTENDS WorkflowState, TLC

CONSTANTS t1, t2, p1

\* Two tasks of one phase, the second depending on the first.
OnePhase == t1 :> p1 @@ t2 :> p1
Chain == t1 :> {} @@ t2 :> {t1}
\* The first is dispatched once and never revised; the second is dispatched
\* twice and revised once.
Dispatches == t1 :> 1 @@ t2 :> 2
Revisions == t1 :> 1 @@ t2 :> 2
=============================================================================
