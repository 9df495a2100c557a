------------------------- MODULE MCTransitionAudit -------------------------
(* Two independent tasks of one phase. *)
EXTENDS TransitionAudit, TLC

CONSTANTS t1, t2, p1

OnePhase == t1 :> p1 @@ t2 :> p1
Independent == t1 :> {} @@ t2 :> {}
Once == t1 :> 1 @@ t2 :> 1
=============================================================================
