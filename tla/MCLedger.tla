------------------------------ MODULE MCLedger ------------------------------
(* Instances of Ledger. *)
EXTENDS Ledger, TLC

CONSTANTS r1, r2, r3, t1, t2, p1

OnePhase == t1 :> p1 @@ t2 :> p1
\* The workflow admits two calls at once, a task and the jev scope one.
Concurrency == "workflow" :> 2 @@ "phase" :> 2 @@ "task" :> 1 @@ "jev" :> 1
Caps == "workflow" :> 3 @@ "phase" :> 3 @@ "task" :> 3 @@ "jev" :> 2

\* Reservation ids are interchangeable.
IdSymmetry == Permutations(Ids)
=============================================================================
