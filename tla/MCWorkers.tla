----------------------------- MODULE MCWorkers -----------------------------
(* Instances of Workers, with the shipped limits of the policies they use. *)
EXTENDS Workers, TLC

ShippedLimits == [maxAttempts |-> 3, maxHarnessRetries |-> 3, maxConsecutiveTruncations |-> 2]
ShippedRecovery ==
  [maxAttemptsPerTask |-> 3, maxAttemptsPerPhase |-> 2, finalResponse |-> "ask_user",
   unreconcilable |-> "stop",
   caps |-> ("gather_evidence" :> 1) @@ ("replan" :> 1) @@ ("fallback_model" :> 1)
            @@ ("change_worker" :> 1)]
ShippedStalls == [repeatedFailures |-> 3, repeatedApproaches |-> 2, noProgressAttempts |-> 2,
                  toolCallsWithoutChange |-> 12]
============================================================================
