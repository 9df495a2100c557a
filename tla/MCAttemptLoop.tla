--------------------------- MODULE MCAttemptLoop ---------------------------
(* Instances of AttemptLoop: the shipped caps, one failure per category, a  *)
(* worker that repeats itself, and one that works.                         *)
EXTENDS AttemptLoop, TLC

ShippedLimits == [maxAttempts |-> 3, maxHarnessRetries |-> 3, maxConsecutiveTruncations |-> 2]
ShippedRecovery ==
  [maxAttemptsPerTask |-> 3, maxAttemptsPerPhase |-> 2, finalResponse |-> "ask_user",
   unreconcilable |-> "stop",
   caps |-> ("gather_evidence" :> 1) @@ ("replan" :> 1) @@ ("fallback_model" :> 1)
            @@ ("change_worker" :> 1)]
ShippedStalls == [repeatedFailures |-> 3, repeatedApproaches |-> 2, noProgressAttempts |-> 2,
                  toolCallsWithoutChange |-> 12]
Silent == [source |-> "fallback", value |-> "unknown"]
Mark(m) == [turn |-> "gap", marks |-> {m}, answer |-> Silent]
MCSignals ==
  {Mark("compile_error"), Mark("dependency_phrase"), Mark("test_expectation_phrase"),
   Mark("missing_information_marker"), Mark("environment_code"),
   [turn |-> "gap", marks |-> {"compile_error", "http_5xx"}, answer |-> Silent],
   [turn |-> "truncated", marks |-> {}, answer |-> Silent],
   [turn |-> "capped", marks |-> {}, answer |-> Silent],
   [turn |-> "gap", marks |-> {}, answer |-> Silent],
   [turn |-> "gap", marks |-> {}, answer |-> [source |-> "jev", value |-> "implementation"]]}
Seen(files, fingerprint, calls) ==
  [kind |-> "gap", filesChanged |-> files, fingerprint |-> fingerprint, toolCalls |-> calls,
   signatures |-> {"k::fail"}, failing |-> {"k"}, passing |-> {}, verifying |-> {},
   drifts |-> FALSE]
MCAttempts == {Seen(TRUE, "a", 1), Seen(FALSE, "none", 1), Seen(FALSE, "a", 12)}
MCSteps == [sideEffect: BOOLEAN, actionId: BOOLEAN, probe: BOOLEAN]
============================================================================
