-------------------------- MODULE MCOrchestrator --------------------------
(* Instances of Orchestrator: two issues, two models. *)
EXTENDS Orchestrator, TLC

CONSTANTS m1, m2

MCStaticOrder == <<m1, m2>>

Config(deps2, attempts, concurrency, merge, retry, started, acts) ==
    [deps |-> 1 :> {} @@ 2 :> deps2, maxAttempts |-> attempts,
     concurrency |-> concurrency, merge |-> merge, retryStuck |-> retry,
     verified |-> {1}, sessions |-> started, ownerActs |-> acts]

\* Two attempts on issue 1 while 2 stays blocked; one attempt each, side by side in
\* one session; one attempt each in order; parked issues admitted again, without
\* merging.
MCSettings ==
    { Config({2}, 2, 2, TRUE, FALSE, 2, 0),
      Config({}, 1, 2, TRUE, FALSE, 1, 0),
      Config({1}, 1, 1, TRUE, FALSE, 2, 1),
      Config({2}, 1, 1, FALSE, TRUE, 2, 1) }
===========================================================================
