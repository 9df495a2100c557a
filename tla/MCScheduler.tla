---------------------------- MODULE MCScheduler ----------------------------
(* Instances of Scheduler. *)
EXTENDS Scheduler, TLC

CONSTANTS t1, t2, t3

\* t3 waits for t1; t2 and t3 own the same path, t1 owns nothing; a task with
\* a path of its own conflicts with itself.
Waiting == t1 :> {} @@ t2 :> {} @@ t3 :> {t1}
Ranks == t1 :> 1 @@ t2 :> 2 @@ t3 :> 3
SharedPath == {<<t2, t2>>, <<t3, t3>>, <<t2, t3>>, <<t3, t2>>}

\* One worker; two workers; two workers and t1, t2 not known to be independent,
\* nor t1 of itself; two workers of which one cannot be asked to stop.
All == Tasks \X Tasks
TwoAtOnce == [limit |-> 2, independent |-> All, cancelWorker |-> "resolves"]
Ceilings ==
  {[TwoAtOnce EXCEPT !.limit = 1],
   [TwoAtOnce EXCEPT !.independent = All \ {<<t1, t1>>, <<t1, t2>>, <<t2, t1>>},
                     !.cancelWorker = "absent"]}
  \cup {[TwoAtOnce EXCEPT !.cancelWorker = c] : c \in {"resolves", "rejects", "hangs"}}

\* Two tasks without dependencies or owned paths.
Flat2 == t1 :> {} @@ t2 :> {}
Ranks2 == t1 :> 1 @@ t2 :> 2
NoPaths == {}
TwoOnly == {TwoAtOnce}

\* What may happen to a task while the loop awaits.
BlockAndReady == {TaskBlock, TaskReady, TaskFailed, TaskCancel}
=============================================================================
