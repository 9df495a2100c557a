-------------------------------- MODULE Jev --------------------------------
(***************************************************************************)
(* One askAll (decisions/ask.ts) over the Jev transport: the HTTP          *)
(* transport with its own retries (jev/http.ts), inside the deadline, the  *)
(* retries and the circuit breaker of jev/resilience.ts.  The pool's       *)
(* workers are promises of one thread: each action runs up to the next     *)
(* await.  Time is counted in ticks; a timer that is due fires, and a      *)
(* promise that is ready continues, before the clock moves on.  Both       *)
(* layers get the same time limit (createJev), and the wrapper's timer is  *)
(* set first, so the HTTP transport's own never decides.                   *)
(***************************************************************************)
EXTENDS Integers, FiniteSets

CONSTANTS
  Workers,           \* the pool of one askAll, min(concurrency, groups)
  MaxGroups,         \* bound: the groups one askAll is given
  MaxRetries,        \* config jev.maxRetries, of both layers
  Deadline,          \* config jev.timeoutMs
  Delays,            \* what a jittered backoff may last
  FailureThreshold,
  ResetTimeout,
  HalfOpenMaxCalls

ASSUME JevAssumption ==
  /\ IsFiniteSet(Workers)
  /\ MaxGroups \in Nat
  /\ MaxRetries \in Nat
  /\ Deadline \in Nat \ {0}
  /\ Delays \in SUBSET Nat
  /\ FailureThreshold \in Nat \ {0}
  /\ ResetTimeout \in Nat
  /\ HalfOpenMaxCalls \in Nat \ {0}

VARIABLES
  breaker,  \* the circuit breaker of the host
  probes,   \* workers whose call was let through in this half-open period
  pc,       \* where each worker is
  call,     \* each worker's call: group, attempts, ticks since its start, wait
  pool,     \* the askAll: total, next, the groups it replays, resolved or not
  out,      \* results written for each group
  aborted   \* ctx.signal

vars == <<breaker, probes, pc, call, pool, out, aborted>>

NoCall == [group |-> 0, round |-> 0, try |-> 0, elapsed |-> 0, wait |-> 0]
InFlight(w) == pc[w] \in {"fetch", "httpSleep", "backoff"}
Go(w, l) == pc' = [pc EXCEPT ![w] = l]

Init ==
  /\ breaker = [state |-> "closed", failures |-> 0, openFor |-> 0, half |-> 0]
  /\ probes = {}
  /\ pc = [w \in Workers |-> "done"]
  /\ call = [w \in Workers |-> NoCall]
  /\ pool = [total |-> 0, next |-> 1, hits |-> {}, resolved |-> TRUE]
  /\ out = [g \in 1..MaxGroups |-> 0]
  /\ aborted = FALSE

-----------------------------------------------------------------------------
(* CircuitBreaker.  openFor is the time since openedAt, up to the timeout,  *)
(* and failures is counted up to the threshold: nothing asks for more.      *)

MaybeTransitionToHalfOpen(b) ==
  IF b.state = "open" /\ b.openFor >= ResetTimeout
    THEN [b EXCEPT !.state = "half_open", !.half = 0] ELSE b

\* canProceed, after its own transition.
CanProceed(b) ==
  LET h == MaybeTransitionToHalfOpen(b)
  IN  h.state = "closed" \/ (h.state = "half_open" /\ h.half < HalfOpenMaxCalls)

BeforeCall(b) ==
  LET h == MaybeTransitionToHalfOpen(b)
  IN  IF h.state = "half_open" THEN [h EXCEPT !.half = @ + 1] ELSE h

Trip(b) == [b EXCEPT !.state = "open", !.openFor = 0, !.half = 0]

SlotGivenBack(b) ==
  IF b.state = "half_open" /\ b.half > 0 THEN [b EXCEPT !.half = @ - 1] ELSE b

OnSuccess(b) ==
  [SlotGivenBack(b) EXCEPT !.state = "closed", !.failures = 0, !.openFor = 0]

\* Mutant: a cancelled probe keeps its slot.
OnCancelledLeaking(b) == b

OnCancelled(b) == SlotGivenBack(b)

OnFailure(b) ==
  LET n == IF b.failures < FailureThreshold THEN b.failures + 1 ELSE b.failures
      c == [b EXCEPT !.failures = n]
  IN  CASE b.state = "half_open" -> Trip(b)
        [] b.state # "half_open" /\ n >= FailureThreshold -> Trip(c)
        [] OTHER -> c

-----------------------------------------------------------------------------
(* One call of the wrapped transport *)

\* run resolves: the breaker hears of it, and askBatch writes the result of
\* the group, Jev's or the fallback's.
Resolve(w, b) ==
  /\ breaker' = b
  /\ probes' = probes \ {w}
  /\ out' = [out EXCEPT ![call[w].group] = @ + 1]
  /\ call' = [call EXCEPT ![w] = NoCall]
  /\ Go(w, "ready")

\* An error that is not retried; an aborted signal makes it a cancellation.
Fail(w) == Resolve(w, IF aborted THEN OnCancelled(breaker) ELSE OnFailure(breaker))

\* Mutant: the time left is not looked at before another attempt.
AttemptAlways(w, c) ==
  /\ call' = [call EXCEPT ![w] = c]
  /\ Go(w, "fetch")
  /\ UNCHANGED <<breaker, probes, out>>

\* The body of an attempt: with no time left it fails, otherwise the HTTP
\* transport fetches.
Attempt(w, c) ==
  IF c.elapsed >= Deadline THEN Fail(w)
  ELSE /\ call' = [call EXCEPT ![w] = c]
       /\ Go(w, "fetch")
       /\ UNCHANGED <<breaker, probes, out>>

\* A retryable result of the HTTP transport (RETRYABLE_CODES) in withRetry.
Retry(w) ==
  IF aborted \/ call[w].round = MaxRetries THEN Fail(w)
  ELSE /\ \E d \in Delays : call' = [call EXCEPT ![w].wait = d]
       /\ Go(w, "backoff")
       /\ UNCHANGED <<breaker, probes, out>>

\* The fetch ends, as ok, with a busy server or a network error (retried by
\* both layers), with an odd status (jev.unknown, retried by the wrapper
\* only), refused or malformed (not retried), or cut short by the abort.
Reply(w, r) ==
  /\ pc[w] = "fetch"
  /\ \/ r = "ok" /\ Resolve(w, OnSuccess(breaker))
     \/ r = "refused" /\ Resolve(w, OnFailure(breaker))
     \/ r = "cancelled" /\ aborted /\ Resolve(w, OnCancelled(breaker))
     \/ r = "odd" /\ Retry(w)
     \/ r = "busy" /\ call[w].try = MaxRetries /\ Retry(w)
     \/ /\ r = "busy" /\ call[w].try < MaxRetries
        /\ \E d \in Delays : call' = [call EXCEPT ![w].wait = d]
        /\ Go(w, "httpSleep")
        /\ UNCHANGED <<breaker, probes, out>>
  /\ UNCHANGED <<pool, aborted>>

\* A sleep ends, by itself or by the abort.
Awake(w) == call[w].wait = 0 \/ aborted

\* The next fetch of the HTTP transport.
WakeHttp(w) ==
  /\ pc[w] = "httpSleep"
  /\ Awake(w)
  /\ IF aborted THEN Resolve(w, OnCancelled(breaker))
     ELSE /\ call' = [call EXCEPT ![w].try = @ + 1, ![w].wait = 0]
          /\ Go(w, "fetch")
          /\ UNCHANGED <<breaker, probes, out>>
  /\ UNCHANGED <<pool, aborted>>

\* The next attempt of withRetry.
WakeBackoff(w) ==
  /\ pc[w] = "backoff"
  /\ Awake(w)
  /\ IF aborted THEN Fail(w)
     ELSE Attempt(w, [call[w] EXCEPT !.round = @ + 1, !.try = 0, !.wait = 0])
  /\ UNCHANGED <<pool, aborted>>

\* Mutant: the deadline timer is set for the wait between fetches only.
DeadlineFiresAsleep(w) ==
  /\ pc[w] = "httpSleep"
  /\ call[w].elapsed >= Deadline
  /\ Fail(w)
  /\ UNCHANGED <<pool, aborted>>

\* withDeadline abandons the transport, whatever it is doing.
DeadlineFires(w) ==
  /\ pc[w] \in {"fetch", "httpSleep"}
  /\ call[w].elapsed >= Deadline
  /\ Fail(w)
  /\ UNCHANGED <<pool, aborted>>

-----------------------------------------------------------------------------
(* askAll *)

\* askAll groups its items into n requests; hits are the groups whose items
\* all replay a recorded decision.
AskAll(n, hits) ==
  /\ pool.resolved
  /\ pool' = [total |-> n, next |-> 1, hits |-> hits, resolved |-> FALSE]
  /\ pc' = [w \in Workers |-> "ready"]
  /\ out' = [g \in 1..MaxGroups |-> 0]
  /\ aborted' = FALSE
  /\ UNCHANGED <<breaker, probes, call>>

\* Mutant: next is read, and moved on only after an await, so that two
\* workers take the same replayed group.
TakenStale ==
  IF pool.next \in pool.hits /\ out[pool.next] = 0 THEN pool ELSE [pool EXCEPT !.next = @ + 1]

\* next is read and moved on in one go.
Taken == [pool EXCEPT !.next = @ + 1]

\* A worker takes the next group: there is none left, it is replayed, the
\* breaker refuses it (disabled, so the fallback), or its call begins.
Take(w) ==
  LET g == pool.next
      begun == [NoCall EXCEPT !.group = g]
      written == [out EXCEPT ![g] = @ + 1]
  IN  /\ pc[w] = "ready"
      /\ \/ /\ g > pool.total
            /\ Go(w, "done")
            /\ UNCHANGED <<breaker, probes, call, pool, out>>
         \/ /\ g <= pool.total /\ g \in pool.hits
            /\ pool' = Taken
            /\ out' = written
            /\ UNCHANGED <<breaker, probes, pc, call>>
         \/ /\ g <= pool.total /\ g \notin pool.hits /\ ~CanProceed(breaker)
            /\ pool' = Taken
            /\ breaker' = MaybeTransitionToHalfOpen(breaker)
            /\ out' = written
            /\ UNCHANGED <<probes, pc, call>>
         \/ /\ g <= pool.total /\ g \notin pool.hits /\ CanProceed(breaker)
            /\ pool' = Taken
            /\ LET b == BeforeCall(breaker)
                   fresh == breaker.state = "open" /\ b.state = "half_open"
               IN  IF aborted
                     THEN /\ breaker' = OnCancelled(b)
                          /\ probes' = IF fresh THEN {} ELSE probes
                          /\ out' = written
                          /\ UNCHANGED <<pc, call>>
                     ELSE /\ breaker' = b
                          /\ probes' = (IF fresh THEN {} ELSE probes) \cup {w}
                          /\ call' = [call EXCEPT ![w] = begun]
                          /\ Go(w, "fetch")
                          /\ UNCHANGED out
      /\ UNCHANGED aborted

\* Promise.all
PoolResolves ==
  /\ ~pool.resolved
  /\ \A w \in Workers : pc[w] = "done"
  /\ pool' = [pool EXCEPT !.resolved = TRUE]
  /\ UNCHANGED <<breaker, probes, pc, call, out, aborted>>

\* The caller cancels what it asked.
Abort ==
  /\ ~pool.resolved
  /\ ~aborted
  /\ aborted' = TRUE
  /\ UNCHANGED <<breaker, probes, pc, call, pool, out>>

-----------------------------------------------------------------------------
\* What must happen before the clock moves on.
Due(w) ==
  \/ pc[w] = "ready"
  \/ pc[w] \in {"httpSleep", "backoff"} /\ Awake(w)
  \/ pc[w] \in {"fetch", "httpSleep"} /\ call[w].elapsed >= Deadline

\* A tick of Date.now and of the timers.
Tick ==
  /\ \A w \in Workers : ~Due(w)
  /\ breaker' = [breaker EXCEPT !.openFor =
                   IF breaker.state = "open" /\ @ < ResetTimeout THEN @ + 1 ELSE @]
  /\ call' = [w \in Workers |->
                IF InFlight(w)
                  THEN [call[w] EXCEPT !.elapsed = @ + 1,
                                       !.wait = IF @ > 0 THEN @ - 1 ELSE 0]
                  ELSE call[w]]
  /\ UNCHANGED <<probes, pc, pool, out, aborted>>

Work(w) == Take(w) \/ WakeHttp(w) \/ WakeBackoff(w) \/ DeadlineFires(w)

Next ==
  \/ \E n \in 1..MaxGroups : \E hits \in SUBSET (1..n) : AskAll(n, hits)
  \/ \E w \in Workers : Work(w)
  \/ \E w \in Workers, r \in {"ok", "refused", "cancelled", "odd", "busy"} : Reply(w, r)
  \/ PoolResolves
  \/ Abort
  \/ Tick

\* Real time passes, timers fire and ready promises continue; the server owes
\* no answer.
Fairness == SF_vars(Tick) /\ WF_vars(PoolResolves) /\ \A w \in Workers : WF_vars(Work(w))

Spec == Init /\ [][Next]_vars
FairSpec == Spec /\ Fairness

-----------------------------------------------------------------------------
\* A call outlasts its deadline by one backoff at most.
OverrunBounded ==
  \A w \in Workers : \E d \in Delays \cup {0} : call[w].elapsed <= Deadline + d

\* askAll ends, whether or not the server ever answers, and when it does every
\* group has exactly one result and nothing it started is still running.
AskAllEnds ==
  ~pool.resolved ~> /\ pool.resolved
                    /\ \A g \in 1..pool.total : out[g] = 1
                    /\ \A w \in Workers : ~InFlight(w)

\* The breaker never locks the host out: again and again it would let a call
\* through.
BreakerRecovers == []<>CanProceed(breaker)
=============================================================================
