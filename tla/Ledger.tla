------------------------------- MODULE Ledger -------------------------------
(***************************************************************************)
(* The usage ledger (telemetry/ledger.ts, LedgerRepository, the abandoned  *)
(* reservations of storage/reconcile.ts) and the budget stop that rests on *)
(* it (workflow/budget-stops.ts).  Rows are append-only, so a reservation  *)
(* is described by its terminal row, if any.  Spend, tokens, requests and  *)
(* elapsed time are summed and capped alike: one amount stands for them,   *)
(* and an unpriced call is an amount of 0.  One action is one store.write  *)
(* transaction.                                                            *)
(***************************************************************************)
EXTENDS Integers, FiniteSets, FiniteSetsExt

CONSTANTS
  Ids,            \* reservation ids
  Tasks, Phases, PhaseOf,
  Amounts,        \* estimates
  MaxUse,         \* bound: what one call uses
  MaxConcurrency, \* the concurrency cap of each scope kind
  StartCap,       \* the amount cap of each scope kind at first
  MaxCap          \* bound: the caps a user raises to

Kinds == {"jev", "workflow", "phase", "task"}

ASSUME LedgerAssumption ==
  /\ IsFiniteSet(Ids)
  /\ PhaseOf \in [Tasks -> Phases]
  /\ Amounts \in SUBSET Nat
  /\ MaxUse \in Nat
  /\ MaxConcurrency \in [Kinds -> Nat]
  /\ StartCap \in [Kinds -> Nat]
  /\ MaxCap \in Nat

VARIABLES
  entry,    \* the last row of a reservation: none, reservation or terminal
  task,     \* the scope charged, as its innermost member
  channel,  \* jev or model
  estimate, \* usage of the reservation row
  cost,     \* what the call has really used so far, known to the provider
  cap,      \* the amount caps of the configuration
  stopped   \* BudgetGovernor's latch: the scope kind and task, or none

rowVars == <<entry, task, channel, estimate, cost>>
vars == <<rowVars, cap, stopped>>

Terminal == {"settlement", "release", "abandonment"}
None == [kind |-> "none"]

Init ==
  /\ entry = [r \in Ids |-> "none"]
  /\ task \in [Ids -> {CHOOSE t \in Tasks : TRUE}]
  /\ channel = [r \in Ids |-> "model"]
  /\ estimate = [r \in Ids |-> 0]
  /\ cost = [r \in Ids |-> 0]
  /\ cap = StartCap
  /\ stopped = None

-----------------------------------------------------------------------------
(* What a scope has committed *)

\* scopeTarget: the rows charged to the same scope of kind k as task t; the
\* jev scope is the workflow's rows of the jev channel.
InScope(k, t) ==
  {r \in Ids : CASE k = "jev" -> channel[r] = "jev"
                 [] k = "workflow" -> TRUE
                 [] k = "phase" -> PhaseOf[task[r]] = PhaseOf[t]
                 [] k = "task" -> task[r] = t}

\* Mutant: a dead session's reservations are refunded.
ChargedRefunding(r) ==
  CASE entry[r] = "reservation" -> estimate[r]
    [] entry[r] = "settlement" -> cost[r]
    [] OTHER -> 0

\* What a reservation counts for: its estimate while open or abandoned, the
\* actual usage once settled, nothing once released.
Charged(r) ==
  CASE entry[r] \in {"reservation", "abandonment"} -> estimate[r]
    [] entry[r] = "settlement" -> cost[r]
    [] OTHER -> 0

\* committedTotals and openCount.
Committed(k, t) == MapThenSumSet(Charged, InScope(k, t))
Open(k, t) == Cardinality({r \in InScope(k, t) : entry[r] = "reservation"})

\* scopeKindsFor
ScopeKinds(ch) == IF ch = "jev" THEN Kinds ELSE Kinds \ {"jev"}

\* Mutant: the open reservation itself is not counted.
ConcurrencyFitsOff(k, t) == Open(k, t) <= MaxConcurrency[k]

\* The checks of assertWithinCaps in one scope.
AmountFits(k, t, e) == Committed(k, t) + e <= cap[k]
ConcurrencyFits(k, t) == Open(k, t) + 1 <= MaxConcurrency[k]

WithinCaps(t, ch, e) ==
  \A k \in ScopeKinds(ch) : AmountFits(k, t, e) /\ ConcurrencyFits(k, t)

-----------------------------------------------------------------------------
(* Ledger *)

Append(r, t, ch, e) ==
  /\ entry[r] = "none"
  /\ entry' = [entry EXCEPT ![r] = "reservation"]
  /\ task' = [task EXCEPT ![r] = t]
  /\ channel' = [channel EXCEPT ![r] = ch]
  /\ estimate' = [estimate EXCEPT ![r] = e]
  /\ UNCHANGED cost

\* reserve: the cap check and the insert are one transaction.
Reserve(r, t, ch, e) ==
  /\ Append(r, t, ch, e)
  /\ WithinCaps(t, ch, e)
  /\ UNCHANGED <<cap, stopped>>

\* External: the call behind a reservation uses some more, also when its
\* worker has outlived the session that reserved (it is reattached).
Call(r) ==
  /\ entry[r] \in {"reservation", "abandonment"}
  /\ cost[r] < MaxUse
  /\ cost' = [cost EXCEPT ![r] = @ + 1]
  /\ UNCHANGED <<entry, task, channel, estimate, cap, stopped>>

\* The terminal row of a reservation, which must be open (assertOpen).
Close(r, kind) ==
  /\ entry[r] = "reservation"
  /\ entry' = [entry EXCEPT ![r] = kind]
  /\ UNCHANGED <<task, channel, estimate, cost, cap, stopped>>

Settle(r) == Close(r, "settlement")

\* release: of a call that never ran, or that threw (withReservation), or of a
\* dispatch whose actual usage the caller does not know.
Release(r) == Close(r, "release")

\* The session dies, its latch with it, and the next openStore closes what it
\* left open (reconcileOpenReservations).
Restart ==
  /\ entry' = [r \in Ids |-> IF entry[r] = "reservation" THEN "abandonment" ELSE entry[r]]
  /\ stopped' = None
  /\ UNCHANGED <<task, channel, estimate, cost, cap>>

-----------------------------------------------------------------------------
(* The budget stop *)

\* SCOPE_ORDER: the scope reported is the first one that refuses.
Refusing(t, e) ==
  CHOOSE k \in {"workflow", "phase", "task"} :
    /\ ~(AmountFits(k, t, e) /\ ConcurrencyFits(k, t))
    /\ k = "phase" => AmountFits("workflow", t, e) /\ ConcurrencyFits("workflow", t)
    /\ k = "task" => \A j \in {"workflow", "phase"} :
                       AmountFits(j, t, e) /\ ConcurrencyFits(j, t)

\* budgetReservationHook, granted.
HookReserve(r, t, e) ==
  /\ stopped = None
  /\ Reserve(r, t, "model", e)

\* budgetReservationHook, refused: a cumulative cap latches the governor, a
\* concurrency cap does not.
HookRefuse(t, e) ==
  /\ stopped = None
  /\ ~WithinCaps(t, "model", e)
  /\ ~AmountFits(Refusing(t, e), t, e)
  /\ stopped' = [kind |-> Refusing(t, e), task |-> t]
  /\ UNCHANGED <<rowVars, cap>>

\* The user raises a cap in the configuration.
RaiseCap(k) ==
  /\ cap[k] < MaxCap
  /\ cap' = [cap EXCEPT ![k] = @ + 1]
  /\ UNCHANGED <<rowVars, stopped>>

\* resumeAfterCapRaised, where u is a task of the first phase of the run: it
\* is refused only while the cap that refused is exhausted, for a phase cap
\* in that first phase; otherwise the latch is cleared (clearForRaisedCap).
ResumeAfterCapRaised(u) ==
  /\ stopped # None
  /\ LET t == IF stopped.kind = "phase" THEN u ELSE stopped.task
     IN  Committed(stopped.kind, t) < cap[stopped.kind]
  /\ stopped' = None
  /\ UNCHANGED <<rowVars, cap>>

-----------------------------------------------------------------------------
Next ==
  \/ \E r \in Ids, t \in Tasks, ch \in {"model", "jev"}, e \in Amounts : Reserve(r, t, ch, e)
  \/ \E r \in Ids, t \in Tasks, e \in Amounts : HookReserve(r, t, e)
  \/ \E t \in Tasks, e \in Amounts : HookRefuse(t, e)
  \/ \E r \in Ids : Call(r) \/ Settle(r) \/ Release(r)
  \/ Restart
  \/ \E k \in Kinds : RaiseCap(k)
  \/ \E u \in Tasks : ResumeAfterCapRaised(u)

Spec == Init /\ [][Next]_vars

-----------------------------------------------------------------------------
\* What the use of a call escapes the caps by: all of it, if its reservation was
\* released, and else what it has used beyond its estimate.
Escaped(r) ==
  CASE entry[r] = "release" -> cost[r]
    [] cost[r] > estimate[r] -> cost[r] - estimate[r]
    [] OTHER -> 0

\* The caps are hard for everything the ledger can know of: what the calls of a
\* scope have really used, those of dead sessions included, exceeds its cap by
\* no more than single calls exceeded their own estimates and released calls
\* had used, and never more reservations are open at once than its concurrency
\* cap allows, however callers, crashes and restarts interleave.
SpendWithinCap ==
  \A k \in Kinds, t \in Tasks :
    /\ MapThenSumSet(LAMBDA r : cost[r] - Escaped(r), InScope(k, t)) <= cap[k]
    /\ Open(k, t) <= MaxConcurrency[k]

-----------------------------------------------------------------------------
(* What the documentation says and the code does not do *)

\* ledger.ts, release: the call never ran, so it used nothing.
ReleasedUsedNothing == \A r \in Ids : entry[r] = "release" => cost[r] = 0
=============================================================================
