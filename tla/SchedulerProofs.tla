-------------------------- MODULE SchedulerProofs --------------------------
(***************************************************************************)
(* The dispatch loop for any tasks, dependencies, ownership, coupling and  *)
(* ceiling.  An exclusive task is never dispatched again while it is in    *)
(* flight; of the others nothing is claimed once the loop may have run two *)
(* workers of one.                                                         *)
(***************************************************************************)
EXTENDS Scheduler, FiniteSetTheorems, TLAPS

-----------------------------------------------------------------------------
(* The greedy selection of planPass exists and is unique, whatever the tasks
   and their ranks: the condition on a task reads the selection only below
   its rank.                                                                *)

Fits(t, S) ==
  /\ Room(t, S)
  /\ \A u \in inFlight \cup Before(t, S) : MayRunConcurrently(t, u)

\* S is the selection as far as the tasks ranked below n.
GreedyBelow(n, S) == \A t \in ReadySet : Rank[t] < n => (t \in S <=> Fits(t, S))

\* The least natural number of a set that has one.
LEMMA LeastNat ==
  ASSUME NEW N \in SUBSET Nat, N # {}
  PROVE  \E n \in N : \A m \in N : n <= m
<1>1. PICK n \in N : \A m \in N : ~(<<m, n>> \in OpToRel(<, Nat))
  BY NatLessThanWellFounded, WFMin
<1>2. \A m \in N : m < n => <<m, n>> \in OpToRel(<, Nat)
  BY DEF OpToRel
<1>3. \A m \in N : ~(m < n)
  BY <1>1, <1>2, Zenon
<1> QED
  BY <1>3

LEMMA FitsReadsBelow ==
  ASSUME NEW t \in Tasks, NEW S, NEW T, Before(t, S) = Before(t, T)
  PROVE  Fits(t, S) <=> Fits(t, T)
BY DEF Fits, Room

LEMMA GreedyAgree ==
  ASSUME NEW n \in Nat, NEW S \in SUBSET ReadySet, NEW T \in SUBSET ReadySet,
         GreedyBelow(n, S), GreedyBelow(n, T)
  PROVE  \A t \in ReadySet : Rank[t] < n => (t \in S <=> t \in T)
<1> USE SchedulerAssumption DEF ReadySet
<1> DEFINE Bad == {t \in ReadySet : Rank[t] < n /\ ~(t \in S <=> t \in T)}
           N == {Rank[t] : t \in Bad}
<1>1. SUFFICES ASSUME Bad # {} PROVE FALSE
  OBVIOUS
<1>2. PICK t \in Bad : \A u \in Bad : Rank[t] <= Rank[u]
  <2>1. N \in SUBSET Nat /\ N # {}
    BY <1>1
  <2>2. PICK k \in N : \A m \in N : k <= m
    BY <2>1, LeastNat
  <2> QED
    BY <2>2
<1>3. Before(t, S) = Before(t, T)
  BY <1>2 DEF Before
<1> QED
  BY <1>2, <1>3, FitsReadsBelow DEF GreedyBelow

LEMMA GreedyExists == \A n \in Nat : \E S \in SUBSET ReadySet : GreedyBelow(n, S)
<1> USE SchedulerAssumption
<1> DEFINE N == {n \in Nat : ~\E S \in SUBSET ReadySet : GreedyBelow(n, S)}
<1>1. SUFFICES ASSUME N # {} PROVE FALSE
  OBVIOUS
<1>2. PICK n \in N : \A m \in N : n <= m
  BY <1>1, LeastNat
<1>3. n # 0
  <2>1. GreedyBelow(0, {})
    BY DEF GreedyBelow, ReadySet
  <2> QED
    BY <2>1
<1>4. n - 1 \in Nat /\ n - 1 \notin N
  BY <1>2, <1>3
<1>5. PICK S \in SUBSET ReadySet : GreedyBelow(n - 1, S)
  BY <1>4
<1> DEFINE T == {t \in ReadySet : IF Rank[t] < n - 1 THEN t \in S ELSE Fits(t, S)}
<1>6. ASSUME NEW t \in ReadySet, Rank[t] < n
      PROVE  t \in T <=> Fits(t, T)
  <2>1. Before(t, S) = Before(t, T)
    BY <1>4, <1>6 DEF Before, ReadySet
  <2>2. t \in T <=> Fits(t, S)
    BY <1>5 DEF GreedyBelow
  <2> QED
    BY <2>1, <2>2, FitsReadsBelow DEF ReadySet
<1>7. GreedyBelow(n, T) /\ T \in SUBSET ReadySet
  BY <1>6 DEF GreedyBelow
<1> QED
  BY <1>7

LEMMA SelectedGreedy == Selected \in SUBSET ReadySet /\ \A t \in ReadySet : t \in Selected <=> Fits(t, Selected)
<1> USE SchedulerAssumption
<1>1. \E S \in SUBSET ReadySet : \A t \in ReadySet : t \in S <=> Fits(t, S)
  <2> DEFINE T == {t \in ReadySet : \E S \in SUBSET ReadySet : GreedyBelow(Rank[t] + 1, S) /\ t \in S}
  <2>1. ASSUME NEW t \in ReadySet PROVE t \in T <=> Fits(t, T)
    <3>1. Rank[t] + 1 \in Nat
      BY DEF ReadySet
    <3>2. PICK S \in SUBSET ReadySet : GreedyBelow(Rank[t] + 1, S)
      BY <3>1, GreedyExists
    <3>3. ASSUME NEW u \in ReadySet, Rank[u] < Rank[t] + 1 PROVE u \in S <=> u \in T
      <4>1. Rank[u] + 1 \in Nat /\ Rank[u] \in Nat /\ Rank[t] \in Nat
        BY DEF ReadySet
      <4>2. GreedyBelow(Rank[u] + 1, S)
        BY <3>2, <3>3, <4>1 DEF GreedyBelow, ReadySet
      <4>3. u \in S => u \in T
        BY <4>2
      <4>4. ASSUME NEW Q \in SUBSET ReadySet, GreedyBelow(Rank[u] + 1, Q), u \in Q PROVE u \in S
        BY <4>1, <4>2, <4>4, GreedyAgree
      <4> QED
        BY <4>3, <4>4
    <3>4. Before(t, S) = Before(t, T)
      BY <3>3 DEF Before, ReadySet
    <3>5. t \in S <=> t \in T
      BY <3>3 DEF ReadySet
    <3>6. t \in S <=> Fits(t, S)
      BY <3>2 DEF GreedyBelow, ReadySet
    <3> QED
      BY <3>4, <3>5, <3>6, FitsReadsBelow DEF ReadySet
  <2> HIDE DEF T
  <2>2. T \in SUBSET ReadySet
    BY DEF T
  <2> QED
    BY <2>1, <2>2
<1> QED
  BY <1>1 DEF Selected, Fits

\* A nonempty selection has a last task, and all the others come before it.
LEMMA LastOf ==
  ASSUME NEW S \in SUBSET Tasks, S # {}
  PROVE  \E t \in S : Before(t, S) = S \ {t}
<1> USE SchedulerAssumption
<1> DEFINE above(t) == S \ Before(t, S)
           N == {Cardinality(above(t)) : t \in S}
<1>1. IsFiniteSet(S) /\ \A t \in S : IsFiniteSet(above(t)) /\ Cardinality(above(t)) \in Nat
  <2>1. \A t \in S : above(t) \in SUBSET Tasks
    OBVIOUS
  <2> QED
    BY <2>1, FS_Subset, FS_CardinalityType
<1>2. N \in SUBSET Nat /\ N # {}
  <2> HIDE DEF above
  <2> QED
    BY <1>1
<1>3. PICK t \in S : \A u \in S : Cardinality(above(t)) <= Cardinality(above(u))
  <2>1. PICK k \in N : \A m \in N : k <= m
    BY <1>2, LeastNat
  <2> HIDE DEF above
  <2> QED
    BY <2>1
<1>4. ASSUME NEW u \in S, Rank[u] > Rank[t] PROVE FALSE
  <2>1. above(u) \in SUBSET above(t)
    BY <1>4 DEF Before
  <2>2. t \in above(t) /\ t \notin above(u)
    BY <1>4 DEF Before
  <2> HIDE DEF above
  <2>3. Cardinality(above(u)) < Cardinality(above(t))
    BY <1>1, <2>1, <2>2, FS_Subset
  <2> QED
    BY <1>1, <1>3, <2>3
<1>5. \A u \in S \ {t} : Rank[u] < Rank[t]
  BY <1>4
<1> QED
  BY <1>5 DEF Before

\* What the loop may start: nothing exclusive that is already in flight, nothing
\* that conflicts, and no more than the room left.
LEMMA SelectedSafe ==
  ASSUME inFlight \in SUBSET Tasks, params \in Params,
         Cardinality(inFlight) <= params.limit
  PROVE  /\ Selected \in SUBSET Tasks
         /\ Selected \cap inFlight \cap Exclusive = {}
         /\ \A t \in Selected, u \in inFlight \cup Selected :
              t # u => MayRunConcurrently(t, u) /\ MayRunConcurrently(u, t)
         /\ Cardinality(inFlight) + Cardinality(Selected) <= params.limit
<1> USE SchedulerAssumption
<1>1. Selected \in SUBSET Tasks
  BY SelectedGreedy DEF ReadySet
<1>2. \A t \in Selected : Room(t, Selected) /\ \A u \in inFlight \cup Before(t, Selected) : MayRunConcurrently(t, u)
  BY SelectedGreedy DEF Fits
<1>3. \A t \in Selected : t \in inFlight => t \notin Exclusive
  BY <1>1, <1>2 DEF Exclusive, MayRunConcurrently
<1>4. \A t, u \in Tasks : MayRunConcurrently(t, u) => MayRunConcurrently(u, t)
  BY DEF MayRunConcurrently
<1>5. \A t, u \in Selected : t # u => u \in Before(t, Selected) \/ t \in Before(u, Selected)
  BY <1>1 DEF Before
<1>6. Cardinality(inFlight) + Cardinality(Selected) <= params.limit
  <2>1. IsFiniteSet(inFlight) /\ IsFiniteSet(Selected)
    BY <1>1, FS_Subset
  <2>2. Cardinality(inFlight) \in Nat /\ params.limit \in Nat
    BY <2>1, FS_CardinalityType
  <2>3. CASE Selected = {}
    BY <2>2, <2>3, FS_EmptySet
  <2>4. CASE Selected # {}
    <3>1. PICK t \in Selected : Before(t, Selected) = Selected \ {t}
      BY <1>1, <2>4, LastOf
    <3>2. Cardinality(inFlight) + Cardinality(Selected \ {t}) < params.limit
      BY <1>2, <3>1 DEF Room
    <3>3. Cardinality(Selected) \in Nat /\ Cardinality(Selected \ {t}) = Cardinality(Selected) - 1
      BY <2>1, FS_RemoveElement, FS_CardinalityType
    <3> QED
      BY <2>2, <3>2, <3>3
  <2> QED
    BY <2>3, <2>4
<1> QED
  BY <1>1, <1>2, <1>3, <1>4, <1>5, <1>6

-----------------------------------------------------------------------------
(* The inductive invariant.  A tracked task has at most one unsettled promise
   and keeps its entry of the map until the loop has seen that promise settle,
   so what holds of the entries of the map (pairwise disjoint, no more than
   the limit) holds of the workers.                                         *)

TypeOK ==
  /\ status \in [Tasks -> TaskStates]
  /\ inFlight \in SUBSET Tasks
  /\ live \in [Tasks -> Nat]
  /\ settled \in SUBSET inFlight
  /\ reserved \in [Tasks -> Nat]
  /\ dispatched \in [Tasks -> Nat]
  /\ aborted \in BOOLEAN
  /\ params \in Params
  /\ loop \in {"pass", "await", "stopping", "drain", "ended", "cancelled", "failed"}

MapHoldsWorkers ==
  /\ \A t \in Tasks : live[t] <= dispatched[t]
  /\ \A t \in Tracked :
       /\ live[t] <= 1
       /\ live[t] = 1 => t \in inFlight
       /\ t \in settled => live[t] = 0

MapDisjoint ==
  \A t, u \in inFlight : t # u => <<t, u>> \notin Conflict /\ <<t, u>> \in params.independent

IInv ==
  /\ TypeOK
  /\ reserved = live
  /\ MapHoldsWorkers
  /\ MapDisjoint
  /\ Cardinality(inFlight) <= params.limit

LEMMA InitIInv == Init => IInv
<1> USE SchedulerAssumption
<1> SUFFICES ASSUME Init PROVE IInv
  OBVIOUS
<1>1. TypeOK
  <2>1. StartStatus \subseteq TaskStates
    BY DEF TaskStates, TaskNonterminal
  <2>2. status \in [Tasks -> TaskStates]
    BY <2>1 DEF Init
  <2>3. live \in [Tasks -> Nat] /\ reserved \in [Tasks -> Nat] /\ dispatched \in [Tasks -> Nat]
    BY DEF Init
  <2> QED
    BY <2>2, <2>3 DEF Init, TypeOK
<1>2. Cardinality(inFlight) <= params.limit
  BY FS_EmptySet DEF Init
<1> QED
  BY <1>1, <1>2 DEF Init, IInv, MapHoldsWorkers, MapDisjoint, Tracked

\* Fewer entries keep what holds of all of them.
LEMMA FewerInFlight ==
  ASSUME IInv, inFlight' \in SUBSET inFlight, params' = params
  PROVE  MapDisjoint' /\ Cardinality(inFlight') <= params'.limit
<1>1. IsFiniteSet(inFlight)
  BY SchedulerAssumption, FS_Subset DEF IInv, TypeOK
<1>2. Cardinality(inFlight) \in Nat /\ Cardinality(inFlight') \in Nat
      /\ Cardinality(inFlight') <= Cardinality(inFlight) /\ params.limit \in Nat
  BY <1>1, SchedulerAssumption, FS_Subset, FS_CardinalityType DEF IInv, TypeOK
<1> QED
  BY <1>2 DEF IInv, MapDisjoint

LEMMA PassIInv ==
  ASSUME IInv, NEW R \in SUBSET Tasks, Pass(R)
  PROVE  IInv'
<1> DEFINE started == {t \in Selected : Claimable(t)} \ R
<1> USE SchedulerAssumption
<1>1. /\ Selected \in SUBSET Tasks
      /\ Selected \cap inFlight \cap Exclusive = {}
      /\ \A t \in Selected, u \in inFlight \cup Selected :
           t # u => MayRunConcurrently(t, u) /\ MayRunConcurrently(u, t)
      /\ Cardinality(inFlight) + Cardinality(Selected) <= params.limit
  BY SelectedSafe DEF IInv, TypeOK
<1>2. /\ inFlight' = inFlight \cup started
      /\ settled' = settled \ started
      /\ params' = params /\ aborted' = aborted
      /\ live' = [t \in Tasks |-> IF t \in started THEN live[t] + 1 ELSE live[t]]
      /\ reserved' = [t \in Tasks |-> IF t \in started THEN reserved[t] + 1 ELSE reserved[t]]
      /\ dispatched' = [t \in Tasks |-> IF t \in started THEN dispatched[t] + 1 ELSE dispatched[t]]
      /\ status' = [t \in Tasks |-> IF t \in started THEN "running" ELSE status[t]]
      /\ loop' \in {"pass", "ended", "await"}
  BY DEF Pass
<1>3. started \in SUBSET Selected
  OBVIOUS
<1> HIDE DEF started
<1>4. started \in SUBSET Tasks
  BY <1>1, <1>3
<1>5. Exclusive' = Exclusive
  BY <1>2 DEF Exclusive
<1>6. TypeOK'
  <2>1. live' \in [Tasks -> Nat] /\ reserved' \in [Tasks -> Nat] /\ dispatched' \in [Tasks -> Nat]
    BY <1>2 DEF IInv, TypeOK
  <2>2. status' \in [Tasks -> TaskStates]
    BY <1>2 DEF IInv, TypeOK, TaskStates, TaskNonterminal
  <2> QED
    BY <1>2, <1>4, <2>1, <2>2 DEF IInv, TypeOK
<1>7. reserved' = live'
  BY <1>2 DEF IInv
<1>8. MapHoldsWorkers'
  <2>1. \A t \in Tasks : live'[t] <= dispatched'[t]
    BY <1>2 DEF IInv, TypeOK, MapHoldsWorkers
  <2>2. ASSUME NEW t \in Tasks, t \in Tracked', t \in started
        PROVE  live'[t] = 1 /\ t \in inFlight' /\ t \notin settled'
    <3>1. CASE t \in Exclusive
      <4>1. t \in Tracked /\ t \notin inFlight
        BY <1>1, <1>3, <2>2, <3>1 DEF Tracked
      <4>2. live[t] = 0
        BY <4>1 DEF IInv, TypeOK, MapHoldsWorkers
      <4> QED
        BY <1>2, <2>2, <4>2
    <3>2. CASE t \notin Exclusive
      <4>1. dispatched'[t] <= 1
        BY <1>5, <2>2, <3>2 DEF Tracked
      <4>2. dispatched[t] = 0
        BY <1>2, <2>2, <4>1 DEF IInv, TypeOK
      <4>3. live[t] = 0
        BY <4>2 DEF IInv, TypeOK, MapHoldsWorkers
      <4> QED
        BY <1>2, <2>2, <4>3
    <3> QED
      BY <3>1, <3>2
  <2>3. ASSUME NEW t \in Tasks, t \in Tracked', t \notin started
        PROVE  t \in Tracked /\ live'[t] = live[t] /\ (t \in inFlight => t \in inFlight')
               /\ (t \in settled' => t \in settled)
    <3>1. dispatched'[t] = dispatched[t] /\ live'[t] = live[t]
      BY <1>2, <2>3
    <3> QED
      BY <1>2, <1>5, <2>3, <3>1 DEF Tracked
  <2>4. \A t \in Tracked' : t \in Tasks
    BY DEF Tracked
  <2>5. ASSUME NEW t \in Tasks, t \in Tracked'
        PROVE  /\ live'[t] <= 1
               /\ live'[t] = 1 => t \in inFlight'
               /\ t \in settled' => live'[t] = 0
    <3>1. CASE t \in started
      BY <2>2, <2>5, <3>1
    <3>2. CASE t \notin started
      BY <2>3, <2>5, <3>2 DEF IInv, MapHoldsWorkers
    <3> QED
      BY <3>1, <3>2
  <2> QED
    BY <2>1, <2>4, <2>5 DEF MapHoldsWorkers
<1>9. MapDisjoint'
  BY <1>1, <1>2, <1>3 DEF IInv, MapDisjoint, MayRunConcurrently
<1>10. Cardinality(inFlight') <= params'.limit
  <2>1. IsFiniteSet(inFlight) /\ IsFiniteSet(Selected) /\ IsFiniteSet(started)
    BY <1>1, <1>3, FS_Subset DEF IInv, TypeOK
  <2>2. Cardinality(started) <= Cardinality(Selected)
    BY <1>3, <2>1, FS_Subset
  <2>4. Cardinality(inFlight') <= Cardinality(inFlight) + Cardinality(started)
    <3>1. IsFiniteSet(inFlight \cap started) /\ Cardinality(inFlight \cap started) \in Nat
      BY <2>1, FS_Subset, FS_CardinalityType
    <3>2. Cardinality(inFlight \cup started)
            = Cardinality(inFlight) + Cardinality(started) - Cardinality(inFlight \cap started)
      BY <2>1, FS_Union
    <3> QED
      BY <1>2, <2>1, <3>1, <3>2, FS_CardinalityType
  <2>5. {Cardinality(inFlight), Cardinality(inFlight'), Cardinality(Selected),
         Cardinality(started), params.limit} \subseteq Nat
    <3>1. IsFiniteSet(inFlight')
      BY <1>2, <2>1, FS_Union
    <3> QED
      BY <2>1, <3>1, FS_CardinalityType DEF IInv, TypeOK
  <2> QED
    BY <1>1, <1>2, <2>2, <2>4, <2>5
<1> QED
  BY <1>6, <1>7, <1>8, <1>9, <1>10 DEF IInv

LEMMA NextIInv == ASSUME IInv, [Next]_vars PROVE IInv'
<1> USE SchedulerAssumption
<1>1. CASE UNCHANGED vars
  BY <1>1 DEF vars, IInv, TypeOK, MapHoldsWorkers, MapDisjoint, Tracked, Exclusive
<1>2. ASSUME NEW R \in SUBSET Tasks, Pass(R) PROVE IInv'
  BY <1>2, PassIInv
<1>3. CASE NoticeAbort
  BY <1>3 DEF NoticeAbort, IInv, TypeOK, MapHoldsWorkers, MapDisjoint, Tracked, Exclusive
<1>9. CASE WorkersAsked
  BY <1>9 DEF WorkersAsked, IInv, TypeOK, MapHoldsWorkers, MapDisjoint, Tracked, Exclusive
<1>4. ASSUME NEW t \in Tasks, Resume(t) PROVE IInv'
  <2>1. inFlight' \in SUBSET inFlight /\ params' = params
    BY <1>4 DEF Resume
  <2> QED
    BY <1>4, <2>1, FewerInFlight DEF Resume, IInv, TypeOK, MapHoldsWorkers, Tracked, Exclusive
<1>5. CASE Drain
  <2>1. inFlight' \in SUBSET inFlight /\ params' = params
    BY <1>5 DEF Drain
  <2>2. status' \in [Tasks -> TaskStates]
    BY <1>5 DEF Drain, IInv, TypeOK, TaskStates, TaskTerminal
  <2>3. \A t \in Tracked : live[t] = 0
    BY <1>5 DEF Drain, IInv, TypeOK, MapHoldsWorkers, Tracked
  <2>4. Tracked' = Tracked
    BY <1>5 DEF Drain, Tracked, Exclusive
  <2>5. MapHoldsWorkers'
    BY <1>5, <2>3, <2>4 DEF Drain, IInv, TypeOK, MapHoldsWorkers
  <2> QED
    BY <1>5, <2>1, <2>2, <2>5, FewerInFlight DEF Drain, IInv, TypeOK
<1>6. ASSUME NEW t \in Tasks, NEW ok \in BOOLEAN, Settle(t, ok) PROVE IInv'
  <2>1. t \in Tracked => live[t] = 1 /\ settled' = settled \cup {t}
    BY <1>6 DEF Settle, SettledAfter, IInv, TypeOK, MapHoldsWorkers
  <2>2. settled' \in {settled, settled \cup {t}} /\ settled' \in SUBSET inFlight
    BY <1>6 DEF Settle, SettledAfter, IInv, TypeOK
  <2>3. inFlight' \in SUBSET inFlight /\ params' = params
    BY <1>6 DEF Settle
  <2>4. status' \in [Tasks -> TaskStates]
    BY <1>6 DEF Settle, IInv, TypeOK, TaskStates, TaskTerminal
  <2>5. Tracked' = Tracked
    BY <1>6 DEF Settle, Tracked, Exclusive
  <2>6. /\ live[t] > 0 /\ live' = [live EXCEPT ![t] = @ - 1]
        /\ reserved' = [reserved EXCEPT ![t] = @ - 1]
        /\ inFlight' = inFlight /\ dispatched' = dispatched
        /\ aborted' = aborted /\ params' = params /\ loop' = loop
    BY <1>6 DEF Settle
  <2>7. TypeOK' /\ reserved' = live'
    BY <2>2, <2>4, <2>6 DEF IInv, TypeOK
  <2>8. MapHoldsWorkers'
    <3>1. \A u \in Tasks : live'[u] <= dispatched'[u]
      BY <2>6 DEF IInv, TypeOK, MapHoldsWorkers
    <3>2. ASSUME NEW u \in Tracked
          PROVE  live'[u] <= 1 /\ (live'[u] = 1 => u \in inFlight') /\ (u \in settled' => live'[u] = 0)
      <4>1. u \in Tasks
        BY DEF Tracked
      <4>2. CASE u = t
        BY <2>1, <2>6, <4>1, <4>2 DEF IInv, TypeOK, MapHoldsWorkers
      <4>3. CASE u # t
        <5>1. live'[u] = live[u] /\ (u \in settled' => u \in settled)
          BY <2>2, <2>6, <4>1, <4>3 DEF IInv, TypeOK
        <5> QED
          BY <2>6, <3>2, <5>1 DEF IInv, MapHoldsWorkers
      <4> QED
        BY <4>2, <4>3
    <3> QED
      BY <2>5, <3>1, <3>2 DEF MapHoldsWorkers
  <2> QED
    BY <2>3, <2>7, <2>8, FewerInFlight DEF IInv
<1>7. ASSUME NEW t \in Tasks, NEW e \in UserEdges, MoveTask(t, e) PROVE IInv'
  <2>1. e.to \in TaskStates
    BY DEF TASK_TRANSITIONS, TaskReady, TaskDispatch, TaskSubmit, TaskReview, TaskDone,
       TaskFailed, TaskChanges, TaskBlock, TaskInvalidate, TaskReplan, TaskStaleEvidence,
       TaskCap, TaskCapResume, TaskCancel, Edge, TaskStates, TaskNonterminal, TaskTerminal
  <2> QED
    BY <1>7, <2>1 DEF MoveTask, IInv, TypeOK, MapHoldsWorkers, MapDisjoint, Tracked, Exclusive
<1>8. CASE Abort
  BY <1>8 DEF Abort, IInv, TypeOK, MapHoldsWorkers, MapDisjoint, Tracked, Exclusive
<1> QED
  BY <1>1, <1>2, <1>3, <1>4, <1>5, <1>6, <1>7, <1>8, <1>9 DEF Next, Loop

LEMMA Invariant == Spec => []IInv
<1>1. Init => IInv
  BY InitIInv
<1>2. IInv /\ [Next]_vars => IInv'
  BY NextIInv
<1> QED
  BY <1>1, <1>2, PTL DEF Spec

\* The loop, the settlements and the moves of the user keep every field of the
\* run in its range.
THEOREM TypeCorrect == Spec => []TypeOK
<1>1. IInv => TypeOK
  BY DEF IInv
<1> QED
  BY <1>1, Invariant, PTL

\* mayRunConcurrently: two workers that run at the same time own nothing in
\* common, whatever the tasks own; tracked ones were judged independent.
THEOREM DisjointWorkersTheorem == Spec => []DisjointWorkers
<1>1. ASSUME IInv, NEW t \in Workers, NEW u \in Workers, t # u
      PROVE  /\ <<t, u>> \notin Conflict
             /\ {t, u} \subseteq Tracked => <<t, u>> \in params.independent
  <2>1. /\ t \in Tasks /\ u \in Tasks
        /\ live[t] \in Nat /\ live[u] \in Nat /\ live[t] > 0 /\ live[u] > 0
    BY <1>1 DEF Workers, IInv, TypeOK
  <2>2. CASE {t, u} \subseteq Tracked
    <3>1. t \in inFlight /\ u \in inFlight
      <4>1. live[t] = 1 /\ live[u] = 1
        BY <1>1, <2>1, <2>2 DEF IInv, MapHoldsWorkers
      <4> QED
        BY <1>1, <2>2, <4>1 DEF IInv, MapHoldsWorkers
    <3> QED
      BY <1>1, <3>1 DEF IInv, MapDisjoint
  <2>3. CASE t \notin Tracked \/ u \notin Tracked
    <3>1. <<t, t>> \notin Conflict \/ <<u, u>> \notin Conflict
      BY <2>1, <2>3 DEF Tracked, Exclusive
    <3> DEFINE p == <<t, u>>
    <3>2. p \in Conflict => <<u, t>> \in Conflict /\ <<t, t>> \in Conflict
      BY SchedulerAssumption
    <3>3. <<u, t>> \in Conflict => <<u, u>> \in Conflict
      <4> DEFINE q == <<u, t>>
      <4>1. q \in Conflict => <<q[1], q[1]>> \in Conflict
        BY SchedulerAssumption
      <4> QED
        BY <4>1
    <3> QED
      BY <2>3, <3>1, <3>2, <3>3
  <2> QED
    BY <2>2, <2>3
<1>2. IInv => DisjointWorkers
  BY <1>1 DEF DisjointWorkers
<1> QED
  BY <1>2, Invariant, PTL

\* claimTask: a task that owns a path or a component, or that the signal does
\* not judge independent of itself, never has two workers, although it may be
\* blocked and made ready again under the first.
THEOREM ExclusiveTaskOnceTheorem == Spec => []ExclusiveTaskOnce
<1>1. IInv => ExclusiveTaskOnce
  BY DEF IInv, MapHoldsWorkers, ExclusiveTaskOnce, Tracked, Exclusive
<1> QED
  BY <1>1, Invariant, PTL

LEMMA WorkersWithinMap ==
  IInv => Cardinality({d \in LiveDispatches : d[1] \in Tracked}) <= params.limit
<1> DEFINE D == {d \in LiveDispatches : d[1] \in Tracked}
<1> SUFFICES ASSUME IInv PROVE Cardinality(D) <= params.limit
  OBVIOUS
<1> USE SchedulerAssumption
<1>1. \A t \in Tracked : t \in Tasks /\ live[t] \in {0, 1} /\ (live[t] = 1 => t \in inFlight)
  BY DEF IInv, TypeOK, MapHoldsWorkers, Tracked
<1>2. \A d \in D : d[1] \in Tracked /\ d[1] \in inFlight /\ d = <<d[1], 1>>
  BY <1>1 DEF LiveDispatches
<1> HIDE DEF D
<1> DEFINE f == [d \in D |-> d[1]]
<1>3. f \in Injection(D, inFlight)
  <2>1. f \in [D -> inFlight]
    BY <1>2
  <2>2. \A d, e \in D : f[d] = f[e] => d = e
    BY <1>2
  <2> QED
    BY <2>1, <2>2 DEF Injection, IsInjective
<1>4. IsFiniteSet(inFlight)
  BY FS_Subset DEF IInv, TypeOK
<1>5. IsFiniteSet(D) /\ Cardinality(D) <= Cardinality(inFlight)
  BY <1>3, <1>4, FS_Injection
<1>6. {Cardinality(D), Cardinality(inFlight), params.limit} \subseteq Nat
  BY <1>4, <1>5, FS_CardinalityType DEF IInv, TypeOK
<1> QED
  BY <1>5, <1>6 DEF IInv

\* startDispatch and planPass: a reservation is held exactly while its worker
\* runs, no exclusive task has two, and the workers of tracked tasks never
\* exceed the ceiling, although tasks are blocked and made ready again.
THEOREM ReservationsMatchWorkersTheorem == Spec => []ReservationsMatchWorkers
<1>1. IInv => ReservationsMatchWorkers
  <2>1. IInv => ExclusiveTaskOnce
    BY DEF IInv, MapHoldsWorkers, ExclusiveTaskOnce, Tracked, Exclusive
  <2> QED
    BY <2>1, WorkersWithinMap DEF IInv, ReservationsMatchWorkers
<1> QED
  BY <1>1, Invariant, PTL
=============================================================================
