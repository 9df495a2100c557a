--------------------------- MODULE FileLockProofs ---------------------------
(***************************************************************************)
(* For any number of processes whose file-system calls interleave in any   *)
(* order, crashes included: how many can hold the lock, what the lockfile  *)
(* names, and that each call is a step of Lock or no step of it until a    *)
(* takeover has removed a file in use.                                     *)
(***************************************************************************)
EXTENDS FileLock, FiniteSetTheorems, TLAPS

\* What the path holds, by where the processes are: a descriptor is open only
\* between opening and writing, a living process is named only while it owns
\* the lock and is not writing, and what an acquisition is about to remove
\* was read as stale, which a dead holder stays.
PathAgrees ==
  /\ file = Absent => linked = {}
  /\ \A p \in linked : pc[p] \in {"write", "beatWrite"}
  /\ \A p \in Procs :
      /\ file = p /\ Live(p) => pc[p] \in {"held", "beatOpen", "unlink"}
      /\ pc[p] = "remove" => ~(seen[p] \in Procs /\ Live(seen[p]))

\* Every owner but one has been robbed, and the last one too if the file at
\* the path is nobody's.
OwnersCounted ==
  thefts < Cardinality(Procs) =>
    /\ Cardinality(Owner) <= 1 + thefts
    /\ Users = {} => Cardinality(Owner) <= thefts

\* Before any theft a file is written by the one who created it.
WrittenWhenEmpty == thefts = 0 /\ linked # {} => file = Empty

IInv == TypeOK /\ PathAgrees /\ OwnersCounted /\ WrittenWhenEmpty

-----------------------------------------------------------------------------
(* Sets of processes *)

LEMMA OwnerFinite ==
  /\ IsFiniteSet(Procs) /\ Cardinality(Procs) \in Nat
  /\ IsFiniteSet(Owner) /\ Cardinality(Owner) \in Nat
  /\ Cardinality(Owner) <= Cardinality(Procs)
<1>1. Owner \subseteq Procs
  BY DEF Owner
<1> QED
  BY <1>1, LockAssumption, FS_Subset, FS_CardinalityType

\* The same of the next state.
LEMMA OwnerFiniteNext ==
  /\ IsFiniteSet(Owner') /\ Cardinality(Owner') \in Nat
  /\ Cardinality(Owner') <= Cardinality(Procs)
<1>1. Owner' \subseteq Procs
  BY DEF Owner
<1> QED
  BY <1>1, LockAssumption, FS_Subset, FS_CardinalityType

\* A set of at most one element.
LEMMA AtMostOne ==
  ASSUME NEW S, IsFiniteSet(S), Cardinality(S) <= 1, NEW a \in S, NEW b \in S
  PROVE  a = b
<1>1. IsFiniteSet(S \ {a}) /\ Cardinality(S \ {a}) = Cardinality(S) - 1
  BY FS_RemoveElement
<1>2. Cardinality(S \ {a}) = 0
  BY <1>1, FS_CardinalityType
<1>3. S \ {a} = {}
  BY <1>1, <1>2, FS_EmptySet
<1> QED
  BY <1>3

\* The processes that use the file at the path own the lock.
LEMMA UsersOwn == ASSUME TypeOK, PathAgrees PROVE Users \subseteq Owner
BY DEF TypeOK, PathAgrees, Users, Owner, Holding, Beating

\* A file an acquisition may remove without a theft is nobody's.
LEMMA NoTheftNoUser ==
  ASSUME TypeOK, PathAgrees, NEW p \in Procs, pc[p] = "remove", ~Theft(p)
  PROVE  Users = {}
BY DEF TypeOK, PathAgrees, Theft, Users, Live

-----------------------------------------------------------------------------
LEMMA InitIInv == Init => IInv
<1> SUFFICES ASSUME Init PROVE IInv
  OBVIOUS
<1>1. Owner = {} /\ Users = {}
  BY LockAssumption DEF Init, Owner, Users, Holding, Beating
<1>2. Cardinality(Owner) = 0
  BY <1>1, FS_EmptySet
<1> QED
  BY <1>2, LockAssumption, OwnerFinite
     DEF Init, IInv, TypeOK, PathAgrees, OwnersCounted, WrittenWhenEmpty, PC, Acquiring, Live

LEMMA NextTypeOK == ASSUME TypeOK, [Next]_vars PROVE TypeOK'
<1>0. Cardinality(Procs) \in Nat
  BY OwnerFinite
<1> USE LockAssumption DEF TypeOK, Go, PC, Acquiring, Beating
<1>1. CASE UNCHANGED vars
  BY <1>1 DEF vars
<1>2. ASSUME NEW p \in Procs, Inspect(p) PROVE TypeOK'
  BY <1>2 DEF Inspect
<1>3. ASSUME NEW p \in Procs, Create(p) PROVE TypeOK'
  BY <1>3 DEF Create
<1>4. ASSUME NEW p \in Procs, Write(p) PROVE TypeOK'
  BY <1>4 DEF Write
<1>5. ASSUME NEW p \in Procs, Read(p) PROVE TypeOK'
  BY <1>5 DEF Read
<1>6. ASSUME NEW p \in Procs, Remove(p) PROVE TypeOK'
  BY <1>0, <1>6 DEF Remove
<1>7. ASSUME NEW p \in Procs, BeatOpen(p) \/ BeatWrite(p) \/ Unlink(p) PROVE TypeOK'
  BY <1>7 DEF BeatOpen, BeatWrite, Unlink
<1>8. ASSUME NEW p \in Procs, StartAcquire(p) \/ Beat(p) \/ Release(p) PROVE TypeOK'
  BY <1>8 DEF StartAcquire, Beat, Release
<1>9. ASSUME NEW p \in Procs, Crash(p) PROVE TypeOK'
  BY <1>9 DEF Crash
<1> QED
  BY <1>1, <1>2, <1>3, <1>4, <1>5, <1>6, <1>7, <1>8, <1>9 DEF Next, Step

LEMMA NextPathAgrees == ASSUME TypeOK, PathAgrees, [Next]_vars PROVE PathAgrees'
<1> USE LockAssumption DEF TypeOK, PathAgrees, Live, Go, PC, Acquiring, Beating
<1>1. CASE UNCHANGED vars
  BY <1>1 DEF vars
<1>2. ASSUME NEW p \in Procs, Inspect(p) \/ Create(p) PROVE PathAgrees'
  BY <1>2 DEF Inspect, Create
<1>3. ASSUME NEW p \in Procs, Write(p) \/ BeatWrite(p) PROVE PathAgrees'
  BY <1>3 DEF Write, BeatWrite
<1>4. ASSUME NEW p \in Procs, Read(p) PROVE PathAgrees'
  BY <1>4 DEF Read, LiveHolder
<1>5. ASSUME NEW p \in Procs, Remove(p) \/ Unlink(p) PROVE PathAgrees'
  BY <1>5 DEF Remove, Unlink
<1>6. ASSUME NEW p \in Procs, BeatOpen(p) PROVE PathAgrees'
  BY <1>6 DEF BeatOpen
<1>7. ASSUME NEW p \in Procs, StartAcquire(p) \/ Beat(p) \/ Release(p) PROVE PathAgrees'
  BY <1>7 DEF StartAcquire, Beat, Release
<1>8. ASSUME NEW p \in Procs, Crash(p) PROVE PathAgrees'
  BY <1>8 DEF Crash
<1> QED
  BY <1>1, <1>2, <1>3, <1>4, <1>5, <1>6, <1>7, <1>8 DEF Next, Step

-----------------------------------------------------------------------------
(* The count of owners.  A step keeps the owners and the users, or makes a
   user, or takes an owner away, or creates the file, or removes it.        *)

\* A step that counts no theft and gains no owner: somebody uses the file
\* afterwards, or an owner has left, or the users are those there were.
LEMMA CountKept ==
  ASSUME OwnersCounted, thefts \in Nat, UNCHANGED thefts,
         \/ Owner' = Owner /\ (Users' # {} \/ Users' = Users)
         \/ \E p \in Owner : Owner' = Owner \ {p}
  PROVE  OwnersCounted'
<1>1. CASE Owner' = Owner /\ (Users' # {} \/ Users' = Users)
  BY <1>1 DEF OwnersCounted
<1>2. ASSUME NEW p \in Owner, Owner' = Owner \ {p} PROVE OwnersCounted'
  <2>1. Cardinality(Owner') = Cardinality(Owner) - 1
    BY <1>2, OwnerFinite, FS_RemoveElement
  <2> QED
    BY <2>1, OwnerFinite DEF OwnersCounted
<1> QED
  BY <1>1, <1>2

LEMMA NextOwnersCounted ==
  ASSUME TypeOK, PathAgrees, OwnersCounted, [Next]_vars PROVE OwnersCounted'
<1> USE OwnerFinite
<1>0. thefts \in Nat
  BY DEF TypeOK
<1>1. CASE UNCHANGED vars
  BY <1>0, <1>1, CountKept DEF vars, Owner, Holding, Users, Live
<1>2. ASSUME NEW p \in Procs, StartAcquire(p) \/ Inspect(p) \/ Read(p) \/ Beat(p)
      PROVE  OwnersCounted'
  <2>1. Owner' = Owner /\ Users' = Users /\ UNCHANGED thefts
    BY <1>2 DEF StartAcquire, Inspect, Read, Beat, Go, TypeOK, Owner, Holding, Beating,
       Users, Live
  <2> QED
    BY <1>0, <2>1, CountKept
<1>3. ASSUME NEW p \in Procs, Create(p) PROVE OwnersCounted'
  <2>1. CASE file = Absent
    <3>1. Users = {}
      BY <2>1, LockAssumption DEF PathAgrees, Users
    <3>2. p \notin Owner /\ Owner' = Owner \cup {p} /\ Users' # {}
      BY <1>3, <2>1 DEF Create, Go, TypeOK, Owner, Holding, Beating, Users
    <3>3. Cardinality(Owner') = Cardinality(Owner) + 1
      BY <3>2, FS_AddElement
    <3>4. UNCHANGED thefts
      BY <1>3 DEF Create
    <3> QED
      BY <1>0, <3>1, <3>2, <3>3, <3>4 DEF OwnersCounted
  <2>2. CASE file # Absent
    <3>1. Owner' = Owner /\ Users' = Users /\ UNCHANGED thefts
      BY <1>3, <2>2 DEF Create, Go, TypeOK, Owner, Holding, Beating, Users, Live
    <3> QED
      BY <1>0, <3>1, CountKept
  <2> QED
    BY <2>1, <2>2
<1>4. ASSUME NEW p \in Procs, Write(p) \/ BeatWrite(p) \/ BeatOpen(p) PROVE OwnersCounted'
  <2>1. Owner' = Owner /\ UNCHANGED thefts
    BY <1>4 DEF Write, BeatWrite, BeatOpen, Go, TypeOK, Owner, Holding, Beating
  <2>2. CASE p \in linked \/ BeatOpen(p)
    <3>1. p \in Users'
      BY <1>4, <2>2 DEF Write, BeatWrite, BeatOpen, Go, TypeOK, Users, Live
    <3> QED
      BY <1>0, <2>1, <3>1, CountKept
  <2>3. CASE p \notin linked /\ ~BeatOpen(p)
    <3>1. Users' = Users
      BY <1>4, <2>3 DEF Write, BeatWrite, Go, TypeOK, Users, Live
    <3> QED
      BY <1>0, <2>1, <3>1, CountKept
  <2> QED
    BY <2>2, <2>3
<1>5. ASSUME NEW p \in Procs, Remove(p) PROVE OwnersCounted'
  <2>1. Owner' = Owner /\ pc[p] = "remove"
    BY <1>5 DEF Remove, Go, TypeOK, Owner, Holding, Beating
  <2>2. CASE Theft(p) /\ thefts < Cardinality(Procs)
    BY <1>0, <1>5, <2>1, <2>2 DEF Remove, OwnersCounted
  <2>3. CASE Theft(p) /\ ~(thefts < Cardinality(Procs))
    BY <1>0, <1>5, <2>3 DEF Remove, OwnersCounted
  <2>4. CASE ~Theft(p)
    BY <1>0, <1>5, <2>1, <2>4, NoTheftNoUser DEF Remove, OwnersCounted
  <2> QED
    BY <2>2, <2>3, <2>4
<1>6. ASSUME NEW p \in Procs, Release(p) PROVE OwnersCounted'
  <2>1. UNCHANGED thefts /\ p \in Owner
    BY <1>6 DEF Release, Owner, Holding
  <2>2. CASE file = p
    <3>1. Owner' = Owner /\ Users' = Users
      BY <1>6, <2>2 DEF Release, Go, TypeOK, Owner, Holding, Beating, Users, Live
    <3> QED
      BY <1>0, <2>1, <3>1, CountKept
  <2>3. CASE file # p
    <3>1. Owner' = Owner \ {p}
      BY <1>6, <2>3 DEF Release, Go, TypeOK, Owner, Holding, Beating
    <3> QED
      BY <1>0, <2>1, <3>1, CountKept
  <2> QED
    BY <2>2, <2>3
<1>7. ASSUME NEW p \in Procs, Unlink(p) PROVE OwnersCounted'
  <2>1. UNCHANGED thefts /\ p \in Owner /\ Owner' = Owner \ {p}
    BY <1>7 DEF Unlink, Go, TypeOK, Owner, Holding, Beating
  <2> QED
    BY <1>0, <2>1, CountKept
<1>8. ASSUME NEW p \in Procs, Crash(p) PROVE OwnersCounted'
  <2>1. UNCHANGED thefts /\ Owner' = Owner \ {p}
    BY <1>8 DEF Crash, Go, TypeOK, Owner, Holding, Beating
  <2>2. CASE p \in Owner
    BY <1>0, <2>1, <2>2, CountKept
  <2>3. CASE p \notin Owner
    <3>1. Users' = Users
      BY <1>8, <2>3, UsersOwn DEF Crash, Go, TypeOK, Users, Live
    <3> QED
      BY <1>0, <2>1, <2>3, <3>1, CountKept
  <2> QED
    BY <2>2, <2>3
<1> QED
  BY <1>1, <1>2, <1>3, <1>4, <1>5, <1>6, <1>7, <1>8 DEF Next, Step

-----------------------------------------------------------------------------
(* Before any theft *)

\* The one owner uses the file.
LEMMA OneOwner ==
  ASSUME IInv, thefts = 0, NEW p \in Owner
  PROVE  Owner = {p} /\ Users = {p}
<1>1. 0 < Cardinality(Procs) /\ Cardinality(Owner) # 0
  BY OwnerFinite, LockAssumption, FS_EmptySet DEF Owner
<1>2. Cardinality(Owner) <= 1 /\ Users # {}
  BY <1>1, OwnerFinite DEF IInv, OwnersCounted
<1>3. Owner = {p}
  BY <1>2, OwnerFinite, AtMostOne
<1> QED
  BY <1>2, <1>3, UsersOwn DEF IInv

LEMMA NextWritten == ASSUME IInv, [Next]_vars PROVE WrittenWhenEmpty'
<1> SUFFICES ASSUME thefts' = 0, linked' # {} PROVE file' = Empty
  BY DEF WrittenWhenEmpty
<1> USE LockAssumption DEF IInv, TypeOK
<1>1. thefts = 0
  BY DEF vars, Next, Step, StartAcquire, Inspect, Create, Write, Read, Remove, Beat, BeatOpen,
     BeatWrite, Release, Unlink, Crash
<1>2. ASSUME NEW p \in Procs, Write(p) \/ BeatWrite(p) PROVE file' = Empty
  <2>1. p \in Owner /\ linked \subseteq Users
    BY <1>2 DEF Write, BeatWrite, Owner, Holding, Beating, Users
  <2>2. linked \subseteq {p}
    BY <1>1, <2>1, OneOwner
  <2> QED
    BY <1>2, <2>2 DEF Write, BeatWrite
<1>3. ASSUME NEW p \in Procs, Create(p) \/ BeatOpen(p) PROVE file' = Empty
  BY <1>1, <1>3 DEF WrittenWhenEmpty, Create, BeatOpen
<1>4. CASE UNCHANGED file /\ linked' \subseteq linked
  BY <1>1, <1>4 DEF WrittenWhenEmpty
<1> QED
  BY <1>2, <1>3, <1>4
     DEF vars, Next, Step, StartAcquire, Inspect, Read, Remove, Beat, Release, Unlink, Crash

LEMMA NextIInv == IInv /\ [Next]_vars => IInv'
BY NextTypeOK, NextPathAgrees, NextOwnersCounted, NextWritten DEF IInv

LEMMA IInvHolderNamed == IInv => HolderNamed
<1> SUFFICES ASSUME IInv, thefts = 0, NEW p \in Procs, Holding(p)
             PROVE  /\ pc[p] = "beatWrite" => file = Empty /\ linked = {p}
                    /\ pc[p] # "beatWrite" => file = p
  BY DEF HolderNamed
<1>1. Users = {p}
  BY OneOwner DEF Owner
<1>2. CASE pc[p] = "beatWrite"
  <2>1. linked = {p}
    BY <1>1, <1>2 DEF IInv, TypeOK, PathAgrees, Users
  <2> QED
    BY <1>2, <2>1 DEF IInv, WrittenWhenEmpty
<1>3. CASE pc[p] # "beatWrite"
  BY <1>1, <1>3 DEF IInv, TypeOK, PathAgrees, Users, Holding, Beating
<1> QED
  BY <1>2, <1>3

\* lock.ts: for every number of processes, every interleaving of their calls
\* and every crash, there are no more holders than one and the takeovers that
\* removed a file in use.
THEOREM SingleHolderTheorem == Spec => []SingleHolder
<1>1. Init => IInv
  BY InitIInv
<1>2. IInv /\ [Next]_vars => IInv'
  BY NextIInv
<1>3. IInv => SingleHolder
  BY OwnerFinite DEF IInv, TypeOK, OwnersCounted, SingleHolder
<1> QED
  BY <1>1, <1>2, <1>3, PTL DEF Spec

\* The lockfile names the process that holds it (lock.ts), through every
\* acquisition, heartbeat and crash, until a file in use has been removed.
THEOREM HolderNamedTheorem == Spec => []HolderNamed
<1>1. Init => IInv
  BY InitIInv
<1>2. IInv /\ [Next]_vars => IInv'
  BY NextIInv
<1> QED
  BY <1>1, <1>2, IInvHolderNamed, PTL DEF Spec

-----------------------------------------------------------------------------
(* The refinement *)

Holder == IF Keeper = {} THEN Absent ELSE CHOOSE p \in Keeper : TRUE
Asking == {p \in Procs : pc[p] \in Acquiring}
LivingProcs == {p \in Procs : Live(p)}

\* Before any theft the keeper is the one owner, once its file is written.
KeeperIsHolder ==
  thefts = 0 =>
    /\ Holder = Absent <=> Keeper = {}
    /\ \A p \in Procs : Holder = p <=> p \in Keeper

LEMMA IInvKeeperIsHolder == IInv => KeeperIsHolder
<1> SUFFICES ASSUME IInv, thefts = 0
             PROVE  /\ Holder = Absent <=> Keeper = {}
                    /\ \A p \in Procs : Holder = p <=> p \in Keeper
  BY DEF KeeperIsHolder
<1>1. CASE Keeper = {}
  BY <1>1, LockAssumption DEF Holder
<1>2. ASSUME NEW q \in Procs, Keeper = {q}
      PROVE  Holder = q /\ q # Absent /\ \A p \in Procs : q = p <=> p \in Keeper
  BY <1>2, LockAssumption DEF Holder
<1>3. Keeper \subseteq Owner
  BY DEF Keeper, Owner
<1>4. ASSUME NEW q \in Keeper PROVE q \in Procs /\ Keeper = {q}
  BY <1>3, OneOwner DEF Keeper
<1> QED
  BY <1>1, <1>2, <1>4

\* The same of the next state.
LEMMA IInvKeeperIsHolderNext == IInv' => KeeperIsHolder'
BY IInvKeeperIsHolder, PTL

LEMMA InitPromise == Init => Promise!Init
<1> SUFFICES ASSUME Init
             PROVE  Holder = Absent /\ Asking = {} /\ LivingProcs = Procs /\ ~(thefts > 0)
  BY DEF Promise!Init, Holder, Asking, LivingProcs
<1>1. thefts = 0
  BY DEF Init
<1>2. Keeper = {} /\ Asking = {} /\ LivingProcs = Procs
  BY LockAssumption DEF Init, Keeper, Asking, LivingProcs, Holding, Beating, Acquiring, Live
<1> QED
  BY <1>1, <1>2 DEF Holder

\* A step that keeps every process inside, or outside, an acquisition and the
\* lock, and alive or dead, is a step of nothing.
LEMMA Stutter ==
  ASSUME UNCHANGED thefts,
         \A p \in Procs :
           /\ pc'[p] \in Acquiring <=> pc[p] \in Acquiring
           /\ p \in Keeper' <=> p \in Keeper
           /\ Live(p)' <=> Live(p)
  PROVE  UNCHANGED Promise!vars
<1>1. Keeper' = Keeper /\ Asking' = Asking /\ LivingProcs' = LivingProcs
  BY DEF Keeper, Asking, LivingProcs
<1>2. Holder' = Holder
  BY <1>1 DEF Holder
<1> QED
  BY <1>1, <1>2 DEF Promise!vars, Holder, Asking, LivingProcs

\* Before and after the step nothing has been stolen: it is a step of some
\* process of Lock.
LEMMA QuietPromise ==
  ASSUME IInv, thefts = 0, thefts' = 0, Next
  PROVE  (\E p \in Procs : Promise!Step(p)) \/ UNCHANGED Promise!vars
<1> USE LockAssumption
<1>1. KeeperIsHolder /\ KeeperIsHolder'
  BY NextIInv, IInvKeeperIsHolder, IInvKeeperIsHolderNext
<1>2. ASSUME NEW p \in Procs, StartAcquire(p) PROVE Promise!Ask(p)
  <2>1. p \notin Keeper /\ Keeper' = Keeper /\ LivingProcs' = LivingProcs
    BY <1>2 DEF StartAcquire, Go, IInv, TypeOK, Keeper, Holding, Beating, Acquiring,
       LivingProcs, Live
  <2>2. p \in LivingProcs \ Asking /\ Asking' = Asking \cup {p}
    BY <1>2 DEF StartAcquire, Go, IInv, TypeOK, Asking, Acquiring, LivingProcs, Live
  <2>3. Holder # p /\ Holder' = Holder
    BY <1>1, <2>1 DEF KeeperIsHolder, Holder
  <2> QED
    BY <2>1, <2>2, <2>3 DEF Promise!Ask, Holder, Asking, LivingProcs
<1>3. ASSUME NEW p \in Procs, pc[p] \in Acquiring, LiveHolder, Go(p, "idle")
      PROVE  Promise!Refuse(p)
  <2>1. Keeper # {} /\ Keeper' = Keeper
    BY <1>3 DEF LiveHolder, Go, IInv, TypeOK, PathAgrees, Keeper, Holding, Beating, Acquiring
  <2>2. p \in Asking /\ Asking' = Asking \ {p} /\ LivingProcs' = LivingProcs
    BY <1>3 DEF Go, IInv, TypeOK, Asking, Acquiring, LivingProcs, Live
  <2>3. Holder # Absent /\ Holder' = Holder
    BY <1>1, <2>1 DEF KeeperIsHolder, Holder
  <2> QED
    BY <2>2, <2>3 DEF Promise!Refuse, Holder, Asking, LivingProcs
<1>4. ASSUME NEW p \in Procs, Write(p) PROVE Promise!Acquire(p)
  <2>1. Owner = {p}
    BY <1>4, OneOwner DEF Write, Owner
  <2>2. Keeper = {} /\ p \in Keeper' /\ LivingProcs' = LivingProcs
    BY <1>4, <2>1 DEF Write, Go, IInv, TypeOK, Keeper, Owner, Holding, Beating, LivingProcs, Live
  <2>3. p \in Asking /\ Asking' = Asking \ {p}
    BY <1>4 DEF Write, Go, IInv, TypeOK, Asking, Acquiring
  <2>4. Holder = Absent /\ Holder' = p
    BY <1>1, <2>2 DEF KeeperIsHolder
  <2> QED
    BY <2>2, <2>3, <2>4 DEF Promise!Acquire, Holder, Asking, LivingProcs
<1>5. ASSUME NEW p \in Procs, Unlink(p) PROVE Promise!GiveUp(p)
  <2>1. Owner = {p}
    BY <1>5, OneOwner DEF Unlink, Owner
  <2>2. p \in Keeper /\ Keeper' = {}
    BY <1>5, <2>1 DEF Unlink, Go, IInv, TypeOK, Keeper, Owner, Holding, Beating
  <2>3. Asking' = Asking /\ LivingProcs' = LivingProcs
    BY <1>5 DEF Unlink, Go, IInv, TypeOK, Asking, Acquiring, LivingProcs, Live
  <2>4. Holder = p /\ Holder' = Absent
    BY <1>1, <2>2 DEF KeeperIsHolder
  <2> QED
    BY <2>3, <2>4 DEF Promise!GiveUp, Holder, Asking, LivingProcs
<1>6. ASSUME NEW p \in Procs, Crash(p) PROVE Promise!Die(p)
  <2>1. p \in LivingProcs /\ LivingProcs' = LivingProcs \ {p} /\ Asking' = Asking \ {p}
    BY <1>6 DEF Crash, Go, IInv, TypeOK, Asking, Acquiring, LivingProcs, Live
  <2>2. Keeper' = Keeper \ {p}
    BY <1>6 DEF Crash, Go, IInv, TypeOK, Keeper, Holding, Beating
  <2>3. Holder' = IF Holder = p THEN Absent ELSE Holder
    <3>1. CASE p \in Keeper
      <4>1. Owner = {p}
        BY <3>1, OneOwner DEF Keeper, Owner
      <4>2. Keeper' = {}
        BY <2>2, <4>1 DEF Keeper, Owner
      <4> QED
        BY <1>1, <3>1, <4>2 DEF KeeperIsHolder
    <3>2. CASE p \notin Keeper
      BY <1>1, <2>2, <3>2 DEF KeeperIsHolder, Holder
    <3> QED
      BY <3>1, <3>2
  <2> QED
    BY <2>1, <2>3 DEF Promise!Die, Holder, Asking, LivingProcs
<1>7. ASSUME NEW p \in Procs,
             NEW l \in PC, Go(p, l),
             \/ pc[p] \in Acquiring /\ l \in Acquiring
             \/ pc[p] \in {"held"} \cup Beating /\ l \in {"held", "unlink"} \cup Beating
      PROVE  UNCHANGED Promise!vars
  BY <1>7, Stutter DEF Go, IInv, TypeOK, Keeper, Holding, Acquiring, Beating, Live
<1>8. ASSUME NEW p \in Procs, Step(p) PROVE Promise!Step(p) \/ UNCHANGED Promise!vars
  <2>1. CASE Inspect(p)
    BY <1>3, <1>7, <2>1 DEF Inspect, Promise!Step, PC, Acquiring
  <2>2. CASE Create(p)
    BY <1>7, <2>2 DEF Create, PC, Acquiring
  <2>3. CASE Write(p)
    BY <1>4, <2>3 DEF Promise!Step
  <2>4. CASE Read(p)
    BY <1>3, <1>7, <2>4 DEF Read, Promise!Step, PC, Acquiring
  <2>5. CASE Remove(p)
    BY <1>7, <2>5 DEF Remove, PC, Acquiring
  <2>6. CASE BeatOpen(p)
    BY <1>7, <2>6 DEF BeatOpen, PC, Beating
  <2>7. CASE BeatWrite(p)
    BY <1>7, <2>7 DEF BeatWrite, PC, Beating
  <2>8. CASE Unlink(p)
    BY <1>5, <2>8 DEF Promise!Step
  <2> QED
    BY <1>8, <2>1, <2>2, <2>3, <2>4, <2>5, <2>6, <2>7, <2>8 DEF Step
<1>9. ASSUME NEW p \in Procs, Beat(p) \/ Release(p) PROVE UNCHANGED Promise!vars
  <2>1. file = p
    BY <1>9, IInvHolderNamed DEF Beat, Release, HolderNamed, Holding
  <2>2. Go(p, "beatOpen") \/ Go(p, "unlink")
    BY <1>9, <2>1 DEF Beat, Release
  <2> QED
    BY <1>7, <1>9, <2>2 DEF Beat, Release, PC, Beating
<1> QED
  BY <1>2, <1>6, <1>8, <1>9 DEF Next, Promise!Step

LEMMA NextPromise == ASSUME IInv, Next PROVE [Promise!Next]_(Promise!vars)
<1>1. thefts \in Nat /\ thefts' \in Nat
  BY NextTypeOK, OwnerFinite DEF IInv, TypeOK
<1>2. CASE thefts' = 0
  <2>1. thefts = 0
    BY <1>1, <1>2 DEF Next, Step, StartAcquire, Inspect, Create, Write, Read, Remove, Beat,
       BeatOpen, BeatWrite, Release, Unlink, Crash
  <2> QED
    BY <1>2, <2>1, QuietPromise DEF Promise!Next
<1>3. CASE thefts' > 0
  BY <1>3 DEF Promise!Next
<1> QED
  BY <1>1, <1>2, <1>3

\* For every number of processes and every interleaving: openSync, writeSync,
\* rmSync and the deaths between them take the steps of Lock and no others
\* (lock.ts), until a takeover removes a file in use.  That every request
\* ends is the other half of ImplementsLock, and needs fairness.
THEOREM RefinesLock == Spec => Promise!Safe
<1>1. Init => IInv /\ Promise!Init
  BY InitIInv, InitPromise
<1>2. IInv /\ [Next]_vars => IInv'
  BY NextIInv
<1>3. IInv /\ [Next]_vars => [Promise!Next]_(Promise!vars)
  <2>1. CASE UNCHANGED vars
    BY <2>1, Stutter DEF vars, Keeper, Holding, Live
  <2> QED
    BY <2>1, NextPromise
<1> QED
  BY <1>1, <1>2, <1>3, PTL DEF Spec, Promise!Safe
=============================================================================
