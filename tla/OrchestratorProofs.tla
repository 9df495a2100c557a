------------------------ MODULE OrchestratorProofs ------------------------
(***************************************************************************)
(* The batch orchestrator for any issues, dependencies, limits, sessions   *)
(* and crashes: its workers are bounded, and it merges only what the gate  *)
(* passed.  The file and the memory of the process may differ in outcomes, *)
(* but each holds an attempt for every worker, and a last attempt that     *)
(* awaits review, in either, is one the gate has passed.                   *)
(***************************************************************************)
EXTENDS Orchestrator, FiniteSetTheorems, TLAPS

-----------------------------------------------------------------------------
(* Attempts on file and in memory. *)

IsAttempt(a) == a = [model |-> a.model, outcome |-> a.outcome]

IsTable(s) ==
  /\ s \in Seq({s[n] : n \in DOMAIN s})
  /\ \A n \in DOMAIN s : IsAttempt(s[n])

\* [attempts, caps] with a table of attempts for every issue.
IsFile(f) ==
  /\ f = [attempts |-> f.attempts, caps |-> f.caps]
  /\ f.attempts = [i \in Issues |-> f.attempts[i]]
  /\ \A i \in Issues : IsTable(f.attempts[i])

Awaits(s) == Len(s) > 0 /\ s[Len(s)].outcome = "awaiting-review"

\* The most attempts there may be, before the dispatch of another and after.
Cap == setting.maxAttempts * (IF setting.retryStuck THEN 2 ELSE 1)

\* The gate has passed the issue since its last worker was started.
Passed(i) == judged[i] = spawned[i]

Tables(i) ==
  /\ spawned[i] <= Len(mem.attempts[i]) /\ spawned[i] <= Len(file.attempts[i])
  /\ Awaits(mem.attempts[i]) \/ Awaits(file.attempts[i]) => Passed(i)

\* An issue picked for dispatch has room for one more, and is open.
Picked(i) == step[i] = "select" => spawned[i] <= 2 * Cap - 2 /\ i \notin closed

MergeSteps == {"merge", "verdict", "merged"}

\* A merge review is of an issue the gate has passed.
Reviewed(i) == step[i] \in MergeSteps => Passed(i)

TypeOK ==
  /\ setting \in Settings
  /\ IsFile(file) /\ IsFile(mem)
  /\ DOMAIN step = Issues
  /\ spawned \in [Issues -> Nat]
  /\ DOMAIN judged = Issues

IInv ==
  /\ TypeOK
  /\ \A i \in Issues : Tables(i) /\ Picked(i) /\ Reviewed(i)
  /\ WorkersBounded
  /\ closed \subseteq Issues /\ MergedAfterGate

\* A step that changes none of what the invariant reads but outcomes, caps, what the
\* gate passes, and the places of issues that are not picked.
Untouched ==
  /\ UNCHANGED <<setting, closed, spawned>>
  /\ DOMAIN judged' = Issues /\ \A i \in Issues : Passed(i) => Passed(i)'
  /\ IsFile(mem') /\ IsFile(file')
  /\ \A i \in Issues : Tables(i)'
  /\ DOMAIN step' = Issues
  /\ \A i \in Issues : /\ step'[i] = "select" => step[i] = "select"
                       /\ step'[i] \in MergeSteps => step[i] \in MergeSteps \/ Passed(i)'

LEMMA UntouchedKeeps ==
  ASSUME IInv, Untouched
  PROVE  IInv'
<1>1. TypeOK'
  BY DEF IInv, TypeOK, Untouched
<1>2. \A i \in Issues : Picked(i)' /\ Tables(i)'
  BY DEF IInv, Untouched, Picked, Cap
<1>3. \A i \in Issues : Reviewed(i)'
  BY DEF IInv, Untouched, Reviewed
<1>4. WorkersBounded'
  BY DEF IInv, Untouched, WorkersBounded
<1>5. closed' \subseteq Issues /\ MergedAfterGate'
  BY DEF IInv, Untouched, MergedAfterGate, Passed
<1> QED
  BY <1>1, <1>2, <1>3, <1>4, <1>5 DEF IInv

-----------------------------------------------------------------------------
(* Tables of attempts. *)

LEMMA AttemptSaved ==
  ASSUME NEW a, IsAttempt(a), NEW o
  PROVE  IsAttempt([a EXCEPT !.outcome = o]) /\ [a EXCEPT !.outcome = o].outcome = o
<1> DEFINE b == [model |-> a.model, outcome |-> a.outcome]
<1>1. a = b
  BY DEF IsAttempt
<1>2. [b EXCEPT !.outcome = o] = [model |-> a.model, outcome |-> o]
  OBVIOUS
<1> HIDE DEF b
<1> QED
  BY <1>1, <1>2 DEF IsAttempt

LEMMA TableLength ==
  ASSUME NEW s, IsTable(s)
  PROVE  Len(s) \in Nat /\ DOMAIN s = 1..Len(s)
BY DEF IsTable

LEMMA TableRewrite ==
  ASSUME NEW s, IsTable(s), NEW f, f = [n \in DOMAIN s |-> f[n]],
         \A n \in DOMAIN s : IsAttempt(f[n])
  PROVE  IsTable(f) /\ Len(f) = Len(s)
<1>1. DOMAIN s = 1..Len(s) /\ Len(s) \in Nat
  BY DEF IsTable
<1>2. f \in [1..Len(s) -> {f[n] : n \in DOMAIN f}]
  BY <1>1
<1> QED
  BY <1>1, <1>2 DEF IsTable

LEMMA TableAppend ==
  ASSUME NEW s, IsTable(s), NEW x, IsAttempt(x)
  PROVE  /\ IsTable(Append(s, x)) /\ Len(Append(s, x)) = Len(s) + 1
         /\ Append(s, x)[Len(s) + 1] = x
<1> DEFINE S == {s[n] : n \in DOMAIN s}
           E == S \cup {x}
<1>1. s \in Seq(S) /\ S \subseteq E /\ x \in E /\ \A a \in E : IsAttempt(a)
  BY DEF IsTable
<1> HIDE DEF S, E
<1>2. s \in Seq(E)
  BY <1>1
<1>3. Append(s, x) \in Seq(E)
  BY <1>1, <1>2
<1>4. Len(Append(s, x)) = Len(s) + 1 /\ Append(s, x)[Len(s) + 1] = x
  BY <1>1, <1>2
<1>5. \A n \in DOMAIN Append(s, x) : Append(s, x)[n] \in {Append(s, x)[k] : k \in DOMAIN Append(s, x)}
  OBVIOUS
<1>6. \A n \in DOMAIN Append(s, x) : IsAttempt(Append(s, x)[n])
  BY <1>1, <1>3
<1>7. IsTable(Append(s, x))
  BY <1>3, <1>4, <1>5, <1>6 DEF IsTable
<1> QED
  BY <1>4, <1>7

\* The process exchanges its attempts of one issue for another table.
LEMMA MemRewrite ==
  ASSUME TypeOK, NEW i \in Issues, NEW t, IsTable(t),
         mem' = [attempts |-> mem'.attempts, caps |-> mem'.caps],
         mem'.attempts = [mem.attempts EXCEPT ![i] = t]
  PROVE  /\ IsFile(mem') /\ mem'.attempts[i] = t
         /\ \A j \in Issues \ {i} : mem'.attempts[j] = mem.attempts[j]
<1>1. IsFile(mem)
  BY DEF TypeOK
<1>2. \A j \in Issues : mem'.attempts[j] = IF j = i THEN t ELSE mem.attempts[j]
  BY <1>1 DEF IsFile
<1>3. mem'.attempts = [j \in Issues |-> mem'.attempts[j]]
  BY <1>1 DEF IsFile
<1> QED
  BY <1>1, <1>2, <1>3 DEF IsFile

\* An outcome is written, whatever happens to the caps: as many attempts as before,
\* and one that comes to await review has been passed.
LEMMA SaveKeepsTables ==
  ASSUME TypeOK, \A j \in Issues : Tables(j), NEW i \in Issues, NEW o, file' = mem',
         mem' = [attempts |-> mem'.attempts, caps |-> mem'.caps],
         mem'.attempts = [mem.attempts EXCEPT ![i] = [@ EXCEPT ![Len(mem.attempts[i])].outcome = o]],
         spawned' = spawned, \A j \in Issues : Passed(j) => Passed(j)',
         o = "awaiting-review" => Passed(i)'
  PROVE  /\ IsFile(mem') /\ IsFile(file')
         /\ \A j \in Issues : Tables(j)'
<1> DEFINE s == mem.attempts[i]
           n == Len(s)
           t == [s EXCEPT ![n].outcome = o]
<1>0. IsFile(mem) /\ IsTable(s)
  BY DEF TypeOK, IsFile
<1>1. IsFile(mem) /\ IsTable(s) /\ Len(s) \in Nat /\ DOMAIN s = 1..Len(s)
  BY <1>0, TableLength
<1>2. t = [k \in DOMAIN s |-> t[k]]
  OBVIOUS
<1>3. /\ \A k \in DOMAIN s : t[k] = IF k = n THEN [s[n] EXCEPT !.outcome = o] ELSE s[k]
      /\ \A k \in DOMAIN s : IsAttempt(s[k])
  BY <1>1 DEF IsTable
<1>4. \A k \in DOMAIN s : IsAttempt(t[k]) /\ (k = n => t[k].outcome = o)
  <2> SUFFICES ASSUME NEW k \in DOMAIN s PROVE IsAttempt(t[k]) /\ (k = n => t[k].outcome = o)
    OBVIOUS
  <2> HIDE DEF t, s, n
  <2>1. CASE k = n
    <3>1. IsAttempt(s[n])
      BY <1>3, <2>1
    <3>2. IsAttempt([s[n] EXCEPT !.outcome = o]) /\ [s[n] EXCEPT !.outcome = o].outcome = o
      BY <3>1, AttemptSaved
    <3>3. t[k] = [s[n] EXCEPT !.outcome = o]
      BY <1>3, <2>1
    <3> QED
      BY <3>2, <3>3
  <2>2. CASE k # n
    BY <1>3, <2>2
  <2> QED
    BY <2>1, <2>2
<1>5. IsTable(t) /\ Len(t) = Len(s)
  <2> HIDE DEF t, s
  <2> QED
    BY <1>1, <1>2, <1>4, TableRewrite
<1>6. mem'.attempts = [mem.attempts EXCEPT ![i] = t]
  BY <1>1 DEF IsFile
<1>7. Awaits(t) => Passed(i)'
  <2> HIDE DEF t, s
  <2> QED
    BY <1>1, <1>4, <1>5 DEF Awaits
<1> HIDE DEF t, n, s
<1>8. /\ IsFile(mem') /\ mem'.attempts[i] = t
      /\ \A j \in Issues \ {i} : mem'.attempts[j] = mem.attempts[j]
  BY <1>5, <1>6, MemRewrite
<1>9. Tables(i)'
  BY <1>5, <1>7, <1>8 DEF Tables, s
<1>10. \A j \in Issues \ {i} : Tables(j)'
  BY <1>8 DEF Tables
<1> QED
  BY <1>8, <1>9, <1>10

\* saveState with a new outcome does that.
LEMMA OutcomeKeepsTables ==
  ASSUME TypeOK, \A j \in Issues : Tables(j), NEW i \in Issues, NEW o, SaveOutcome(i, o),
         spawned' = spawned, \A j \in Issues : Passed(j) => Passed(j)',
         o = "awaiting-review" => Passed(i)'
  PROVE  /\ IsFile(mem') /\ IsFile(file')
         /\ \A j \in Issues : Tables(j)'
<1>1. IsFile(mem)
  BY DEF TypeOK
<1>2. /\ mem' = [mem EXCEPT !.attempts[i] = [@ EXCEPT ![Len(mem.attempts[i])].outcome = o]]
      /\ file' = mem'
  BY DEF SaveOutcome, Attempts
<1>3. /\ mem' = [attempts |-> mem'.attempts, caps |-> mem'.caps]
      /\ mem'.attempts = [mem.attempts EXCEPT ![i] = [@ EXCEPT ![Len(mem.attempts[i])].outcome = o]]
  BY <1>1, <1>2 DEF IsFile
<1> QED
  BY <1>2, <1>3, SaveKeepsTables

\* The step changes no attempts, or the process reads its file again.
LEMMA SameFiles ==
  ASSUME TypeOK, \A j \in Issues : Tables(j), mem' = mem \/ mem' = file, file' = file,
         spawned' = spawned, \A j \in Issues : Passed(j) => Passed(j)'
  PROVE  /\ IsFile(mem') /\ IsFile(file')
         /\ \A j \in Issues : Tables(j)'
<1>1. IsFile(mem') /\ IsFile(file')
  BY DEF TypeOK
<1>2. ASSUME NEW j \in Issues PROVE Tables(j)'
  BY DEF Tables
<1> QED
  BY <1>1, <1>2

\* A step that judges nothing.
LEMMA SamePassed ==
  ASSUME spawned' = spawned, judged' = judged
  PROVE  \A j \in Issues : Passed(j) => Passed(j)'
BY DEF Passed

\* Where a dispatch goes, unless it is picked anew; to a merge review only from one,
\* or passed.
LEMMA StepsKept ==
  ASSUME TypeOK, NEW i \in Issues, NEW s, s # "select", step' = [step EXCEPT ![i] = s],
         s \in MergeSteps => step[i] \in MergeSteps \/ Passed(i)'
  PROVE  /\ DOMAIN step' = Issues
         /\ \A j \in Issues : /\ step'[j] = "select" => step[j] = "select"
                              /\ step'[j] \in MergeSteps => step[j] \in MergeSteps \/ Passed(j)'
<1> SUFFICES ASSUME NEW j \in Issues
             PROVE  /\ step'[j] = "select" => step[j] = "select"
                    /\ step'[j] \in MergeSteps => step[j] \in MergeSteps \/ Passed(j)'
  BY DEF TypeOK
<1>1. CASE j = i
  BY <1>1 DEF TypeOK
<1>2. CASE j # i
  BY <1>2 DEF TypeOK
<1> QED
  BY <1>1, <1>2

LEMMA IdleSteps ==
  ASSUME step' = Idle
  PROVE  /\ DOMAIN step' = Issues
         /\ \A j \in Issues : step'[j] # "select" /\ step'[j] \notin MergeSteps
BY DEF Idle, MergeSteps

-----------------------------------------------------------------------------
(* Sessions. *)

LEMMA StartSessionKeeps ==
  ASSUME IInv, StartSession
  PROVE  IInv'
<1> DEFINE f == [file EXCEPT !.attempts = Interrupted(file.attempts)]
<1>1. IsFile(file) /\ \A i \in Issues : Tables(i)
  BY DEF IInv, TypeOK
<1>2. mem' = f /\ file' = f /\ step' = Idle /\ UNCHANGED <<setting, closed, spawned, judged>>
  BY DEF StartSession
<1>3. f.attempts = Interrupted(file.attempts) /\ f = [attempts |-> f.attempts, caps |-> f.caps]
  BY <1>1 DEF IsFile
<1>4. f.attempts = [i \in Issues |-> f.attempts[i]]
  BY <1>3 DEF Interrupted
<1> HIDE DEF f
<1>5. ASSUME NEW i \in Issues
      PROVE  /\ IsTable(f.attempts[i]) /\ Len(f.attempts[i]) = Len(file.attempts[i])
             /\ Awaits(f.attempts[i]) => Awaits(file.attempts[i])
  <2> DEFINE s == file.attempts[i]
             t == f.attempts[i]
  <2>1. t = [n \in DOMAIN s |-> IF s[n].outcome = "running"
                                THEN [s[n] EXCEPT !.outcome = "interrupted"] ELSE s[n]]
    BY <1>3 DEF Interrupted
  <2>2. t = [n \in DOMAIN s |-> t[n]]
    BY <2>1
  <2>3. IsTable(s) /\ Len(s) \in Nat /\ DOMAIN s = 1..Len(s)
    BY <1>1 DEF IsFile, IsTable
  <2>4. \A n \in DOMAIN s : t[n] = IF s[n].outcome = "running"
                                    THEN [s[n] EXCEPT !.outcome = "interrupted"] ELSE s[n]
    BY <2>1
  <2> HIDE DEF s, t
  <2>5. ASSUME NEW n \in DOMAIN s
        PROVE  IsAttempt(t[n]) /\ (t[n].outcome = "awaiting-review" => s[n].outcome = "awaiting-review")
    <3>1. IsAttempt(s[n])
      BY <2>3 DEF IsTable
    <3>2. CASE s[n].outcome = "running"
      <4>1. t[n] = [s[n] EXCEPT !.outcome = "interrupted"]
        BY <2>4, <3>2
      <4>2. IsAttempt(t[n]) /\ t[n].outcome = "interrupted"
        BY <3>1, <4>1, AttemptSaved
      <4> QED
        BY <4>2
    <3>3. CASE s[n].outcome # "running"
      BY <2>4, <3>1, <3>3
    <3> QED
      BY <3>2, <3>3
  <2>6. IsTable(t) /\ Len(t) = Len(s)
    BY <2>2, <2>3, <2>5, TableRewrite
  <2>7. Awaits(t) => Awaits(s)
    BY <2>3, <2>5, <2>6 DEF Awaits
  <2> QED
    BY <2>6, <2>7 DEF t, s
<1>6. IsFile(f)
  BY <1>3, <1>4, <1>5 DEF IsFile
<1>7. \A i \in Issues : Tables(i)'
  BY <1>1, <1>2, <1>5 DEF Tables, Passed
<1>8. Untouched
  BY <1>2, <1>6, <1>7, IdleSteps, SamePassed DEF Untouched, IInv, TypeOK
<1> QED
  BY <1>8, UntouchedKeeps

\* A merge review asked for by hand is of an attempt that awaits it.
LEMMA StartCommandKeeps ==
  ASSUME IInv, NEW i \in Issues, StartCommand(i)
  PROVE  IInv'
<1>1. /\ mem' = file /\ file' = file /\ UNCHANGED <<setting, closed, spawned, judged>>
      /\ \/ step' = [Idle EXCEPT ![i] = "merge"] /\ Last(file.attempts[i]).outcome = "awaiting-review"
         \/ step' = [Idle EXCEPT ![i] = "rejudge"]
      /\ file.attempts[i] # << >>
  BY DEF StartCommand
<1>2. /\ IsFile(mem') /\ IsFile(file')
      /\ \A j \in Issues : Tables(j)'
  BY <1>1, SameFiles, SamePassed DEF IInv
<1>3. IsTable(file.attempts[i])
  BY DEF IInv, TypeOK, IsFile
<1>4. Last(file.attempts[i]).outcome = "awaiting-review" => Passed(i)
  <2>1. Len(file.attempts[i]) > 0
    BY <1>1, <1>3 DEF IsTable
  <2> QED
    BY <2>1 DEF IInv, Tables, Awaits, Last
<1>5. /\ DOMAIN step' = Issues
      /\ \A j \in Issues : step'[j] # "select" /\ (step'[j] \in MergeSteps => Passed(j)')
  BY <1>1, <1>4 DEF Idle, MergeSteps, Passed
<1>6. Untouched
  BY <1>1, <1>2, <1>5, SamePassed DEF Untouched, IInv, TypeOK
<1> QED
  BY <1>6, UntouchedKeeps

LEMMA CrashKeeps ==
  ASSUME IInv, Crash
  PROVE  IInv'
<1>1. mem' = file /\ file' = file /\ UNCHANGED <<setting, closed, spawned, judged>> /\ step' = Idle
  BY DEF Crash
<1>2. /\ IsFile(mem') /\ IsFile(file')
      /\ \A j \in Issues : Tables(j)'
  BY <1>1, SameFiles, SamePassed DEF IInv
<1>3. Untouched
  BY <1>1, <1>2, IdleSteps, SamePassed DEF Untouched, IInv, TypeOK
<1> QED
  BY <1>3, UntouchedKeeps

LEMMA CooldownKeeps ==
  ASSUME IInv, NEW m \in Models, CooldownOver(m)
  PROVE  IInv'
<1>1. /\ mem' = [mem EXCEPT !.caps = @ \ {m}] /\ file' = [file EXCEPT !.caps = @ \ {m}]
      /\ UNCHANGED <<setting, closed, spawned, judged, step>>
  BY DEF CooldownOver
<1>2. IsFile(mem) /\ IsFile(file)
  BY DEF IInv, TypeOK
<1>3. /\ IsFile(mem') /\ mem'.attempts = mem.attempts
      /\ IsFile(file') /\ file'.attempts = file.attempts
  BY <1>1, <1>2 DEF IsFile
<1>4. \A i \in Issues : Tables(i)'
  BY <1>1, <1>3 DEF IInv, Tables, Passed
<1>5. Untouched
  BY <1>1, <1>3, <1>4, SamePassed DEF Untouched, IInv, TypeOK
<1> QED
  BY <1>5, UntouchedKeeps

\* Steps that leave the attempts and the table of steps, or end every dispatch.
LEMMA QuietSteps ==
  ASSUME IInv, mem' = mem, file' = file, UNCHANGED <<setting, closed, spawned, judged>>,
         step' = step \/ step' = Idle
  PROVE  IInv'
<1>1. /\ DOMAIN step' = Issues
      /\ \A j \in Issues : /\ step'[j] = "select" => step[j] = "select"
                           /\ step'[j] \in MergeSteps => step[j] \in MergeSteps
  BY IdleSteps DEF IInv, TypeOK
<1>2. /\ IsFile(mem') /\ IsFile(file')
      /\ \A j \in Issues : Tables(j)'
  BY SameFiles, SamePassed DEF IInv
<1>3. Untouched
  BY <1>1, <1>2, SamePassed DEF Untouched, IInv, TypeOK
<1> QED
  BY <1>3, UntouchedKeeps

LEMMA RevalidateKeeps ==
  ASSUME IInv, RevalidateNeedsHuman
  PROVE  IInv'
BY QuietSteps DEF RevalidateNeedsHuman

LEMMA BatchEndsKeeps ==
  ASSUME IInv, BatchEnds
  PROVE  IInv'
BY QuietSteps DEF BatchEnds, EndSession

LEMMA OutsideKeeps ==
  ASSUME IInv, NEW i \in Issues, OrphanEnds(i) \/ OwnerLabels(i)
  PROVE  IInv'
BY QuietSteps DEF OrphanEnds, OwnerLabels, procVars

-----------------------------------------------------------------------------
(* Picking the next batch. *)

\* The limit on attempts, doubled at most, bounds what a ready issue has had.
LEMMA ReadyHasRoom ==
  ASSUME IInv, NEW i \in Issues, IsReady(i)
  PROVE  spawned[i] <= 2 * Cap - 2 /\ i \notin closed
<1> DEFINE s == mem.attempts[i]
           K == {n \in DOMAIN s : s[n].outcome \in {"truncated"}}
<1>1. /\ Cardinality(K) < AttemptCap(i)
      /\ Len(s) - Cardinality(K) < AttemptCap(i)
      /\ i \notin closed
  BY DEF IsReady, WithinAttempts, Count, Attempts
<1>2. IsTable(s) /\ spawned[i] <= Len(s) /\ spawned[i] \in Nat
  BY DEF IInv, TypeOK, IsFile, Tables
<1>3. K \subseteq 1..Len(s) /\ Len(s) \in Nat
  BY <1>2 DEF IsTable
<1> HIDE DEF K
<1>4. Cardinality(K) \in Nat
  <2> DEFINE D == 1..Len(s)
  <2>1. IsFiniteSet(D)
    BY <1>3, FS_Interval
  <2> HIDE DEF D
  <2>2. K \subseteq D
    BY <1>3 DEF D
  <2> QED
    BY <2>1, <2>2, FS_Subset, FS_CardinalityType
<1>5. setting.maxAttempts \in Nat
  BY OrchestratorAssumption DEF IInv, TypeOK
<1>6. AttemptCap(i) \in Nat /\ Cap \in Nat /\ AttemptCap(i) <= Cap
  BY <1>5 DEF AttemptCap, Cap
<1> HIDE DEF s
<1> QED
  BY <1>1, <1>2, <1>3, <1>4, <1>6

LEMMA PassKeeps ==
  ASSUME IInv, Pass
  PROVE  IInv'
<1>1. /\ mem' = mem /\ file' = file /\ UNCHANGED <<setting, closed, spawned, judged>>
      /\ step' = Idle \/ step' = [i \in Issues |-> IF i \in NextBatch THEN "select" ELSE "idle"]
  BY DEF Pass, NothingReady, EndSession
<1>2. CASE step' = Idle
  BY <1>1, <1>2, QuietSteps
<1>3. CASE step' = [i \in Issues |-> IF i \in NextBatch THEN "select" ELSE "idle"]
  <2>1. \A i \in Issues : step'[i] = "select" => IsReady(i)
    BY <1>3 DEF NextBatch, ReadyIssues
  <2>2. \A i \in Issues : Picked(i)'
    BY <1>1, <2>1, ReadyHasRoom DEF Picked, Cap
  <2>3. \A i \in Issues : Reviewed(i)'
    BY <1>3 DEF Reviewed, MergeSteps
  <2>4. \A i \in Issues : Tables(i)'
    BY <1>1, SameFiles, SamePassed DEF IInv
  <2>5. TypeOK'
    BY <1>1, <1>3 DEF IInv, TypeOK, IsFile
  <2>6. WorkersBounded' /\ closed' \subseteq Issues /\ MergedAfterGate'
    BY <1>1 DEF IInv, WorkersBounded, MergedAfterGate
  <2> QED
    BY <2>2, <2>3, <2>4, <2>5, <2>6 DEF IInv
<1> QED
  BY <1>1, <1>2, <1>3

-----------------------------------------------------------------------------
(* One dispatch. *)

\* A dispatch that writes no attempt, or the outcome of its last one, and goes
\* anywhere but back to be picked; it goes to a merge review, and awaits one, only
\* when it was passed.
LEMMA DispatchQuiet ==
  ASSUME IInv, NEW i \in Issues, NEW s, s # "select",
         step' = [step EXCEPT ![i] = s],
         s \in MergeSteps => step[i] \in MergeSteps \/ Passed(i)',
         UNCHANGED <<setting, closed, spawned>>,
         DOMAIN judged' = Issues, \A j \in Issues : Passed(j) => Passed(j)',
         \/ mem' = mem /\ file' = file
         \/ \E o \in {"timeout", "truncated", "gap", "merge-blocked", "merged"} : SaveOutcome(i, o)
         \/ SaveOutcome(i, "awaiting-review") /\ Passed(i)'
  PROVE  IInv'
<1>1. /\ DOMAIN step' = Issues
      /\ \A j \in Issues : /\ step'[j] = "select" => step[j] = "select"
                           /\ step'[j] \in MergeSteps => step[j] \in MergeSteps \/ Passed(j)'
  BY StepsKept DEF IInv
<1>2. /\ IsFile(mem') /\ IsFile(file')
      /\ \A j \in Issues : Tables(j)'
  <2>1. CASE mem' = mem /\ file' = file
    BY <2>1, SameFiles DEF IInv
  <2>2. CASE \E o \in {"timeout", "truncated", "gap", "merge-blocked", "merged"} : SaveOutcome(i, o)
    BY <2>2, OutcomeKeepsTables DEF IInv
  <2>3. CASE SaveOutcome(i, "awaiting-review") /\ Passed(i)'
    BY <2>3, OutcomeKeepsTables DEF IInv
  <2> QED
    BY <2>1, <2>2, <2>3
<1>3. Untouched
  BY <1>1, <1>2 DEF Untouched
<1> QED
  BY <1>3, UntouchedKeeps

\* Another attempt: the file and the memory of the process agree on it.
LEMMA RecordTables ==
  ASSUME IInv, NEW i \in Issues, NEW m, RecordAttempt(i, m),
         judged' = judged, \A j \in Issues \ {i} : spawned'[j] = spawned[j],
         spawned'[i] <= spawned[i] + 1, spawned'[i] \in Nat
  PROVE  /\ IsFile(mem') /\ IsFile(file')
         /\ \A j \in Issues : Tables(j)'
<1> DEFINE s == mem.attempts[i]
           x == Attempt(m, "running")
           t == Append(s, x)
<1>0. IsFile(mem) /\ IsTable(s) /\ spawned[i] \in Nat /\ spawned[i] <= Len(s)
  BY DEF IInv, TypeOK, IsFile, Tables
<1>1. IsFile(mem) /\ IsTable(s) /\ Len(s) \in Nat /\ spawned[i] \in Nat /\ spawned[i] <= Len(s)
  BY <1>0, TableLength
<1>2. /\ file' = mem'
      /\ mem' = [attempts |-> mem'.attempts, caps |-> mem'.caps]
      /\ mem'.attempts = [mem.attempts EXCEPT ![i] = t]
  BY <1>1 DEF RecordAttempt, IsFile
<1>3. IsAttempt(x) /\ x.outcome = "running"
  BY DEF IsAttempt, Attempt
<1> HIDE DEF s, x
<1>4. IsTable(t) /\ Len(t) = Len(s) + 1 /\ t[Len(s) + 1] = x
  BY <1>1, <1>3, TableAppend
<1>5. ~Awaits(t)
  BY <1>3, <1>4 DEF Awaits
<1> HIDE DEF t
<1>6. /\ IsFile(mem') /\ mem'.attempts[i] = t
      /\ \A j \in Issues \ {i} : mem'.attempts[j] = mem.attempts[j]
  BY <1>2, <1>4, MemRewrite DEF IInv
<1>7. Tables(i)'
  BY <1>1, <1>2, <1>4, <1>5, <1>6 DEF Tables
<1>8. \A j \in Issues \ {i} : Tables(j)'
  BY <1>2, <1>6 DEF IInv, Tables, Passed
<1> QED
  BY <1>2, <1>6, <1>7, <1>8

\* Another attempt, and its worker: the issue was picked.
LEMMA RecordKeeps ==
  ASSUME IInv, NEW i \in Issues, NEW m, step[i] = "select", RecordAttempt(i, m),
         spawned' = [spawned EXCEPT ![i] = @ + 1], step' = [step EXCEPT ![i] = "worker"],
         UNCHANGED <<setting, closed, judged>>
  PROVE  IInv'
<1>1. /\ spawned' \in [Issues -> Nat] /\ spawned'[i] = spawned[i] + 1 /\ spawned[i] \in Nat
      /\ \A j \in Issues \ {i} : spawned'[j] = spawned[j]
  BY DEF IInv, TypeOK
<1>2. /\ IsFile(mem') /\ IsFile(file')
      /\ \A j \in Issues : Tables(j)'
  BY <1>1, RecordTables
<1>3. TypeOK'
  BY <1>1, <1>2 DEF IInv, TypeOK
<1>4. spawned[i] <= 2 * Cap - 2 /\ i \notin closed
  BY DEF IInv, Picked
<1>5. \A j \in Issues : Picked(j)'
  BY <1>1 DEF IInv, TypeOK, Picked, Cap
<1>6. \A j \in Issues : Reviewed(j)'
  BY <1>1 DEF IInv, TypeOK, Reviewed, MergeSteps, Passed
<1>7. WorkersBounded'
  <2>1. setting.maxAttempts \in Nat
    BY OrchestratorAssumption DEF IInv, TypeOK
  <2> QED
    BY <1>1, <1>4, <2>1 DEF IInv, WorkersBounded, Cap
<1>8. closed' \subseteq Issues /\ MergedAfterGate'
  BY <1>1, <1>4 DEF IInv, MergedAfterGate
<1> QED
  BY <1>2, <1>3, <1>5, <1>6, <1>7, <1>8 DEF IInv

\* A dispatch that throws after it has recorded its attempt.
LEMMA ThrowsKeeps ==
  ASSUME IInv, NEW i \in Issues, NEW m, RecordAttempt(i, m), Finished(i, "error"),
         UNCHANGED <<setting, closed, judged, spawned>>
  PROVE  IInv'
<1>1. /\ IsFile(mem') /\ IsFile(file')
      /\ \A j \in Issues : Tables(j)'
  BY RecordTables DEF IInv, TypeOK
<1>2. /\ DOMAIN step' = Issues
      /\ \A j \in Issues : /\ step'[j] = "select" => step[j] = "select"
                           /\ step'[j] \in MergeSteps => step[j] \in MergeSteps \/ Passed(j)'
  BY StepsKept DEF IInv, Finished, MergeSteps
<1>3. Untouched
  BY <1>1, <1>2, SamePassed DEF Untouched, IInv, TypeOK
<1> QED
  BY <1>3, UntouchedKeeps

LEMMA DispatchKeeps ==
  ASSUME IInv, NEW i \in Issues, Dispatch(i)
  PROVE  IInv'
<1>1. step[i] = "select" /\ UNCHANGED <<setting, closed, judged>>
  BY DEF Dispatch, At
<1>2. ASSUME mem' = mem, file' = file, spawned' = spawned, step' = [step EXCEPT ![i] = "finished"]
      PROVE  IInv'
  BY <1>1, <1>2, DispatchQuiet, SamePassed DEF IInv, TypeOK, MergeSteps
<1>3. CASE FlagUnderSpecified(i)
  BY <1>2, <1>3 DEF FlagUnderSpecified, Finished
<1>4. CASE DispatchThrows(i)
  BY <1>1, <1>2, <1>4, ThrowsKeeps DEF DispatchThrows, Finished
<1>5. CASE \E m \in ProfileAndSelect(i) :
             RecordAttempt(i, m) /\ spawned' = [spawned EXCEPT ![i] = @ + 1] /\ Goes(i, "worker")
  BY <1>1, <1>5, RecordKeeps DEF Goes
<1> QED
  BY <1>3, <1>4, <1>5 DEF Dispatch

LEMMA WorkerEndsKeeps ==
  ASSUME IInv, NEW i \in Issues, WorkerEnds(i)
  PROVE  IInv'
<1>1. UNCHANGED <<setting, closed, spawned, judged>> /\ DOMAIN judged' = Issues
  BY DEF WorkerEnds, IInv, TypeOK
<1>2. \A j \in Issues : Passed(j) => Passed(j)'
  BY <1>1, SamePassed
<1>3. CASE /\ mem' = [mem EXCEPT !.attempts[i][Len(Attempts(i))].outcome = "capped",
                                 !.caps = @ \union {CurrentModel(i)}]
           /\ file' = mem' /\ Finished(i, "retry")
  <2>1. IsFile(mem)
    BY DEF IInv, TypeOK
  <2>2. /\ mem' = [attempts |-> mem'.attempts, caps |-> mem'.caps]
        /\ mem'.attempts = [mem.attempts EXCEPT ![i] = [@ EXCEPT ![Len(mem.attempts[i])].outcome = "capped"]]
    BY <1>3, <2>1 DEF IsFile, Attempts
  <2>3. /\ IsFile(mem') /\ IsFile(file')
        /\ \A j \in Issues : Tables(j)'
    BY <1>1, <1>2, <1>3, <2>2, SaveKeepsTables DEF IInv
  <2>4. /\ DOMAIN step' = Issues
        /\ \A j \in Issues : /\ step'[j] = "select" => step[j] = "select"
                             /\ step'[j] \in MergeSteps => step[j] \in MergeSteps \/ Passed(j)'
    BY <1>3, StepsKept DEF IInv, Finished, MergeSteps
  <2>5. Untouched
    BY <1>1, <1>2, <2>3, <2>4 DEF Untouched
  <2> QED
    BY <2>5, UntouchedKeeps
<1>4. CASE (\E o \in {"timeout", "truncated"} : SaveOutcome(i, o)) /\ Finished(i, "retry")
  BY <1>1, <1>2, <1>4, DispatchQuiet DEF Finished, MergeSteps
<1>5. CASE Goes(i, "judge") /\ UNCHANGED <<mem, file>>
  BY <1>1, <1>2, <1>5, DispatchQuiet DEF Goes, MergeSteps
<1> QED
  BY <1>3, <1>4, <1>5 DEF WorkerEnds

\* What the gate passes has been passed since its last worker.
LEMMA PassedNowPasses ==
  ASSUME IInv, NEW i \in Issues, PassedNow(i), spawned' = spawned
  PROVE  /\ DOMAIN judged' = Issues /\ Passed(i)'
         /\ \A j \in Issues : Passed(j) => Passed(j)'
BY DEF IInv, TypeOK, PassedNow, Passed

LEMMA JudgeKeeps ==
  ASSUME IInv, NEW i \in Issues, Judge(i)
  PROVE  IInv'
<1>1. UNCHANGED <<setting, closed, spawned>>
  BY DEF Judge
<1>2. CASE SaveOutcome(i, "awaiting-review") /\ PassedNow(i) /\ (Goes(i, "merge") \/ Finished(i, "done"))
  <2>1. /\ DOMAIN judged' = Issues /\ Passed(i)'
        /\ \A j \in Issues : Passed(j) => Passed(j)'
    BY <1>1, <1>2, PassedNowPasses
  <2>2. PICK s \in {"merge", "finished"} : step' = [step EXCEPT ![i] = s]
    BY <1>2 DEF Goes, Finished
  <2> QED
    BY <1>1, <1>2, <2>1, <2>2, DispatchQuiet
<1>3. CASE judged' = judged /\ (SaveOutcome(i, "gap") \/ UNCHANGED <<mem, file>>)
           /\ (Goes(i, "escalate") \/ \E r \in {"retry", "error"} : Finished(i, r))
  <2>1. DOMAIN judged' = Issues /\ \A j \in Issues : Passed(j) => Passed(j)'
    BY <1>1, <1>3, SamePassed DEF IInv, TypeOK
  <2>2. PICK s \in {"escalate", "finished"} : step' = [step EXCEPT ![i] = s]
    BY <1>3 DEF Goes, Finished
  <2> QED
    BY <1>1, <1>3, <2>1, <2>2, DispatchQuiet DEF MergeSteps
<1> QED
  BY <1>2, <1>3 DEF Judge

LEMMA ReviewOnlyKeeps ==
  ASSUME IInv, NEW i \in Issues, ReviewOnly(i)
  PROVE  IInv'
<1>1. UNCHANGED <<setting, closed, spawned>> /\ step' = [step EXCEPT ![i] = "finished"]
  BY DEF ReviewOnly, Finished
<1>2. CASE SaveOutcome(i, "awaiting-review") /\ PassedNow(i)
  BY <1>1, <1>2, PassedNowPasses, DispatchQuiet DEF MergeSteps
<1>3. CASE UNCHANGED <<mem, file, judged>>
  BY <1>1, <1>3, SamePassed, DispatchQuiet DEF IInv, TypeOK, MergeSteps
<1> QED
  BY <1>2, <1>3 DEF ReviewOnly

LEMMA EscalateKeeps ==
  ASSUME IInv, NEW i \in Issues, EscalateOrPark(i)
  PROVE  IInv'
BY SamePassed, DispatchQuiet DEF EscalateOrPark, Finished, IInv, TypeOK, MergeSteps

-----------------------------------------------------------------------------
(* Merge review. *)

LEMMA MergeBeginsKeeps ==
  ASSUME IInv, NEW i \in Issues, MergeBegins(i)
  PROVE  IInv'
<1>1. UNCHANGED <<setting, closed, spawned, judged, mem, file>> /\ step[i] \in MergeSteps
  BY DEF MergeBegins, At, MergeSteps
<1>2. PICK s \in {"verdict", "finished"} : step' = [step EXCEPT ![i] = s]
  BY DEF MergeBegins, Goes, Finished
<1> QED
  BY <1>1, <1>2, SamePassed, DispatchQuiet DEF IInv, TypeOK

\* The merge closes the issue, which the gate had passed.
LEMMA MergedKeeps ==
  ASSUME IInv, NEW i \in Issues, step[i] = "verdict", closed' = closed \union {i},
         UNCHANGED <<setting, spawned, judged, mem, file>>, Goes(i, "merged")
  PROVE  IInv'
<1>1. /\ DOMAIN step' = Issues
      /\ \A j \in Issues : /\ step'[j] = "select" => step[j] = "select"
                           /\ step'[j] \in MergeSteps => step[j] \in MergeSteps \/ Passed(j)'
  BY StepsKept DEF IInv, Goes, MergeSteps
<1>2. step'[i] = "merged" /\ Passed(i)
  BY DEF IInv, TypeOK, Goes, Reviewed, MergeSteps
<1>3. TypeOK'
  BY <1>1 DEF IInv, TypeOK, IsFile
<1>4. \A j \in Issues : Tables(j)'
  BY SameFiles, SamePassed DEF IInv
<1>5. \A j \in Issues : Picked(j)'
  BY <1>1, <1>2 DEF IInv, Picked, Cap
<1>6. \A j \in Issues : Reviewed(j)'
  BY <1>1, SamePassed DEF IInv, Reviewed
<1>7. WorkersBounded'
  BY DEF IInv, WorkersBounded
<1>8. closed' \subseteq Issues /\ MergedAfterGate'
  BY <1>2 DEF IInv, MergedAfterGate, Passed
<1> QED
  BY <1>3, <1>4, <1>5, <1>6, <1>7, <1>8 DEF IInv

LEMMA MergeDecidedKeeps ==
  ASSUME IInv, NEW i \in Issues, MergeDecided(i)
  PROVE  IInv'
<1>1. UNCHANGED <<setting, spawned, judged>> /\ step[i] = "verdict"
  BY DEF MergeDecided, At
<1>2. \A j \in Issues : Passed(j) => Passed(j)'
  BY <1>1, SamePassed
<1>3. CASE /\ SaveOutcome(i, "merge-blocked") /\ closed' = closed
           /\ Goes(i, "escalate") \/ Finished(i, "done")
  <2>1. PICK s \in {"escalate", "finished"} : step' = [step EXCEPT ![i] = s]
    BY <1>3 DEF Goes, Finished
  <2> QED
    BY <1>1, <1>2, <1>3, <2>1, DispatchQuiet DEF IInv, TypeOK, MergeSteps
<1>4. CASE closed' = closed \union {i} /\ Goes(i, "merged") /\ UNCHANGED <<mem, file>>
  BY <1>1, <1>4, MergedKeeps
<1>5. CASE Finished(i, "done") /\ UNCHANGED <<mem, file, closed>>
  BY <1>1, <1>2, <1>5, DispatchQuiet DEF Finished, IInv, TypeOK, MergeSteps
<1> QED
  BY <1>3, <1>4, <1>5 DEF MergeDecided

LEMMA MergeRecordedKeeps ==
  ASSUME IInv, NEW i \in Issues, MergeRecorded(i)
  PROVE  IInv'
<1>1. /\ UNCHANGED <<setting, closed, spawned, judged>> /\ step' = [step EXCEPT ![i] = "finished"]
      /\ SaveOutcome(i, "merged") \/ UNCHANGED <<mem, file>>
  BY DEF MergeRecorded, Finished
<1> QED
  BY <1>1, SamePassed, DispatchQuiet DEF IInv, TypeOK, MergeSteps

-----------------------------------------------------------------------------
(* The head that is merged. *)

IsReview(r) ==
  r = [blocked |-> r.blocked, tests |-> r.tests, settled |-> r.settled, verdict |-> r.verdict,
       merged |-> r.merged]

\* Between the checks of a settled branch and its merge nothing writes to it.
HeadKept(i) ==
  step[i] = "verdict" /\ review[i].settled =>
    i \notin orphans /\ work[i].pushed /\ work[i].tests = review[i].tests

HeadMerged(i) ==
  step[i] = "merged" /\ review[i].settled =>
    review[i].merged \in (IF review[i].verdict = "touches" THEN {"pass"} ELSE {"none", "pass"})

Heads(i) ==
  /\ IsReview(review[i]) /\ work[i].tests \in {"none", "pass", "fail"}
  /\ HeadKept(i) /\ HeadMerged(i)

HInv ==
  /\ DOMAIN step = Issues /\ DOMAIN review = Issues /\ DOMAIN work = Issues
  /\ \A i \in Issues : Heads(i)

\* The step does not touch what is read of an issue, or leaves it under no review.
HeadsOf(i) ==
  \/ step'[i] = step[i] /\ review'[i] = review[i] /\ work'[i] = work[i] /\ (i \in orphans' => i \in orphans)
  \/ /\ step'[i] \notin {"verdict", "merged"} /\ IsReview(review'[i])
     /\ work'[i].tests \in {"none", "pass", "fail"}

LEMMA HeadsStay ==
  ASSUME HInv, DOMAIN step' = Issues, DOMAIN review' = Issues, DOMAIN work' = Issues,
         \A i \in Issues : HeadsOf(i) \/ Heads(i)'
  PROVE  HInv'
<1> SUFFICES ASSUME NEW i \in Issues PROVE Heads(i)'
  BY DEF HInv
<1>1. CASE step'[i] = step[i] /\ review'[i] = review[i] /\ work'[i] = work[i] /\ (i \in orphans' => i \in orphans)
  BY <1>1 DEF HInv, Heads, HeadKept, HeadMerged
<1>2. CASE /\ step'[i] \notin {"verdict", "merged"} /\ IsReview(review'[i])
           /\ work'[i].tests \in {"none", "pass", "fail"}
  BY <1>2 DEF Heads, HeadKept, HeadMerged
<1> QED
  BY <1>1, <1>2 DEF HeadsOf

\* Steps that neither begin, decide nor record a review, nor write a branch.
LEMMA HeadsQuiet ==
  ASSUME HInv, DOMAIN step' = Issues, UNCHANGED <<review, work, orphans>>,
         \A i \in Issues : step'[i] = step[i] \/ step'[i] \notin {"verdict", "merged"}
  PROVE  HInv'
BY HeadsStay DEF HInv, HeadsOf, Heads

\* One issue's dispatch goes on, outside a review.
LEMMA HeadsGo ==
  ASSUME HInv, NEW i \in Issues, NEW s, s \notin {"verdict", "merged"}, step' = [step EXCEPT ![i] = s],
         UNCHANGED <<review, work, orphans>>
  PROVE  HInv'
BY HeadsQuiet DEF HInv

LEMMA MergeBeginsHeads ==
  ASSUME HInv, NEW i \in Issues, MergeBegins(i)
  PROVE  HInv'
<1>1. orphans' = orphans
  BY DEF MergeBegins
<1>2. CASE Finished(i, "done") /\ UNCHANGED <<review, work>>
  BY <1>1, <1>2, HeadsGo DEF Finished
<1>3. CASE /\ \E blocked \in BOOLEAN, w \in {work[i]} \union Rebased(i) :
                /\ work' = [work EXCEPT ![i] = w]
                /\ review' = [review EXCEPT ![i] =
                      Review(blocked \/ ~w.pr, TestsReviewed(i, w), w.pushed /\ i \notin orphans)]
           /\ Goes(i, "verdict")
  <2>1. PICK blocked \in BOOLEAN, w \in {work[i]} \union Rebased(i) :
          /\ work' = [work EXCEPT ![i] = w]
          /\ review' = [review EXCEPT ![i] =
                Review(blocked \/ ~w.pr, TestsReviewed(i, w), w.pushed /\ i \notin orphans)]
    BY <1>3
  <2>2. w.tests \in {"none", "pass", "fail"}
    BY DEF HInv, Heads, Rebased
  <2> DEFINE settled == w.pushed /\ i \notin orphans
             r == Review(blocked \/ ~w.pr, TestsReviewed(i, w), settled)
  <2>3. /\ IsReview(r) /\ r.tests = w.tests
        /\ r.settled = settled
    BY DEF IsReview, Review, TestsReviewed
  <2>4. work'[i] = w /\ review'[i] = r /\ step'[i] = "verdict"
    BY <1>3, <2>1 DEF HInv, Goes
  <2>5. Heads(i)'
    <3> HIDE DEF r
    <3> QED
      BY <1>1, <2>2, <2>3, <2>4 DEF Heads, HeadKept, HeadMerged
  <2>6. \A j \in Issues \ {i} : HeadsOf(j)
    BY <1>1, <1>3, <2>1 DEF HeadsOf, Goes, HInv
  <2>7. DOMAIN step' = Issues /\ DOMAIN review' = Issues /\ DOMAIN work' = Issues
    BY <1>3, <2>1 DEF HInv, Goes
  <2> QED
    BY <2>5, <2>6, <2>7, HeadsStay
<1> QED
  BY <1>2, <1>3 DEF MergeBegins

LEMMA ReviewMerged ==
  ASSUME NEW r, IsReview(r), NEW v, NEW m
  PROVE  [r EXCEPT !.verdict = v, !.merged = m]
           = [blocked |-> r.blocked, tests |-> r.tests, settled |-> r.settled, verdict |-> v, merged |-> m]
<1> DEFINE c == [blocked |-> r.blocked, tests |-> r.tests, settled |-> r.settled,
                 verdict |-> r.verdict, merged |-> r.merged]
           d == [blocked |-> r.blocked, tests |-> r.tests, settled |-> r.settled,
                 verdict |-> v, merged |-> r.merged]
<1>1. r = c
  BY DEF IsReview
<1>2. [c EXCEPT !.verdict = v] = d
  OBVIOUS
<1>3. [d EXCEPT !.merged = m]
        = [blocked |-> r.blocked, tests |-> r.tests, settled |-> r.settled, verdict |-> v, merged |-> m]
  OBVIOUS
<1> HIDE DEF c, d
<1>4. [r EXCEPT !.verdict = v, !.merged = m] = [[r EXCEPT !.verdict = v] EXCEPT !.merged = m]
  OBVIOUS
<1> QED
  BY <1>1, <1>2, <1>3, <1>4

LEMMA NoReviewIsReview == IsReview(NoReview)
BY DEF IsReview, NoReview, Review

\* A review that ends, with or without the branch.
LEMMA ReviewEnds ==
  ASSUME HInv, NEW i \in Issues, NEW s \in {"escalate", "finished"}, step' = [step EXCEPT ![i] = s],
         review' = [review EXCEPT ![i] = NoReview], orphans' = orphans,
         work' = work \/ work' = [work EXCEPT ![i] = NoWork]
  PROVE  HInv'
<1>1. HeadsOf(i)
  BY NoReviewIsReview DEF HeadsOf, HInv, Heads, NoWork
<1>2. \A j \in Issues \ {i} : HeadsOf(j)
  BY DEF HeadsOf, HInv
<1>3. DOMAIN step' = Issues /\ DOMAIN review' = Issues /\ DOMAIN work' = Issues
  BY DEF HInv
<1> QED
  BY <1>1, <1>2, <1>3, HeadsStay

\* What nothing blocked was tested, and that is what is merged.
LEMMA MergeDecidedHeads ==
  ASSUME HInv, NEW i \in Issues, MergeDecided(i)
  PROVE  HInv'
<1>1. UNCHANGED <<work, orphans>> /\ step[i] = "verdict"
  BY DEF MergeDecided, At
<1>2. CASE (Goes(i, "escalate") \/ \E r \in {"done"} : Finished(i, r)) /\ review' = [review EXCEPT ![i] = NoReview]
  BY <1>1, <1>2, ReviewEnds DEF Goes, Finished
<1>3. ASSUME NEW verdict \in MergeVerdicts, ~Blockers(i, verdict), Goes(i, "merged"),
             review' = [review EXCEPT ![i].verdict = verdict, ![i].merged = MergedTests(i)]
      PROVE  HInv'
  <2> DEFINE r == [review[i] EXCEPT !.verdict = verdict, !.merged = MergedTests(i)]
             b == [blocked |-> review[i].blocked, tests |-> review[i].tests,
                   settled |-> review[i].settled, verdict |-> verdict, merged |-> MergedTests(i)]
  <2>1. IsReview(review[i])
    BY DEF HInv, Heads
  <2>2. r = b
    BY <2>1, ReviewMerged
  <2>3. review'[i] = b /\ step'[i] = "merged" /\ work'[i] = work[i]
    BY <1>1, <1>3, <2>2 DEF HInv, Goes
  <2>4. review[i].tests # "fail" /\ (verdict = "touches" => review[i].tests = "pass")
    BY <1>3 DEF Blockers
  <2>5. review[i].settled => MergedTests(i) = review[i].tests /\ review[i].tests \in {"none", "pass", "fail"}
    BY <1>1 DEF HInv, Heads, HeadKept, MergedTests
  <2>6. IsReview(b) /\ b.settled = review[i].settled /\ b.verdict = verdict /\ b.merged = MergedTests(i)
    BY DEF IsReview
  <2>7. Heads(i)'
    <3> HIDE DEF b
    <3>1. IsReview(review[i])' /\ (work[i].tests \in {"none", "pass", "fail"})'
      BY <2>3, <2>6 DEF HInv, Heads
    <3>2. HeadKept(i)' /\ HeadMerged(i)'
      BY <2>3, <2>4, <2>5, <2>6 DEF HeadKept, HeadMerged
    <3> QED
      BY <3>1, <3>2 DEF Heads
  <2>8. \A j \in Issues \ {i} : HeadsOf(j)
    BY <1>1, <1>3 DEF HeadsOf, Goes, HInv
  <2>9. DOMAIN step' = Issues /\ DOMAIN review' = Issues /\ DOMAIN work' = Issues
    BY <1>1, <1>3 DEF HInv, Goes
  <2> QED
    BY <2>7, <2>8, <2>9, HeadsStay
<1> QED
  BY <1>2, <1>3 DEF MergeDecided

LEMMA MergeRecordedHeads ==
  ASSUME HInv, NEW i \in Issues, MergeRecorded(i)
  PROVE  HInv'
BY ReviewEnds DEF MergeRecorded, Finished

\* A worker writes its branch before it is judged, an orphan when nothing settled is
\* under review.
LEMMA WorkersHeads ==
  ASSUME HInv, NEW i \in Issues, WorkerEnds(i) \/ OrphanEnds(i)
  PROVE  HInv'
<1>1. WorkOf(i) \subseteq {w \in WorkOf(i) : w.tests \in {"none", "pass", "fail"}}
  BY DEF WorkOf
<1>2. CASE WorkerEnds(i)
  <2>1. UNCHANGED <<review, orphans>> /\ step[i] = "worker"
    BY <1>2 DEF WorkerEnds, At
  <2>2. CASE work' = work /\ Finished(i, "retry")
    BY <2>1, <2>2, HeadsGo DEF Finished
  <2>3. CASE /\ work' \in {[work EXCEPT ![i] = w] : w \in IF CurrentModel(i) = NoModel THEN {work[i]} ELSE WorkOf(i)}
             /\ Goes(i, "judge")
    <3>1. PICK w \in {work[i]} \union WorkOf(i) : work' = [work EXCEPT ![i] = w]
      BY <2>3
    <3>2. w.tests \in {"none", "pass", "fail"}
      BY <1>1 DEF HInv, Heads
    <3>3. HeadsOf(i)
      BY <2>1, <2>3, <3>1, <3>2 DEF HeadsOf, HInv, Heads, Goes
    <3>4. \A j \in Issues \ {i} : HeadsOf(j)
      BY <2>1, <2>3, <3>1 DEF HeadsOf, HInv, Goes
    <3>5. DOMAIN step' = Issues /\ DOMAIN review' = Issues /\ DOMAIN work' = Issues
      BY <2>1, <2>3, <3>1 DEF HInv, Goes
    <3> QED
      BY <3>3, <3>4, <3>5, HeadsStay
  <2> QED
    BY <1>2, <2>2, <2>3 DEF WorkerEnds
<1>3. CASE OrphanEnds(i)
  <2>1. /\ i \in orphans /\ orphans' = orphans \ {i} /\ UNCHANGED <<review, step>>
        /\ work' \in {[work EXCEPT ![i] = w] : w \in WorkOf(i)}
    BY <1>3 DEF OrphanEnds, procVars
  <2>2. PICK w \in WorkOf(i) : work' = [work EXCEPT ![i] = w]
    BY <2>1
  <2>3. Heads(i)'
    BY <1>1, <2>1, <2>2 DEF HInv, Heads, HeadKept, HeadMerged
  <2>4. \A j \in Issues \ {i} : HeadsOf(j)
    BY <2>1, <2>2 DEF HeadsOf, HInv
  <2>5. DOMAIN step' = Issues /\ DOMAIN review' = Issues /\ DOMAIN work' = Issues
    BY <2>1, <2>2 DEF HInv
  <2> QED
    BY <2>3, <2>4, <2>5, HeadsStay
<1> QED
  BY <1>2, <1>3

LEMMA SessionsHeads ==
  ASSUME HInv, \/ StartSession \/ RevalidateNeedsHuman \/ Pass \/ BatchEnds \/ Crash
               \/ \E i \in Issues : StartCommand(i) \/ OwnerLabels(i)
               \/ \E m \in Models : CooldownOver(m)
               \/ UNCHANGED vars
  PROVE  HInv'
<1>1. CASE Crash
  <2>1. /\ step' = Idle /\ review' = [i \in Issues |-> NoReview] /\ work' = work
    BY <1>1 DEF Crash
  <2>2. \A i \in Issues : HeadsOf(i)
    BY <2>1, NoReviewIsReview DEF HeadsOf, HInv, Heads, Idle
  <2> QED
    BY <2>1, <2>2, HeadsStay DEF HInv, Idle
<1>2. CASE StartSession \/ RevalidateNeedsHuman \/ Pass \/ BatchEnds
  <2>1. UNCHANGED <<review, work, orphans>>
    BY <1>2 DEF StartSession, RevalidateNeedsHuman, Pass, BatchEnds
  <2>2. step' = step \/ \E f \in {Idle, [i \in Issues |-> IF i \in NextBatch THEN "select" ELSE "idle"]} : step' = f
    BY <1>2 DEF StartSession, RevalidateNeedsHuman, Pass, BatchEnds, NothingReady, EndSession
  <2> QED
    BY <2>1, <2>2, HeadsQuiet DEF HInv, Idle
<1>3. CASE \E i \in Issues : StartCommand(i) \/ OwnerLabels(i)
  <2>1. UNCHANGED <<review, work, orphans>>
    BY <1>3 DEF StartCommand, OwnerLabels, procVars
  <2>2. step' = step \/ \E i \in Issues, s \in {"merge", "rejudge"} : step' = [Idle EXCEPT ![i] = s]
    BY <1>3 DEF StartCommand, OwnerLabels, procVars
  <2> QED
    BY <2>1, <2>2, HeadsQuiet DEF HInv, Idle
<1>4. CASE (\E m \in Models : CooldownOver(m)) \/ UNCHANGED vars
  BY <1>4, HeadsQuiet DEF CooldownOver, vars, procVars, HInv
<1> QED
  BY <1>1, <1>2, <1>3, <1>4

LEMMA AdvanceHeads ==
  ASSUME HInv, NEW i \in Issues, Dispatch(i) \/ Judge(i) \/ ReviewOnly(i) \/ EscalateOrPark(i)
  PROVE  HInv'
<1>1. UNCHANGED <<review, work, orphans>>
  BY DEF Dispatch, Judge, ReviewOnly, EscalateOrPark
<1>2. \E s \in {"finished", "worker", "merge", "escalate"} : step' = [step EXCEPT ![i] = s]
  BY DEF Dispatch, FlagUnderSpecified, DispatchThrows, Judge, ReviewOnly, EscalateOrPark, Goes, Finished
<1> QED
  BY <1>1, <1>2, HeadsGo

LEMMA HeadsInductive == HInv /\ [Next]_vars => HInv'
BY SessionsHeads, AdvanceHeads, WorkersHeads, MergeBeginsHeads, MergeDecidedHeads, MergeRecordedHeads
   DEF Next, Advance

LEMMA HeadsInitially == Init => HInv
BY NoReviewIsReview DEF Init, HInv, Heads, HeadKept, HeadMerged, Idle, NoWork

-----------------------------------------------------------------------------
(* The theorems. *)

LEMMA Initially == Init => IInv
<1> SUFFICES ASSUME Init PROVE IInv
  OBVIOUS
<1>1. IsTable(<< >>) /\ ~Awaits(<< >>) /\ Len(<< >>) = 0
  BY DEF IsTable, Awaits
<1>2. TypeOK
  BY <1>1 DEF Init, TypeOK, IsFile, Idle
<1>3. \A i \in Issues : Tables(i)
  BY <1>1 DEF Init, Tables
<1>4. \A i \in Issues : Picked(i) /\ Reviewed(i)
  BY DEF Init, Picked, Reviewed, Idle, MergeSteps
<1>5. WorkersBounded /\ closed \subseteq Issues /\ MergedAfterGate
  BY DEF Init, WorkersBounded, MergedAfterGate
<1> QED
  BY <1>2, <1>3, <1>4, <1>5 DEF IInv

LEMMA Inductive == IInv /\ [Next]_vars => IInv'
<1> SUFFICES ASSUME IInv, [Next]_vars PROVE IInv'
  OBVIOUS
<1>1. CASE StartSession \/ RevalidateNeedsHuman \/ Pass \/ BatchEnds \/ Crash
  BY <1>1, StartSessionKeeps, RevalidateKeeps, PassKeeps, BatchEndsKeeps, CrashKeeps
<1>2. ASSUME NEW i \in Issues, StartCommand(i) \/ OrphanEnds(i) \/ OwnerLabels(i)
      PROVE  IInv'
  BY <1>2, StartCommandKeeps, OutsideKeeps
<1>3. ASSUME NEW i \in Issues, Advance(i)
      PROVE  IInv'
  BY <1>3, DispatchKeeps, WorkerEndsKeeps, JudgeKeeps, ReviewOnlyKeeps, EscalateKeeps,
     MergeBeginsKeeps, MergeDecidedKeeps, MergeRecordedKeeps DEF Advance
<1>4. ASSUME NEW m \in Models, CooldownOver(m)
      PROVE  IInv'
  BY <1>4, CooldownKeeps
<1>5. CASE UNCHANGED vars
  BY <1>5, QuietSteps DEF vars, procVars
<1> QED
  BY <1>1, <1>2, <1>3, <1>4, <1>5 DEF Next

\* Over every crash, restart, cap and label no issue is ever given a worker beyond
\* the limit readyIssues tests, real and truncated attempts counted apart.
THEOREM WorkersBoundedTheorem == Spec => []WorkersBounded
<1>1. IInv => WorkersBounded
  BY DEF IInv
<1> QED
  BY <1>1, Initially, Inductive, PTL DEF Spec

\* Whatever merges, by the loop or by --merge, over every crash, blocked review and
\* re-review: the gate has passed the issue since its last worker was started, no worker
\* is started for it again, and the head that is merged is the one that was tested,
\* rebased or not, once the branch had settled.
THEOREM MergedAsVerifiedTheorem == Spec => []MergedAsVerified
<1>1. IInv /\ HInv => MergedAsVerified
  BY DEF IInv, HInv, Heads, HeadMerged, MergedAsVerified, MergedHeadVerified
<1> QED
  BY <1>1, Initially, Inductive, HeadsInitially, HeadsInductive, PTL DEF Spec
=============================================================================
