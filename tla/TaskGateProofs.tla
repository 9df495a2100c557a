-------------------------- MODULE TaskGateProofs --------------------------
(***************************************************************************)
(* The task gate for any checks, attempts, policies, answers and bounds.   *)
(* A task at done is left alone, so what the gate saw stays what is there. *)
(* That the checks stand behind a pass needs a history: which rows a call  *)
(* may have stored, and where their commands were started.                 *)
(***************************************************************************)
EXTENDS TaskGate, FiniteSetTheorems, SequenceTheorems, TLAPS

-----------------------------------------------------------------------------
(* A task that is done stays as the gate left it: only decisions are added. *)

GateReads == <<head, revision, status, evidence, modelReview>>

LEMMA DoneIsFrozen ==
  ASSUME [Next]_vars, status = "done"
  PROVE  UNCHANGED GateReads /\ decisions \subseteq decisions'
<1> USE DEF GateReads, Live, gateVars, checkVars, configVars
<1>1. CASE \E c \in Checks : (CallCheck(c) \/ BeginRun(c) \/ EndCommand(c) \/ RecordResult(c))
                               /\ UNCHANGED gateVars
  BY <1>1 DEF CallCheck, BeginRun, EndCommand, RecordResult
<1>2. CASE MoveHead /\ UNCHANGED gateVars
  BY <1>2 DEF MoveHead
<1>3. CASE \E ch \in ChangeSets : InvalidateStaleEvidence(ch) /\ UNCHANGED gateVars
  BY <1>3 DEF InvalidateStaleEvidence
<1>4. CASE \E a \in Reviewers : BeginReview(a) \/ EndReview(a)
  BY <1>4 DEF BeginReview, EndReview, RecordReview
<1>5. CASE \E i \in DOMAIN reviews : DisposeFinding(i)
  BY <1>5 DEF DisposeFinding
<1>6. CASE BeginEvaluation
  BY <1>6 DEF BeginEvaluation
<1>7. CASE FinishEvaluation
  BY <1>7 DEF FinishEvaluation
<1>8. CASE Approve \/ ApprovalLapses \/ Resubmit
  BY <1>8 DEF Approve, ApprovalLapses, Resubmit
<1>9. CASE EnterReview \/ CompleteTask
  BY <1>9 DEF EnterReview, CompleteTask, C0
<1>10. CASE UNCHANGED vars
  BY <1>10 DEF vars
<1> QED
  BY <1>1, <1>2, <1>3, <1>4, <1>5, <1>6, <1>7, <1>8, <1>9, <1>10 DEF Next

\* Only completeTask makes a task done.
LEMMA DoneByTheGate ==
  ASSUME [Next]_vars, status # "done", status' = "done"
  PROVE  CompleteTask
<1> USE DEF Live, gateVars, checkVars, configVars
<1>1. CASE \E c \in Checks : (CallCheck(c) \/ BeginRun(c) \/ EndCommand(c) \/ RecordResult(c))
                               /\ UNCHANGED gateVars
  BY <1>1 DEF CallCheck, BeginRun, EndCommand, RecordResult
<1>2. CASE MoveHead /\ UNCHANGED gateVars
  BY <1>2 DEF MoveHead
<1>3. CASE \E ch \in ChangeSets : InvalidateStaleEvidence(ch) /\ UNCHANGED gateVars
  BY <1>3 DEF InvalidateStaleEvidence
<1>4. CASE \E a \in Reviewers : BeginReview(a) \/ EndReview(a)
  BY <1>4 DEF BeginReview, EndReview, RecordReview
<1>5. CASE \E i \in DOMAIN reviews : DisposeFinding(i)
  BY <1>5 DEF DisposeFinding
<1>6. CASE BeginEvaluation \/ FinishEvaluation
  BY <1>6 DEF BeginEvaluation, FinishEvaluation
<1>7. CASE Approve \/ ApprovalLapses \/ Resubmit \/ EnterReview
  BY <1>7 DEF Approve, ApprovalLapses, Resubmit, EnterReview
<1>8. CASE UNCHANGED vars
  BY <1>8 DEF vars
<1> QED
  BY <1>1, <1>2, <1>3, <1>4, <1>5, <1>6, <1>7, <1>8 DEF Next

LEMMA StartsUndone == GateInit => status # "done"
BY DEF GateInit, CheckInit

-----------------------------------------------------------------------------
(* Types, and the review rows: each is pinned to what its reviewer was      *)
(* shown.  Sequences ev of rows stand for the evidence.                     *)

Exits == {"pass", "fail", "timeout", "unavailable", "flaky"}
Places == [sha: Nat, revision: Nat]
Results == [status: Exits, sha: Nat, ran: Places]
Row == [src: Checks \cup Attempts, mode: {"deterministic", "human", "model"}, exit: Exits,
        sha: Nat, revision: Nat, registered: BOOLEAN, owned: BOOLEAN, req: STRING \cup {"none"},
        supersedes: Nat, ran: Places, tied: BOOLEAN, call: Nat]
DueCall == [phase: {"due"}, revision: Nat, runs: Seq(Results), drafts: Seq(Row),
            supersedes: Nat, req: STRING]
RunningCall == [phase: {"running"}, revision: Nat, runs: Seq(Results), drafts: Seq(Row),
                supersedes: Nat, req: STRING, ran: Places]

Pinned(r) == r.mode = "model" => r.ran = [sha |-> r.sha, revision |-> r.revision]
RowsOf(ev) == ev \in Seq(Row) /\ \A i \in DOMAIN ev : Pinned(ev[i])
ChecksOnly(ds) == ds \in Seq(Row) /\ \A i \in DOMAIN ds : ds[i].mode = "deterministic"

TypeOK ==
  /\ head \in Nat /\ revision \in Nat /\ limits.reqs \subseteq STRING
  /\ RowsOf(evidence)
  /\ run \in [Checks -> {Idle} \cup DueCall \cup RunningCall]
  /\ \A c \in Checks : run[c] # Idle => ChecksOnly(run[c].drafts)
  /\ DOMAIN reviewing = Reviewers
  /\ \A a \in Reviewers : reviewing[a] # Idle => reviewing[a].at \in Places

LEMMA HereIsPlace ==
  ASSUME head \in Nat, revision \in Nat
  PROVE  Here \in Places /\ Here.sha = head /\ Here.revision = revision
BY DEF Here, Places

\* The next call's number is a number.
LEMMA NextCallIsNat ==
  ASSUME RowsOf(evidence)
  PROVE  NextCall \in Nat
<1> DEFINE f == [i \in DOMAIN evidence |-> evidence[i].call]
           S == {evidence[i].call : i \in DOMAIN evidence}
<1>1. DOMAIN evidence = 1 .. Len(evidence) /\ Len(evidence) \in Nat
  BY DEF RowsOf
<1>2. IsFiniteSet(DOMAIN evidence)
  BY <1>1, FS_Interval
<1>3. S = {f[i] : i \in DOMAIN evidence}
  OBVIOUS
<1>4. IsFiniteSet(S)
  <2>1. \A i \in DOMAIN evidence : f[i] \in S
    OBVIOUS
  <2>2. f \in Surjection(DOMAIN evidence, S)
    BY <2>1 DEF Surjection
  <2> QED
    BY <1>2, <2>2, FS_Surjection
<1>5. Cardinality(S) \in Nat
  BY <1>4, FS_CardinalityType
<1> QED
  BY <1>5 DEF NextCall

LEMMA DraftTyped ==
  ASSUME NEW c \in Checks, NEW k, k.revision \in Nat, k.req \in STRING, k.supersedes \in Nat,
         NEW r \in Results
  PROVE  /\ Draft(c, k, r) \in Row
         /\ FlakyDraft(c, k, r) \in Row
         /\ Draft(c, k, r).mode = "deterministic"
         /\ FlakyDraft(c, k, r).mode = "deterministic"
<1>1. r.status \in Exits /\ r.sha \in Nat /\ r.ran \in Places
  BY DEF Results
<1>2. CheckDef[c].owned \in BOOLEAN
  BY CheckRunsAssumption
<1> QED
  BY <1>1, <1>2 DEF Draft, FlakyDraft, Row, Exits

LEMMA MaxOf ==
  ASSUME NEW n \in Nat, NEW S \in SUBSET (1..n), S # {}
  PROVE  Max(S) \in S /\ \A y \in S : y <= Max(S)
<1> DEFINE N == {n - i : i \in S}
<1>0. \A i \in S : i \in Nat /\ n - i \in Nat
  <2>1. \A i \in S : i \in 1..n
    OBVIOUS
  <2>2. \A i \in 1..n : i \in Nat /\ n - i \in Nat
    OBVIOUS
  <2> QED
    BY <2>1, <2>2
<1>1. N \in SUBSET Nat /\ N # {}
  BY <1>0
<1>2. PICK k \in N : \A m \in N : ~(<<m, k>> \in OpToRel(<, Nat))
  BY <1>1, NatLessThanWellFounded, WFMin
<1>3. \A m \in N : m < k => <<m, k>> \in OpToRel(<, Nat)
  BY <1>1 DEF OpToRel
<1>4. \A m \in N : ~(m < k)
  BY <1>2, <1>3, Zenon
<1>5. PICK i \in S : k = n - i
  OBVIOUS
<1>6. \A y \in S : i >= y
  <2> SUFFICES ASSUME NEW y \in S PROVE i >= y
    OBVIOUS
  <2>1. n - y \in N
    OBVIOUS
  <2>2. ~(n - y < n - i)
    BY <2>1, <1>4, <1>5
  <2>3. i \in Nat /\ y \in Nat
    BY <1>0
  <2> QED
    BY <2>2, <2>3
<1>7. \E x \in S : \A y \in S : x >= y
  BY <1>6
<1>8. Max(S) \in S /\ \A y \in S : Max(S) >= y
  BY <1>7 DEF Max
<1>9. \A y \in S : y \in Nat /\ Max(S) \in Nat
  BY <1>0, <1>8
<1> QED
  BY <1>8, <1>9

LEMMA AppendRows ==
  ASSUME NEW ds, ChecksOnly(ds), NEW d \in Row, d.mode = "deterministic"
  PROVE  ChecksOnly(Append(ds, d))
<1>1. ds \in Seq(Row) /\ DOMAIN ds = 1 .. Len(ds) /\ Len(ds) \in Nat
  BY DEF ChecksOnly
<1>2. /\ Append(ds, d) \in Seq(Row) /\ DOMAIN Append(ds, d) = 1 .. (Len(ds) + 1)
      /\ \A i \in 1 .. Len(ds) : Append(ds, d)[i] = ds[i]
      /\ Append(ds, d)[Len(ds) + 1] = d
  BY <1>1
<1>3. \A i \in 1 .. (Len(ds) + 1) : i \in 1 .. Len(ds) \/ i = Len(ds) + 1
  BY <1>1
<1> QED
  BY <1>1, <1>2, <1>3 DEF ChecksOnly

\* Rows added to typed rows.
LEMMA ConcatRows ==
  ASSUME NEW ev, RowsOf(ev), NEW rs, RowsOf(rs)
  PROVE  /\ RowsOf(ev \o rs)
         /\ \A i \in DOMAIN ev : i \in DOMAIN (ev \o rs) /\ (ev \o rs)[i] = ev[i]
<1> DEFINE n == Len(ev)
           m == Len(rs)
           es == ev \o rs
<1>1. /\ ev \in Seq(Row) /\ rs \in Seq(Row) /\ n \in Nat /\ m \in Nat
      /\ DOMAIN ev = 1 .. n /\ DOMAIN rs = 1 .. m
  BY DEF RowsOf
<1>2. es \in Seq(Row) /\ Len(es) = n + m /\ DOMAIN es = 1 .. (n + m)
  BY <1>1
<1>3. /\ \A i \in 1 .. n : es[i] = ev[i]
      /\ \A i \in 1 .. m : es[n + i] = rs[i]
  BY <1>1
<1> HIDE DEF es, n, m
<1>4. ASSUME NEW i \in 1 .. (n + m) PROVE Pinned(es[i])
  <2>1. CASE i \in 1 .. n
    BY <1>1, <1>3, <2>1 DEF RowsOf
  <2>2. CASE i \notin 1 .. n
    <3>1. i - n \in 1 .. m /\ i = n + (i - n)
      BY <1>1, <2>2
    <3> QED
      BY <1>1, <1>3, <3>1 DEF RowsOf
  <2> QED
    BY <2>1, <2>2
<1>5. \A i \in 1 .. n : i \in 1 .. (n + m)
  BY <1>1
<1> QED
  BY <1>1, <1>2, <1>3, <1>4, <1>5 DEF RowsOf, es

\* Two rows alike but for the call that stored them.
SameRow(r, e) ==
  /\ r.src = e.src /\ r.mode = e.mode /\ r.exit = e.exit /\ r.sha = e.sha
  /\ r.revision = e.revision /\ r.registered = e.registered /\ r.owned = e.owned
  /\ r.req = e.req /\ r.supersedes = e.supersedes /\ r.ran = e.ran

\* A row as its call stores it.
AsStored(e, n, tied) == [e EXCEPT !.call = n, !.tied = tied]

LEMMA NumberedRow ==
  ASSUME NEW e \in Row, NEW n \in Nat, NEW tied \in BOOLEAN
  PROVE  /\ AsStored(e, n, tied) \in Row
         /\ AsStored(e, n, tied).call = n /\ AsStored(e, n, tied).tied = tied
         /\ SameRow(AsStored(e, n, tied), e)
BY DEF Row, SameRow, AsStored

\* Drafts numbered, whichever order they are in.
LEMMA NumberedTyped ==
  ASSUME NEW ds, ChecksOnly(ds), NEW es, DOMAIN es = DOMAIN ds,
         \A i \in DOMAIN ds : \E j \in DOMAIN ds : es[i] = ds[j],
         NEW n \in Nat, NEW tied \in BOOLEAN
  PROVE  LET rs == Numbered(es, n, tied) IN
         /\ RowsOf(rs) /\ DOMAIN rs = DOMAIN ds
         /\ \A i \in DOMAIN rs : /\ rs[i].mode = "deterministic"
                                 /\ rs[i].call = n /\ rs[i].tied = tied
                                 /\ SameRow(rs[i], es[i])
<1> DEFINE rs == Numbered(es, n, tied)
<1>1. DOMAIN ds = 1 .. Len(ds) /\ Len(ds) \in Nat
  BY DEF ChecksOnly
<1>2. rs = [i \in 1 .. Len(ds) |-> AsStored(es[i], n, tied)]
  BY <1>1 DEF Numbered, AsStored
<1> HIDE DEF rs
<1>3. ASSUME NEW i \in 1 .. Len(ds)
      PROVE  /\ rs[i] \in Row /\ rs[i].mode = "deterministic"
             /\ rs[i].call = n /\ rs[i].tied = tied /\ SameRow(rs[i], es[i])
  <2>1. es[i] \in Row /\ es[i].mode = "deterministic"
    BY <1>1 DEF ChecksOnly
  <2>2. rs[i] = AsStored(es[i], n, tied)
    BY <1>2
  <2>3. rs[i] \in Row /\ rs[i].call = n /\ rs[i].tied = tied /\ SameRow(rs[i], es[i])
    <3> DEFINE e == es[i]
    <3>1. e \in Row
      BY <2>1
    <3> HIDE DEF e
    <3>2. /\ AsStored(e, n, tied) \in Row
          /\ AsStored(e, n, tied).call = n /\ AsStored(e, n, tied).tied = tied
          /\ SameRow(AsStored(e, n, tied), e)
      BY <3>1, NumberedRow
    <3> QED
      BY <2>2, <3>2 DEF e
  <2> QED
    BY <2>1, <2>3 DEF SameRow
<1>4. rs \in Seq(Row) /\ DOMAIN rs = 1 .. Len(ds)
  <2>1. DOMAIN rs = 1 .. Len(ds) /\ rs = [i \in 1 .. Len(ds) |-> rs[i]]
    BY <1>2, Zenon
  <2> QED
    BY <1>1, <1>3, <2>1
<1>6. RowsOf(rs)
  BY <1>3, <1>4 DEF RowsOf, Pinned
<1> QED
  BY <1>1, <1>3, <1>4, <1>6 DEF rs

\* What a call stores: its drafts in order, or under one stamp in any order.
LEMMA StoredTyped ==
  ASSUME NEW ds, ChecksOnly(ds), NEW n \in Nat, NEW rs \in Stored(ds, n)
  PROVE  \E es : \E tied \in BOOLEAN :
           /\ rs = Numbered(es, n, tied) /\ DOMAIN es = DOMAIN ds
           /\ \A i \in DOMAIN ds : \E j \in DOMAIN ds : es[i] = ds[j]
           /\ ~tied => es = ds
<1>1. CASE rs = Numbered(ds, n, FALSE)
  BY <1>1
<1>2. CASE \E order \in Orders(DOMAIN ds) :
             rs = Numbered([i \in DOMAIN ds |-> ds[order[i]]], n, TRUE)
  <2>1. PICK order \in Orders(DOMAIN ds) :
          rs = Numbered([i \in DOMAIN ds |-> ds[order[i]]], n, TRUE)
    BY <1>2
  <2>2. \A i \in DOMAIN ds : order[i] \in DOMAIN ds
    BY DEF Orders
  <2> DEFINE es == [i \in DOMAIN ds |-> ds[order[i]]]
  <2>3. DOMAIN es = DOMAIN ds /\ \A i \in DOMAIN ds : es[i] = ds[order[i]]
    OBVIOUS
  <2>4. rs = Numbered(es, n, TRUE)
    BY <2>1
  <2> HIDE DEF es
  <2> QED
    BY <2>2, <2>3, <2>4
<1>3. \/ rs = Numbered(ds, n, FALSE)
      \/ \E order \in Orders(DOMAIN ds) :
           rs = Numbered([i \in DOMAIN ds |-> ds[order[i]]], n, TRUE)
  <2>1. CASE rs \in {Numbered(ds, n, FALSE)}
    BY <2>1
  <2>2. CASE rs \notin {Numbered(ds, n, FALSE)}
    <3>1. rs \in {Numbered([i \in DOMAIN ds |-> ds[order[i]]], n, TRUE) :
                    order \in IF Len(ds) > 1 THEN Orders(DOMAIN ds) ELSE {}}
      BY <2>2, Zenon DEF Stored
    <3> QED
      BY <3>1
  <2> QED
    BY <2>1, <2>2
<1> QED
  BY <1>1, <1>2, <1>3

LEMMA StoredRows ==
  ASSUME NEW ds, ChecksOnly(ds), NEW n \in Nat, NEW rs \in Stored(ds, n)
  PROVE  RowsOf(rs)
<1>1. PICK es : \E tied \in BOOLEAN :
        /\ rs = Numbered(es, n, tied) /\ DOMAIN es = DOMAIN ds
        /\ \A i \in DOMAIN ds : \E j \in DOMAIN ds : es[i] = ds[j]
  BY StoredTyped
<1>2. PICK tied \in BOOLEAN : rs = Numbered(es, n, tied)
  BY <1>1
<1> QED
  BY <1>1, <1>2, NumberedTyped

LEMMA WithDraftTyped ==
  ASSUME NEW c \in Checks, NEW k, k.revision \in Nat, k.req \in STRING, k.supersedes \in Nat,
         ChecksOnly(k.drafts), NEW r \in Results
  PROVE  ChecksOnly(WithDraft(c, k, r))
<1>1. Draft(c, k, r) \in Row /\ Draft(c, k, r).mode = "deterministic"
  BY DraftTyped
<1> QED
  BY <1>1, AppendRows DEF WithDraft

LEMMA ReconcileTyped ==
  ASSUME NEW c \in Checks, NEW k, k.revision \in Nat, k.req \in STRING, k.supersedes \in Nat,
         NEW runs \in Seq(Results), NEW ds, ChecksOnly(ds)
  PROVE  ChecksOnly(ReconcileRuns(c, k, runs, ds))
<1>1. CASE ~Disagree(runs)
  BY <1>1 DEF ReconcileRuns
<1>2. CASE Disagree(runs)
  <2> DEFINE m == Max(SameRevision(runs))
  <2>1. SameRevision(runs) # {}
    BY <1>2 DEF Disagree
  <2>2. SameRevision(runs) \in SUBSET (1 .. Len(runs)) /\ Len(runs) \in Nat
    BY DEF SameRevision
  <2>3. m \in SameRevision(runs)
    BY <2>1, <2>2, MaxOf
  <2> HIDE DEF m
  <2>4. runs[m] \in Results
    BY <2>2, <2>3
  <2> DEFINE flaky == FlakyDraft(c, k, runs[m])
  <2>5. flaky \in Row /\ flaky.mode = "deterministic"
    BY <2>4, DraftTyped
  <2>6. ReconcileRuns(c, k, runs, ds) = Append(ds, flaky)
    BY <1>2 DEF ReconcileRuns, m
  <2> HIDE DEF flaky
  <2> QED
    BY <2>5, <2>6, AppendRows
<1> QED
  BY <1>1, <1>2

LEMMA CallTypes ==
  ASSUME TypeOK, NEW c \in Checks, run[c] # Idle
  PROVE  /\ run[c].revision \in Nat /\ run[c].req \in STRING /\ run[c].supersedes \in Nat
         /\ run[c].runs \in Seq(Results) /\ ChecksOnly(run[c].drafts)
<1>1. run[c] \in DueCall \/ run[c] \in RunningCall
  BY DEF TypeOK
<1> QED
  BY <1>1 DEF DueCall, RunningCall, TypeOK

\* A call that is not idle, by its phase.
LEMMA CallPhase ==
  ASSUME TypeOK, NEW c \in Checks
  PROVE  /\ run[c].phase = "due" => run[c] \in DueCall /\ run[c] # Idle
         /\ run[c].phase = "running" => run[c] \in RunningCall /\ run[c] # Idle
<1>1. Idle.phase = "idle"
  BY DEF Idle
<1>2. run[c] = Idle \/ run[c] \in DueCall \/ run[c] \in RunningCall
  BY DEF TypeOK
<1>3. run[c] \in DueCall => run[c].phase = "due"
  BY DEF DueCall
<1>4. run[c] \in RunningCall => run[c].phase = "running"
  BY DEF RunningCall
<1> QED
  BY <1>1, <1>2, <1>3, <1>4

\* Rows are only added.
Grows == \A i \in DOMAIN evidence : i \in DOMAIN evidence' /\ evidence'[i] = evidence[i]

\* One check's call is changed to a typed one, and typed rows are added.
LEMMA CallStepTypes ==
  ASSUME TypeOK, NEW c \in Checks, NEW k \in {Idle} \cup DueCall \cup RunningCall,
         k # Idle => ChecksOnly(k.drafts),
         run' = [run EXCEPT ![c] = k],
         evidence' = evidence \/ \E rs : RowsOf(rs) /\ evidence' = evidence \o rs,
         UNCHANGED <<head, revision, limits, reviewing>>
  PROVE  TypeOK' /\ Grows
<1>1. RowsOf(evidence') /\ Grows
  <2>1. CASE evidence' = evidence
    BY <2>1 DEF TypeOK, Grows
  <2>2. CASE \E rs : RowsOf(rs) /\ evidence' = evidence \o rs
    <3>1. PICK rs : RowsOf(rs) /\ evidence' = evidence \o rs
      BY <2>2
    <3>2. RowsOf(evidence)
      BY DEF TypeOK
    <3>3. /\ RowsOf(evidence \o rs)
          /\ \A i \in DOMAIN evidence :
               i \in DOMAIN (evidence \o rs) /\ (evidence \o rs)[i] = evidence[i]
      BY <3>1, <3>2, ConcatRows
    <3> QED
      BY <3>1, <3>3 DEF Grows
  <2> QED
    BY <2>1, <2>2
<1>2. run' \in [Checks -> {Idle} \cup DueCall \cup RunningCall]
  BY DEF TypeOK
<1>3. \A d \in Checks : run'[d] = IF d = c THEN k ELSE run[d]
  BY DEF TypeOK
<1>4. \A d \in Checks : run'[d] # Idle => ChecksOnly(run'[d].drafts)
  BY <1>3 DEF TypeOK
<1> QED
  BY <1>1, <1>2, <1>4 DEF TypeOK, ChecksOnly, RowsOf

LEMMA SettleTypes ==
  ASSUME TypeOK, NEW c \in Checks, run[c] # Idle, NEW r \in Results, Settle(c, r),
         UNCHANGED <<head, revision, limits, reviewing>>
  PROVE  TypeOK' /\ Grows
<1> DEFINE k == run[c]
           runs == Append(k.runs, r)
           drafts == WithDraft(c, k, r)
           rows == ReconcileRuns(c, k, runs, drafts)
           next == [phase |-> "due", revision |-> k.revision, runs |-> runs,
                    drafts |-> drafts, supersedes |-> k.supersedes, req |-> k.req]
<1>1. /\ k.revision \in Nat /\ k.req \in STRING /\ k.supersedes \in Nat
      /\ k.runs \in Seq(Results) /\ ChecksOnly(k.drafts)
  BY CallTypes
<1>2. \/ run' = [run EXCEPT ![c] = next] /\ evidence' = evidence
      \/ /\ run' = [run EXCEPT ![c] = Idle]
         /\ \E rs \in Stored(rows, NextCall) : evidence' = evidence \o rs
  BY DEF Settle, Store
<1> HIDE DEF k
<1>3. runs \in Seq(Results)
  BY <1>1
<1> HIDE DEF runs
<1>4. ChecksOnly(drafts)
  BY <1>1, WithDraftTyped
<1> HIDE DEF drafts
<1>5. ChecksOnly(rows)
  BY <1>1, <1>3, <1>4, ReconcileTyped
<1> HIDE DEF rows
<1>6. next \in DueCall /\ next.drafts = drafts
  BY <1>1, <1>3, <1>4 DEF DueCall, ChecksOnly
<1> HIDE DEF next
<1>7. CASE run' = [run EXCEPT ![c] = next] /\ evidence' = evidence
  BY <1>4, <1>6, <1>7, CallStepTypes
<1>8. CASE /\ run' = [run EXCEPT ![c] = Idle]
           /\ \E rs \in Stored(rows, NextCall) : evidence' = evidence \o rs
  <2>1. PICK rs \in Stored(rows, NextCall) : evidence' = evidence \o rs
    BY <1>8
  <2>2. NextCall \in Nat
    BY NextCallIsNat DEF TypeOK
  <2>3. RowsOf(rs)
    BY <1>5, <2>2, StoredRows
  <2> QED
    BY <1>8, <2>1, <2>3, CallStepTypes
<1> QED
  BY <1>2, <1>7, <1>8

LEMMA CallCheckTypes ==
  ASSUME TypeOK, NEW c \in Checks, CallCheck(c), UNCHANGED gateVars
  PROVE  TypeOK' /\ Grows
<1>1. PICK sup \in {0} \cup {i \in DOMAIN evidence : evidence[i].src = c}, req \in limits.reqs :
        run' = [run EXCEPT ![c] = [phase |-> "due", revision |-> revision, runs |-> <<>>,
                                   drafts |-> <<>>, supersedes |-> sup, req |-> req]]
  BY DEF CallCheck
<1> DEFINE k == [phase |-> "due", revision |-> revision, runs |-> <<>>,
                 drafts |-> <<>>, supersedes |-> sup, req |-> req]
<1>2. sup \in Nat /\ req \in STRING /\ revision \in Nat
  BY DEF TypeOK, RowsOf
<1>3. k \in DueCall /\ ChecksOnly(k.drafts)
  BY <1>2 DEF DueCall, ChecksOnly
<1>4. run' = [run EXCEPT ![c] = k]
  BY <1>1
<1>5. UNCHANGED <<head, revision, evidence, limits, reviewing>>
  BY DEF CallCheck, gateVars
<1> HIDE DEF k
<1> QED
  BY <1>3, <1>4, <1>5, CallStepTypes

LEMMA BeginRunTypes ==
  ASSUME TypeOK, NEW c \in Checks, BeginRun(c), UNCHANGED gateVars
  PROVE  TypeOK' /\ Grows
<1>1. UNCHANGED <<head, revision, limits, reviewing>> /\ run[c].phase = "due"
  BY DEF BeginRun, gateVars
<1>2. run[c] \in DueCall /\ run[c] # Idle
  BY <1>1, CallPhase
<1>3. head \in Nat /\ revision \in Nat /\ NoSha = 0
  BY DEF TypeOK, NoSha
<1>4. PICK sha \in {head, NoSha}, cwd \in BOOLEAN :
        IF Runnable(c) /\ sha # NoSha /\ cwd
          THEN /\ run' = [run EXCEPT ![c] =
                            [phase |-> "running", revision |-> run[c].revision,
                             runs |-> run[c].runs, drafts |-> run[c].drafts,
                             supersedes |-> run[c].supersedes, req |-> run[c].req, ran |-> Here]]
               /\ UNCHANGED evidence
          ELSE Settle(c, Result("unavailable", sha, Here))
  BY DEF BeginRun
<1>5. CASE Runnable(c) /\ sha # NoSha /\ cwd
  <2> DEFINE k == [phase |-> "running", revision |-> run[c].revision,
                   runs |-> run[c].runs, drafts |-> run[c].drafts,
                   supersedes |-> run[c].supersedes, req |-> run[c].req, ran |-> Here]
  <2>1. run' = [run EXCEPT ![c] = k] /\ evidence' = evidence
    BY <1>4, <1>5
  <2>2. k \in RunningCall /\ k.drafts = run[c].drafts
    BY <1>2, <1>3, HereIsPlace DEF DueCall, RunningCall
  <2>3. ChecksOnly(run[c].drafts)
    BY <1>2, CallTypes
  <2> HIDE DEF k
  <2> QED
    BY <1>1, <2>1, <2>2, <2>3, CallStepTypes
<1>6. CASE ~(Runnable(c) /\ sha # NoSha /\ cwd)
  <2> DEFINE r == Result("unavailable", sha, Here)
  <2>1. r \in Results
    BY <1>3, HereIsPlace DEF Result, Results, Exits
  <2>2. Settle(c, r)
    BY <1>4, <1>6
  <2> HIDE DEF r
  <2> QED
    BY <1>1, <1>2, <2>1, <2>2, SettleTypes
<1> QED
  BY <1>5, <1>6

LEMMA EndCommandTypes ==
  ASSUME TypeOK, NEW c \in Checks, EndCommand(c), UNCHANGED gateVars
  PROVE  TypeOK' /\ Grows
<1>1. PICK o \in Outcomes :
        Settle(c, Result(RunStatusOf(o[1], o[2]), run[c].ran.sha, run[c].ran))
  BY DEF EndCommand
<1> DEFINE r == Result(RunStatusOf(o[1], o[2]), run[c].ran.sha, run[c].ran)
<1>2. UNCHANGED <<head, revision, limits, reviewing>> /\ run[c].phase = "running"
  BY DEF EndCommand, gateVars
<1>3. run[c] \in RunningCall /\ run[c] # Idle
  BY <1>2, CallPhase
<1>4. RunStatusOf(o[1], o[2]) \in Exits
  BY DEF RunStatusOf, Exits
<1>5. r \in Results
  BY <1>3, <1>4 DEF Result, Results, RunningCall, Places
<1>6. Settle(c, r)
  BY <1>1
<1> HIDE DEF r
<1> QED
  BY <1>2, <1>3, <1>5, <1>6, SettleTypes

\* A single row stored beside the calls.
LEMMA StoreRowTypes ==
  ASSUME TypeOK, NEW d \in Row, Pinned(d), Store(<<d>>),
         UNCHANGED <<head, revision, run, limits>>,
         \/ UNCHANGED reviewing
         \/ \E a \in Reviewers : reviewing' = [reviewing EXCEPT ![a] = Idle]
  PROVE  TypeOK' /\ Grows
<1>1. RowsOf(<<d>>)
  BY DEF RowsOf
<1>2. RowsOf(evidence') /\ Grows
  <2>1. RowsOf(evidence) /\ evidence' = evidence \o <<d>>
    BY DEF TypeOK, Store
  <2>2. /\ RowsOf(evidence \o <<d>>)
        /\ \A i \in DOMAIN evidence : /\ i \in DOMAIN (evidence \o <<d>>)
                                      /\ (evidence \o <<d>>)[i] = evidence[i]
    BY <1>1, <2>1, ConcatRows
  <2> QED
    BY <2>1, <2>2 DEF Grows
<1>3. /\ DOMAIN reviewing' = Reviewers
      /\ \A a \in Reviewers : reviewing'[a] # Idle => reviewing'[a].at \in Places
  BY DEF TypeOK
<1> QED
  BY <1>2, <1>3 DEF TypeOK, RowsOf

\* A row somebody else stores under a check's id.
LEMMA RecordedRow ==
  ASSUME TypeOK, NEW c \in Checks, RecordResult(c)
  PROVE  \E d \in Row :
           /\ Store(<<d>>) /\ d.src = c /\ d.call = NextCall /\ d.mode # "model"
           /\ CheckDef[c].kind = "command" => d.mode = "deterministic"
           /\ d.sha = head /\ d.revision = revision /\ d.ran = Here
<1>1. PICK exit \in {"pass", "fail"}, req \in limits.reqs :
        Store(<<[Draft(c, [revision |-> revision, req |-> req, supersedes |-> 0],
                       Result(exit, head, Here))
                   EXCEPT !.mode = IF CheckDef[c].kind = "human" THEN "human" ELSE "deterministic",
                          !.registered = CheckDef[c].kind = "human",
                          !.call = NextCall]>>)
  BY DEF RecordResult
<1> DEFINE mode == IF CheckDef[c].kind = "human" THEN "human" ELSE "deterministic"
           registered == CheckDef[c].kind = "human"
           d == [Draft(c, [revision |-> revision, req |-> req, supersedes |-> 0],
                       Result(exit, head, Here))
                   EXCEPT !.mode = mode, !.registered = registered, !.call = NextCall]
<1>2. NextCall \in Nat /\ head \in Nat /\ revision \in Nat /\ req \in STRING /\ Here \in Places
  BY NextCallIsNat, HereIsPlace DEF TypeOK
<1>3. mode \in {"human", "deterministic"} /\ registered \in BOOLEAN
  OBVIOUS
<1>4. CheckDef[c].kind = "command" => mode = "deterministic"
  OBVIOUS
<1>5. CheckDef[c].owned \in BOOLEAN
  BY CheckRunsAssumption
<1> HIDE DEF mode, registered
<1>6. d \in Row
  BY <1>2, <1>3, <1>5 DEF Draft, Result, Row, Exits
<1>7. /\ d.src = c /\ d.mode = mode /\ d.sha = head /\ d.revision = revision
      /\ d.ran = Here /\ d.call = NextCall
  BY DEF Draft, Result
<1>8. Store(<<d>>)
  BY <1>1 DEF mode, registered
<1> HIDE DEF d
<1> QED
  BY <1>3, <1>4, <1>6, <1>7, <1>8

\* The row of a review.
LEMMA ReviewRow ==
  ASSUME TypeOK, NEW a \in Reviewers, EndReview(a)
  PROVE  /\ \E d \in Row : /\ Store(<<d>>) /\ Pinned(d) /\ d.src = a /\ d.call = NextCall
                           /\ d.mode = "model" /\ d.ran = [sha |-> d.sha, revision |-> d.revision]
         /\ reviewing' = [reviewing EXCEPT ![a] = Idle]
<1> DEFINE at == reviewing[a].at
<1>0. RecordReview(a, at)
  BY DEF EndReview
<1>1. at \in Places
  BY <1>0 DEF RecordReview, TypeOK
<1> HIDE DEF at
<1>2. PICK open \in BOOLEAN : Store(<<ReviewToEvidence(a, open, at, reviewing[a].at)>>)
  <2>1. PICK suggested \in Severities, grade \in Severities \ {"none"} :
          Store(<<ReviewToEvidence(a, Blocking(Graded(suggested, grade)), at, reviewing[a].at)>>)
    BY <1>0 DEF RecordReview
  <2>2. Blocking(Graded(suggested, grade)) \in BOOLEAN
    BY DEF Blocking
  <2> QED
    BY <2>1, <2>2
<1> DEFINE d == ReviewToEvidence(a, open, at, at)
           exit == IF open THEN "fail" ELSE "pass"
<1>3. a \in Attempts /\ NextCall \in Nat /\ exit \in Exits
  BY TaskGateAssumption, NextCallIsNat DEF TypeOK, Exits
<1>4. d = [src |-> a, mode |-> "model", exit |-> exit, sha |-> at.sha,
           revision |-> at.revision, registered |-> TRUE, owned |-> FALSE, req |-> "none",
           supersedes |-> 0, ran |-> at, tied |-> FALSE, call |-> NextCall]
  BY DEF ReviewToEvidence
<1>5. Store(<<d>>)
  BY <1>2 DEF at
<1> HIDE DEF d, exit
<1>6. d \in Row
  <2>1. at.sha \in Nat /\ at.revision \in Nat
    BY <1>1 DEF Places
  <2> QED
    BY <1>1, <1>3, <1>4, <2>1 DEF Row
<1>7. /\ d.src = a /\ d.call = NextCall /\ d.mode = "model"
      /\ d.ran = [sha |-> d.sha, revision |-> d.revision]
  BY <1>1, <1>4 DEF Places
<1>8. reviewing' = [reviewing EXCEPT ![a] = Idle]
  BY <1>0 DEF RecordReview
<1> QED
  BY <1>5, <1>6, <1>7, <1>8 DEF Pinned

LEMMA TypeOKInit == GateInit => TypeOK
<1> SUFFICES ASSUME GateInit PROVE TypeOK
  OBVIOUS
<1>1. limits.reqs \subseteq STRING
  BY TaskGateAssumption DEF GateInit
<1> QED
  BY <1>1 DEF GateInit, CheckInit, TypeOK, RowsOf

LEMMA TypeOKUnchanged ==
  ASSUME TypeOK, UNCHANGED <<revision, evidence, run, limits, reviewing>>, head' \in Nat
  PROVE  TypeOK' /\ Grows
BY DEF TypeOK, RowsOf, ChecksOnly, Grows

LEMMA TypeOKNext ==
  ASSUME TypeOK, [Next]_vars
  PROVE  TypeOK' /\ Grows
<1>0. head \in Nat
  BY DEF TypeOK
<1> USE DEF gateVars, checkVars, configVars
<1>1. CASE \E c \in Checks : CallCheck(c) /\ UNCHANGED gateVars
  BY <1>1, CallCheckTypes
<1>2. CASE \E c \in Checks : BeginRun(c) /\ UNCHANGED gateVars
  BY <1>2, BeginRunTypes
<1>3. CASE \E c \in Checks : EndCommand(c) /\ UNCHANGED gateVars
  BY <1>3, EndCommandTypes
<1>4. CASE \E c \in Checks : RecordResult(c) /\ UNCHANGED gateVars
  <2>1. PICK c \in Checks : RecordResult(c) /\ UNCHANGED gateVars
    BY <1>4
  <2>2. PICK d \in Row : Store(<<d>>) /\ Pinned(d)
    BY <2>1, RecordedRow DEF Pinned
  <2>3. UNCHANGED <<head, revision, run, limits, reviewing>>
    BY <2>1 DEF RecordResult
  <2> QED
    BY <2>2, <2>3, StoreRowTypes
<1>5. CASE MoveHead /\ UNCHANGED gateVars
  <2>1. head' \in Nat
    BY <1>5, CheckRunsAssumption DEF MoveHead
  <2> QED
    BY <1>5, <2>1, TypeOKUnchanged DEF MoveHead
<1>6. CASE \E ch \in ChangeSets : InvalidateStaleEvidence(ch) /\ UNCHANGED gateVars
  BY <1>0, <1>6, TypeOKUnchanged DEF InvalidateStaleEvidence
<1>7. CASE \E a \in Reviewers : BeginReview(a)
  <2>1. PICK a \in Reviewers, recheck \in {0} \cup DOMAIN reviews :
          reviewing' = [reviewing EXCEPT ![a] =
                          [phase |-> "reviewing", at |-> Here, rechecks |-> recheck]]
    BY <1>7 DEF BeginReview
  <2>2. UNCHANGED <<head, revision, evidence, run, limits>>
    BY <1>7 DEF BeginReview
  <2>3. Here \in Places
    BY HereIsPlace DEF TypeOK
  <2> QED
    BY <2>1, <2>2, <2>3 DEF TypeOK, RowsOf, ChecksOnly, Grows
<1>8. CASE \E a \in Reviewers : EndReview(a)
  <2>1. PICK a \in Reviewers : EndReview(a)
    BY <1>8
  <2>2. PICK d \in Row : Store(<<d>>) /\ Pinned(d)
    BY <2>1, ReviewRow
  <2>3. UNCHANGED <<head, revision, run, limits>>
    BY <2>1 DEF EndReview, RecordReview
  <2> QED
    BY <2>1, <2>2, <2>3, ReviewRow, StoreRowTypes
<1>9. CASE \E i \in DOMAIN reviews : DisposeFinding(i)
  BY <1>0, <1>9, TypeOKUnchanged DEF DisposeFinding
<1>10. CASE BeginEvaluation \/ FinishEvaluation
  BY <1>0, <1>10, TypeOKUnchanged DEF BeginEvaluation, FinishEvaluation
<1>11. CASE Approve \/ ApprovalLapses \/ EnterReview \/ CompleteTask
  BY <1>0, <1>11, TypeOKUnchanged DEF Approve, ApprovalLapses, EnterReview, CompleteTask
<1>12. CASE Resubmit
  BY <1>12 DEF Resubmit, TypeOK, RowsOf, ChecksOnly, Grows
<1>13. CASE UNCHANGED vars
  BY <1>0, <1>13, TypeOKUnchanged DEF vars
<1> QED
  BY <1>1, <1>2, <1>3, <1>4, <1>5, <1>6, <1>7, <1>8, <1>9, <1>10, <1>11, <1>12, <1>13 DEF Next

-----------------------------------------------------------------------------
(* What is stored, and what a call in flight may still store, at task        *)
(* revision v: where HEAD is does not matter.                                *)

\* The row of a registered command was run where the row says, at no earlier
\* revision than the row's.
RowOK(r, v) ==
  /\ (r.registered /\ r.mode # "model") =>
       r.ran.sha = r.sha /\ r.revision <= r.ran.revision /\ r.ran.revision <= v
  /\ (r.src \in Checks /\ CheckDef[r.src].kind = "command") => r.mode = "deterministic"

\* Two rows of one call at one commit, read in the order of its runs, do not
\* end in a pass.
NoSecondPass(ev) ==
  \A i, j \in DOMAIN ev :
    (i < j /\ ev[i].call = ev[j].call /\ ev[i].sha = ev[j].sha /\ ev[j].exit = "pass"
       /\ ~ev[j].tied) =>
      \E k \in DOMAIN ev :
        /\ j < k /\ ev[k].src = ev[j].src /\ ev[k].sha = ev[j].sha
        /\ ev[k].revision = ev[j].revision /\ ev[k].registered

EvidenceOK(ev, v) ==
  /\ \A i \in DOMAIN ev : RowOK(ev[i], v)
  /\ \A i, j \in DOMAIN ev : i < j => ev[i].call <= ev[j].call
  /\ \E m \in Nat : {ev[i].call : i \in DOMAIN ev} = 1..m
  /\ NoSecondPass(ev)

\* A run of the call k, pinned to the commit sha.
PinOK(k, sha, ran, v) == ran.sha = sha /\ k.revision <= ran.revision /\ ran.revision <= v

\* With at most one rerun, a call in flight holds no run or a failed one, which
\* was pinned.
CallOK(c, k, v) ==
  /\ k.revision <= v
  /\ \/ k.runs = <<>> /\ k.drafts = <<>>
     \/ \E r \in Results : /\ k.runs = <<r>> /\ k.drafts = <<Draft(c, k, r)>>
                           /\ r.status \in {"fail", "timeout"} /\ r.sha # NoSha
                           /\ PinOK(k, r.sha, r.ran, v)
  /\ k.phase = "running" => k.ran.sha # NoSha /\ PinOK(k, k.ran.sha, k.ran, v)

CallsOK == \A c \in Checks : run[c] # Idle => CallOK(c, run[c], revision)

RowsInv == TypeOK /\ EvidenceOK(evidence, revision) /\ CallsOK

-----------------------------------------------------------------------------
(* The gate on such rows. *)

\* The rows that FlakyHoldsGate looks at.
RowsHere(c) == {i \in DOMAIN evidence :
                  /\ evidence[i].src = c /\ evidence[i].registered
                  /\ evidence[i].sha = head /\ evidence[i].revision = revision}
LastHere(c) == {i \in RowsHere(c) : \A j \in RowsHere(c) : evidence[j].call <= evidence[i].call}

\* gateCheckState: what passes is a row of the check that was run here, and no
\* row of it here comes later, unless it is superseded.
LEMMA PassIsLastRow ==
  ASSUME TypeOK, EvidenceOK(evidence, revision),
         NEW c \in Checks, CheckDef[c].kind = "command", GateCheckState(c) = "pass"
  PROVE  LET l == LatestResultFor(c) IN
         /\ l \in RowsHere(c) /\ evidence[l].exit = "pass" /\ evidence[l].ran = Here
         /\ \A i \in RowsHere(c) : i \notin SupersededIds => i <= l
<1> DEFINE rows == {i \in Fresh : evidence[i].src = c /\ evidence[i].mode = "deterministic"}
           l == LatestResultFor(c)
<1>1. l = IF rows = {} THEN 0 ELSE Max(rows)
  BY DEF LatestResultFor
<1>2. l # 0 /\ evidence[l].exit = "pass" /\ evidence[l].registered
  BY DEF GateCheckState
<1>3. rows \in SUBSET (1..Len(evidence)) /\ Len(evidence) \in Nat
  BY DEF Fresh, TypeOK, RowsOf
<1>4. /\ rows # {} /\ l \in rows /\ \A y \in rows : y <= l
      /\ evidence[l].mode = "deterministic"
  BY <1>1, <1>2, <1>3, MaxOf
<1>5. l \in RowsHere(c)
  BY <1>2, <1>4 DEF Fresh, RowsHere
<1>6. evidence[l].ran = Here
  <2>1. l \in DOMAIN evidence /\ evidence[l].sha = head /\ evidence[l].revision = revision
    BY <1>5 DEF RowsHere
  <2>2. evidence[l] \in Row /\ revision \in Nat
    BY <2>1 DEF TypeOK, RowsOf
  <2>3. evidence[l].ran \in Places
    BY <2>2 DEF Row
  <2>4. evidence[l].ran.sha = head /\ evidence[l].ran.revision = revision
    <3>1. RowOK(evidence[l], revision)
      BY <2>1 DEF EvidenceOK
    <3>2. evidence[l].ran.revision \in Nat
      BY <2>3 DEF Places
    <3> QED
      BY <1>2, <1>4, <2>1, <2>2, <3>1, <3>2 DEF RowOK
  <2> QED
    BY <2>3, <2>4 DEF Places, Here
<1>7. ASSUME NEW i \in RowsHere(c), i \notin SupersededIds PROVE i <= l
  <2>1. i \in rows
    BY <1>7 DEF Fresh, RowsHere, EvidenceOK, RowOK
  <2> QED
    BY <1>4, <2>1
<1> QED
  BY <1>2, <1>5, <1>6, <1>7

\* The checks' half of what a done task needs, whatever its status.
Stands(c) ==
  /\ \E i \in DOMAIN evidence :
       /\ evidence[i].src = c /\ evidence[i].exit = "pass" /\ evidence[i].registered
       /\ evidence[i].ran = Here
  /\ \/ {evidence[i].exit : i \in LastHere(c)} = {"pass"}
     \/ \E i \in LastHere(c) :
          evidence[i].tied \/ \E j \in DOMAIN evidence : evidence[j].supersedes = i

ChecksStand == \A c \in Checks : CheckDef[c].kind = "command" => Stands(c)

LEMMA CarryIsStand == ChecksCarryGate <=> (status = "done" => ChecksStand)
BY DEF ChecksCarryGate, CheckedAtHead, FlakyHoldsGate, ChecksStand, Stands, RowsHere, LastHere

LEMMA GateStands ==
  ASSUME TypeOK, EvidenceOK(evidence, revision), C1
  PROVE  ChecksStand
<1> SUFFICES ASSUME NEW c \in Checks, CheckDef[c].kind = "command" PROVE Stands(c)
  BY DEF ChecksStand
<1> DEFINE l == LatestResultFor(c)
           rows == RowsHere(c)
           last == LastHere(c)
<1>1. /\ l \in rows /\ evidence[l].exit = "pass" /\ evidence[l].ran = Here
      /\ \A i \in rows : i \notin SupersededIds => i <= l
  BY PassIsLastRow DEF C1
<1> HIDE DEF l
<1>2. \A i \in rows : i \in DOMAIN evidence /\ i \in Nat /\ i # 0 /\ evidence[i].call \in Nat
  <2>1. \A i \in rows : i \in DOMAIN evidence /\ i \in Nat /\ i # 0 /\ evidence[i] \in Row
    BY DEF RowsHere, TypeOK, RowsOf
  <2> QED
    BY <2>1 DEF Row
<1>3. \E i \in DOMAIN evidence :
        /\ evidence[i].src = c /\ evidence[i].exit = "pass" /\ evidence[i].registered
        /\ evidence[i].ran = Here
  BY <1>1 DEF RowsHere
<1>4. ASSUME \A i \in last :
               ~evidence[i].tied /\ ~\E j \in DOMAIN evidence : evidence[j].supersedes = i
      PROVE  {evidence[i].exit : i \in last} = {"pass"}
  <2> DEFINE p == Max(rows)
  <2>1. rows \in SUBSET (1..Len(evidence)) /\ rows # {} /\ Len(evidence) \in Nat
    BY <1>1 DEF RowsHere, TypeOK, RowsOf
  <2>2. p \in rows /\ \A i \in rows : i <= p
    BY <2>1, MaxOf
  <2> HIDE DEF p
  <2>3. \A i \in rows : evidence[i].call <= evidence[p].call
    <3> SUFFICES ASSUME NEW i \in rows PROVE evidence[i].call <= evidence[p].call
      OBVIOUS
    <3>1. i = p \/ i < p
      BY <1>2, <2>2
    <3>2. i < p => evidence[i].call <= evidence[p].call
      BY <1>2, <2>2 DEF EvidenceOK
    <3> QED
      BY <1>2, <2>2, <3>1, <3>2
  <2>4. p \in last
    BY <2>2, <2>3 DEF LastHere
  <2>5. p = l
    <3>1. p \notin SupersededIds
      BY <1>4, <2>4 DEF SupersededIds
    <3>2. p <= l /\ l <= p /\ p \in Nat /\ l \in Nat
      BY <1>1, <1>2, <2>2, <3>1
    <3> QED
      BY <3>2
  <2>6. ASSUME NEW i \in last PROVE i = l
    <3>1. i \in rows /\ evidence[i].call = evidence[l].call
      BY <1>1, <1>2, <2>3, <2>5, <2>6 DEF LastHere
    <3>2. SUFFICES ASSUME i < l PROVE FALSE
      BY <1>1, <1>2, <2>2, <2>5, <3>1
    <3>3. evidence[i].sha = evidence[l].sha /\ ~evidence[l].tied
      BY <1>1, <1>4, <2>4, <2>5, <3>1 DEF RowsHere
    <3>4. PICK k \in DOMAIN evidence :
            /\ l < k /\ evidence[k].src = evidence[l].src /\ evidence[k].sha = evidence[l].sha
            /\ evidence[k].revision = evidence[l].revision /\ evidence[k].registered
      BY <1>1, <1>2, <3>1, <3>2, <3>3 DEF EvidenceOK, NoSecondPass
    <3>5. k \in rows
      BY <1>1, <3>4 DEF RowsHere
    <3> QED
      BY <1>1, <1>2, <2>2, <2>5, <3>4, <3>5
  <2>7. last = {l}
    BY <2>4, <2>5, <2>6
  <2> QED
    BY <1>1, <2>7
<1> QED
  BY <1>3, <1>4 DEF Stands

-----------------------------------------------------------------------------
(* Storing a batch of rows. *)

\* The next call's number is above those of the rows there are.
LEMMA NextCallAbove ==
  ASSUME EvidenceOK(evidence, revision)
  PROVE  /\ NextCall \in Nat \ {0}
         /\ {evidence[i].call : i \in DOMAIN evidence} = 1 .. (NextCall - 1)
<1>1. PICK m \in Nat : {evidence[i].call : i \in DOMAIN evidence} = 1..m
  BY DEF EvidenceOK
<1>2. Cardinality(1..m) = m
  BY FS_Interval
<1>3. NextCall = 1 + m
  BY <1>1, <1>2 DEF NextCall
<1> QED
  BY <1>1, <1>3

\* The rows a call stores in one go.
BatchOK(rs) ==
  /\ RowsOf(rs)
  /\ \A i \in DOMAIN rs : RowOK(rs[i], revision) /\ rs[i].call = NextCall
  /\ NoSecondPass(rs)

LEMMA StoreKeeps ==
  ASSUME TypeOK, EvidenceOK(evidence, revision), NEW rs, BatchOK(rs)
  PROVE  EvidenceOK(evidence \o rs, revision)
<1> DEFINE ev == evidence \o rs
           n == Len(evidence)
           m == Len(rs)
<1>1. /\ evidence \in Seq(Row) /\ rs \in Seq(Row) /\ n \in Nat /\ m \in Nat
      /\ DOMAIN evidence = 1..n /\ DOMAIN rs = 1..m
  BY DEF TypeOK, BatchOK, RowsOf
<1>2. ev \in Seq(Row) /\ Len(ev) = n + m /\ DOMAIN ev = 1..(n + m)
  BY <1>1
<1>3. \A i \in 1..n : ev[i] = evidence[i]
  BY <1>1
<1>4. \A i \in 1..m : ev[n + i] = rs[i]
  BY <1>1
<1> HIDE DEF ev, n, m
<1>5. \A i \in 1..(n + m) : i \in 1..n \/ \E j \in 1..m : i = n + j
  <2> SUFFICES ASSUME NEW i \in 1..(n + m), i \notin 1..n PROVE \E j \in 1..m : i = n + j
    OBVIOUS
  <2>1. i - n \in 1..m /\ i = n + (i - n)
    BY <1>1
  <2> QED
    BY <2>1
<1>6. \A i \in 1..n : i \in 1..(n + m)
  BY <1>1
<1>7. \A i \in 1..m : n + i \in 1..(n + m) /\ n < n + i
  BY <1>1
<1>8. ASSUME NEW i \in 1..(n + m) PROVE RowOK(ev[i], revision)
  <2>1. CASE i \in 1..n
    BY <1>1, <1>3, <2>1 DEF EvidenceOK
  <2>2. CASE i \notin 1..n
    <3>1. PICK j \in 1..m : i = n + j
      BY <1>5, <2>2
    <3>2. RowOK(rs[j], revision)
      BY <1>1 DEF BatchOK
    <3> QED
      BY <1>4, <3>1, <3>2
  <2> QED
    BY <2>1, <2>2
<1>10. /\ NextCall \in Nat \ {0}
       /\ \A i \in 1..n : ev[i].call \in 1..(NextCall - 1)
       /\ \A c \in 1..(NextCall - 1) : \E i \in 1..n : ev[i].call = c
       /\ \A i \in 1..m : ev[n + i].call = NextCall
  <2>1. NextCall \in Nat \ {0} /\ {evidence[i].call : i \in DOMAIN evidence} = 1..(NextCall - 1)
    BY NextCallAbove
  <2>2. \A i \in 1..n : evidence[i].call \in 1..(NextCall - 1)
    BY <1>1, <2>1
  <2>3. \A c \in 1..(NextCall - 1) : \E i \in 1..n : evidence[i].call = c
    BY <1>1, <2>1
  <2>4. \A i \in 1..m : rs[i].call = NextCall
    BY <1>1 DEF BatchOK
  <2> QED
    BY <1>3, <1>4, <2>1, <2>2, <2>3, <2>4
<1>11. \A i, j \in 1..(n + m) : i < j => ev[i].call <= ev[j].call
  <2> SUFFICES ASSUME NEW i \in 1..(n + m), NEW j \in 1..(n + m), i < j
               PROVE  ev[i].call <= ev[j].call
    OBVIOUS
  <2>1. CASE i \in 1..n /\ j \in 1..n
    BY <1>1, <1>3, <2>1 DEF EvidenceOK
  <2>2. CASE i \in 1..n /\ j \notin 1..n
    <3>1. ev[j].call = NextCall /\ ev[i].call \in 1..(NextCall - 1)
      BY <1>5, <1>10, <2>2
    <3> QED
      BY <1>10, <3>1
  <2>3. CASE i \notin 1..n
    <3>1. j \notin 1..n
      BY <1>1, <2>3
    <3>2. ev[i].call = NextCall /\ ev[j].call = NextCall
      BY <1>5, <1>10, <2>3, <3>1
    <3> QED
      BY <1>10, <3>2
  <2> QED
    BY <2>1, <2>2, <2>3
<1>12. \E c \in Nat : {ev[i].call : i \in 1..(n + m)} = 1..c
  <2>1. CASE m = 0
    <3>1. {ev[i].call : i \in 1..(n + m)} = {evidence[i].call : i \in DOMAIN evidence}
      BY <1>1, <1>3, <2>1
    <3> QED
      BY <3>1 DEF EvidenceOK
  <2>2. CASE m # 0
    <3>1. \A i \in 1..(n + m) : ev[i].call \in 1..NextCall
      <4> SUFFICES ASSUME NEW i \in 1..(n + m) PROVE ev[i].call \in 1..NextCall
        OBVIOUS
      <4>1. CASE i \in 1..n
        BY <1>10, <4>1
      <4>2. CASE i \notin 1..n
        <5>1. ev[i].call = NextCall
          BY <1>5, <1>10, <4>2
        <5> QED
          BY <1>10, <5>1
      <4> QED
        BY <4>1, <4>2
    <3>2. \A c \in 1..NextCall : \E i \in 1..(n + m) : ev[i].call = c
      <4> SUFFICES ASSUME NEW c \in 1..NextCall PROVE \E i \in 1..(n + m) : ev[i].call = c
        OBVIOUS
      <4>1. c \in 1..(NextCall - 1) \/ c = NextCall
        BY <1>10
      <4>2. 1 \in 1..m
        BY <1>1, <2>2
      <4> QED
        BY <1>6, <1>7, <1>10, <4>1, <4>2
    <3>3. {ev[i].call : i \in 1..(n + m)} = 1..NextCall
      BY <3>1, <3>2
    <3> QED
      BY <1>10, <3>3
  <2> QED
    BY <2>1, <2>2
<1>13. NoSecondPass(ev)
  <2> SUFFICES ASSUME NEW i \in 1..(n + m), NEW j \in 1..(n + m), i < j,
                      ev[i].call = ev[j].call, ev[i].sha = ev[j].sha, ev[j].exit = "pass",
                      ~ev[j].tied
               PROVE  \E k \in 1..(n + m) :
                        /\ j < k /\ ev[k].src = ev[j].src /\ ev[k].sha = ev[j].sha
                        /\ ev[k].revision = ev[j].revision /\ ev[k].registered
    BY <1>2 DEF NoSecondPass
  <2>1. CASE i \in 1..n /\ j \in 1..n
    <3>a. NoSecondPass(evidence) /\ DOMAIN evidence = 1..n
      BY <1>1 DEF EvidenceOK
    <3>b. ev[i] = evidence[i] /\ ev[j] = evidence[j]
      BY <1>3, <2>1
    <3>1. PICK k \in 1..n :
            /\ j < k /\ evidence[k].src = evidence[j].src /\ evidence[k].sha = evidence[j].sha
            /\ evidence[k].revision = evidence[j].revision /\ evidence[k].registered
      BY <2>1, <3>a, <3>b DEF NoSecondPass
    <3>2. k \in 1..(n + m) /\ ev[k] = evidence[k] /\ ev[j] = evidence[j]
      BY <1>3, <1>6, <2>1
    <3> QED
      BY <3>1, <3>2
  <2>2. CASE i \in 1..n /\ j \notin 1..n
    <3>1. ev[i].call \in 1..(NextCall - 1) /\ ev[j].call = NextCall
      BY <1>5, <1>10, <2>2
    <3> QED
      BY <1>10, <3>1
  <2>3. CASE i \notin 1..n
    <3>1. j \notin 1..n
      BY <1>1, <2>3
    <3>2. PICK a \in 1..m : i = n + a
      BY <1>5, <2>3
    <3>3. PICK b \in 1..m : j = n + b
      BY <1>5, <3>1
    <3>4. a < b /\ rs[a].call = rs[b].call /\ rs[a].sha = rs[b].sha /\ rs[b].exit = "pass"
          /\ ~rs[b].tied
      BY <1>1, <1>4, <3>2, <3>3
    <3>5. PICK k \in 1..m :
            /\ b < k /\ rs[k].src = rs[b].src /\ rs[k].sha = rs[b].sha
            /\ rs[k].revision = rs[b].revision /\ rs[k].registered
      BY <1>1, <3>4 DEF BatchOK, NoSecondPass
    <3>6. n + k \in 1..(n + m) /\ j < n + k
      BY <1>1, <3>3, <3>5
    <3> QED
      BY <1>4, <3>3, <3>5, <3>6
  <2> QED
    BY <2>1, <2>2, <2>3
<1>14. EvidenceOK(ev, revision)
  BY <1>2, <1>8, <1>11, <1>12, <1>13 DEF EvidenceOK
<1> QED
  BY <1>14 DEF ev

-----------------------------------------------------------------------------
(* What a call that ends stores. *)

LEMMA AppendToOne ==
  ASSUME NEW x, NEW y
  PROVE  Append(<<x>>, y) = <<x, y>>
<1> DEFINE s == <<x>>
           t == Append(s, y)
           u == <<x, y>>
<1>1. s \in Seq({x, y}) /\ Len(s) = 1 /\ s[1] = x
  OBVIOUS
<1>2. t \in Seq({x, y}) /\ Len(t) = 2 /\ t[1] = x /\ t[2] = y
  BY <1>1
<1>3. u \in Seq({x, y}) /\ Len(u) = 2 /\ u[1] = x /\ u[2] = y
  OBVIOUS
<1> HIDE DEF t, u
<1>4. \A i \in 1..2 : t[i] = u[i]
  BY <1>2, <1>3
<1>5. t = u
  BY <1>2, <1>3, <1>4, SeqEqual
<1> QED
  BY <1>5 DEF t, u

LEMMA AppendToTwo ==
  ASSUME NEW x, NEW y, NEW z
  PROVE  Append(<<x, y>>, z) = <<x, y, z>>
<1> DEFINE s == <<x, y>>
           t == Append(s, z)
           u == <<x, y, z>>
<1>1. s \in Seq({x, y, z}) /\ Len(s) = 2 /\ s[1] = x /\ s[2] = y
  OBVIOUS
<1>2. t \in Seq({x, y, z}) /\ Len(t) = 3 /\ t[1] = x /\ t[2] = y /\ t[3] = z
  BY <1>1
<1>3. u \in Seq({x, y, z}) /\ Len(u) = 3 /\ u[1] = x /\ u[2] = y /\ u[3] = z
  OBVIOUS
<1> HIDE DEF t, u
<1>4. \A i \in 1..3 : t[i] = u[i]
  BY <1>2, <1>3
<1>5. t = u
  BY <1>2, <1>3, <1>4, SeqEqual
<1> QED
  BY <1>5 DEF t, u

\* A draft of the call k of check c, and the drafts it may end with.
DraftOK(c, k, d) ==
  /\ d \in Row /\ d.src = c /\ d.mode = "deterministic" /\ d.revision = k.revision
  /\ d.registered
  /\ PinOK(k, d.sha, d.ran, revision)

DraftsOK(c, k, ds) ==
  /\ ds \in Seq(Row)
  /\ \A i \in DOMAIN ds : DraftOK(c, k, ds[i])
  /\ \A i, j \in DOMAIN ds :
       (i < j /\ ds[i].sha = ds[j].sha /\ ds[j].exit = "pass") =>
         \E l \in DOMAIN ds : j < l /\ ds[l].sha = ds[j].sha

LEMMA DraftIsOK ==
  ASSUME NEW c \in Checks, NEW k, k.revision \in Nat, k.req \in STRING, k.supersedes \in Nat,
         NEW r \in Results, PinOK(k, r.sha, r.ran, revision)
  PROVE  /\ DraftOK(c, k, Draft(c, k, r))
         /\ DraftOK(c, k, FlakyDraft(c, k, r))
         /\ Draft(c, k, r).sha = r.sha /\ Draft(c, k, r).exit = r.status
         /\ FlakyDraft(c, k, r).sha = r.sha
         /\ FlakyDraft(c, k, r).exit = "flaky"
<1> DEFINE d == Draft(c, k, r)
           f == FlakyDraft(c, k, r)
<1>1. d \in Row /\ f \in Row
  BY DraftTyped
<1>2. /\ d.src = c /\ d.mode = "deterministic" /\ d.revision = k.revision /\ d.registered
      /\ d.sha = r.sha /\ d.ran = r.ran /\ d.exit = r.status
  BY DEF Draft
<1>3. /\ f.src = c /\ f.mode = "deterministic" /\ f.revision = k.revision /\ f.registered
      /\ f.sha = r.sha /\ f.ran = r.ran /\ f.exit = "flaky"
  BY DEF Draft, FlakyDraft
<1> HIDE DEF d, f
<1>4. DraftOK(c, k, d) /\ DraftOK(c, k, f)
  BY <1>1, <1>2, <1>3 DEF DraftOK
<1> QED
  BY <1>2, <1>3, <1>4 DEF d, f

LEMMA StoredIsBatch ==
  ASSUME TypeOK, EvidenceOK(evidence, revision),
         NEW c \in Checks, NEW k, NEW ds, DraftsOK(c, k, ds), NEW rs \in Stored(ds, NextCall)
  PROVE  BatchOK(rs)
<1>1. ChecksOnly(ds) /\ NextCall \in Nat
  BY NextCallAbove DEF DraftsOK, DraftOK, ChecksOnly
<1>2. PICK es : \E tied \in BOOLEAN :
        /\ rs = Numbered(es, NextCall, tied) /\ DOMAIN es = DOMAIN ds
        /\ \A i \in DOMAIN ds : \E j \in DOMAIN ds : es[i] = ds[j]
        /\ ~tied => es = ds
  BY <1>1, StoredTyped
<1>3. PICK tied \in BOOLEAN : rs = Numbered(es, NextCall, tied) /\ (~tied => es = ds)
  BY <1>2
<1>4. /\ RowsOf(rs) /\ DOMAIN rs = DOMAIN ds
      /\ \A i \in DOMAIN rs : /\ rs[i].mode = "deterministic"
                              /\ rs[i].call = NextCall /\ rs[i].tied = tied
                              /\ SameRow(rs[i], es[i])
  BY <1>1, <1>2, <1>3, NumberedTyped
<1>5. ASSUME NEW i \in DOMAIN rs PROVE RowOK(rs[i], revision)
  <2>1. PICK j \in DOMAIN ds : es[i] = ds[j]
    BY <1>2, <1>4
  <2>2. DraftOK(c, k, ds[j]) /\ SameRow(rs[i], ds[j])
    BY <1>4, <2>1 DEF DraftsOK
  <2> QED
    BY <2>2 DEF DraftOK, SameRow, RowOK, PinOK
<1>6. NoSecondPass(rs)
  <2> SUFFICES ASSUME NEW i \in DOMAIN rs, NEW j \in DOMAIN rs,
                      i < j, rs[i].sha = rs[j].sha, rs[j].exit = "pass", ~rs[j].tied
               PROVE  \E l \in DOMAIN rs :
                        /\ j < l /\ rs[l].src = rs[j].src /\ rs[l].sha = rs[j].sha
                        /\ rs[l].revision = rs[j].revision /\ rs[l].registered
    BY DEF NoSecondPass
  <2>1. \A l \in DOMAIN rs : SameRow(rs[l], ds[l]) /\ DraftOK(c, k, ds[l])
    BY <1>3, <1>4 DEF DraftsOK
  <2>2. ds[i].sha = ds[j].sha /\ ds[j].exit = "pass"
    BY <2>1 DEF SameRow
  <2>3. PICK l \in DOMAIN ds : j < l /\ ds[l].sha = ds[j].sha
    BY <1>4, <2>2 DEF DraftsOK
  <2>4. /\ rs[l].src = rs[j].src /\ rs[l].sha = rs[j].sha
        /\ rs[l].revision = rs[j].revision /\ rs[l].registered
    BY <1>4, <2>1, <2>3 DEF SameRow, DraftOK
  <2> QED
    BY <1>4, <2>3, <2>4
<1> QED
  BY <1>4, <1>5, <1>6 DEF BatchOK

\* The call's runs and drafts once the result r of a run is in.
RunsWith(k, r) == Append(k.runs, r)
RowsWith(c, k, r) == ReconcileRuns(c, k, RunsWith(k, r), WithDraft(c, k, r))

\* The first run: nothing to disagree with.
LEMMA FirstRun ==
  ASSUME NEW c \in Checks, NEW k, k.revision \in Nat, k.req \in STRING,
         k.supersedes \in Nat, k.runs = <<>>, k.drafts = <<>>,
         NEW r \in Results,
         r.sha # NoSha => PinOK(k, r.sha, r.ran, revision)
  PROVE  /\ RunsWith(k, r) = <<r>>
         /\ RerunDue(RunsWith(k, r)) => r.status \in {"fail", "timeout"}
         /\ r.sha # NoSha => WithDraft(c, k, r) = <<Draft(c, k, r)>>
         /\ WithDraft(c, k, r) \in Seq(Row)
         /\ DraftsOK(c, k, RowsWith(c, k, r))
<1> DEFINE d == Draft(c, k, r)
<1>1. RunsWith(k, r) = <<r>>
  BY DEF RunsWith
<1>2. RerunDue(<<r>>) => r.status \in {"fail", "timeout"}
  BY DEF RerunDue
<1>3. ~Disagree(<<r>>)
  <2>1. {<<r>>[i].status : i \in SameRevision(<<r>>)} \in {{}, {r.status}}
    BY DEF SameRevision
  <2> QED
    BY <2>1 DEF Disagree
<1>4. WithDraft(c, k, r) = IF r.sha = NoSha THEN <<>> ELSE <<d>>
  BY DEF WithDraft
<1>5. r.sha # NoSha => DraftOK(c, k, d)
  BY DraftIsOK
<1> HIDE DEF d
<1>6. r.sha # NoSha => d \in Row
  BY <1>5 DEF DraftOK
<1>7. RowsWith(c, k, r) = WithDraft(c, k, r)
  BY <1>1, <1>3 DEF RowsWith, ReconcileRuns
<1>8. DraftsOK(c, k, <<>>)
  BY DEF DraftsOK
<1>9. r.sha # NoSha => DraftsOK(c, k, <<d>>)
  BY <1>5, <1>6 DEF DraftsOK
<1> QED
  BY <1>1, <1>2, <1>4, <1>6, <1>7, <1>8, <1>9 DEF d

\* The rerun of a failed run q: if it passed at the same commit, a row that does
\* not pass comes last.
LEMMA SecondRun ==
  ASSUME MaxReruns <= 1,
         NEW c \in Checks, NEW k, k.revision \in Nat, k.req \in STRING, k.supersedes \in Nat,
         NEW q \in Results, k.runs = <<q>>, k.drafts = <<Draft(c, k, q)>>,
         q.status \in {"fail", "timeout"}, q.sha # NoSha,
         PinOK(k, q.sha, q.ran, revision),
         NEW r \in Results,
         r.sha # NoSha => PinOK(k, r.sha, r.ran, revision)
  PROVE  ~RerunDue(RunsWith(k, r)) /\ DraftsOK(c, k, RowsWith(c, k, r))
<1> DEFINE d == Draft(c, k, q)
           e == Draft(c, k, r)
           f == FlakyDraft(c, k, r)
           runs == <<q, r>>
<1>1. RunsWith(k, r) = runs
  BY AppendToOne DEF RunsWith
<1>2. ~RerunDue(runs)
  BY CheckRunsAssumption DEF RerunDue
<1>3. /\ DraftOK(c, k, d) /\ d.sha = q.sha /\ d.exit = q.status
  BY ZenonT(60), DraftIsOK
<1>4. ASSUME r.sha # NoSha
      PROVE  /\ DraftOK(c, k, e) /\ e.sha = r.sha /\ e.exit = r.status
             /\ DraftOK(c, k, f) /\ f.sha = r.sha /\ f.exit = "flaky"
  <2>1. PinOK(k, r.sha, r.ran, revision)
    BY <1>4
  <2> QED
    BY <2>1, DraftIsOK
<1>5. WithDraft(c, k, r) = IF r.sha = NoSha THEN <<d>> ELSE <<d, e>>
  BY AppendToOne DEF WithDraft
<1>6. SameRevision(runs) = IF r.sha = q.sha THEN {1, 2} ELSE {1}
  <2>1. DOMAIN runs = {1, 2} /\ runs[1] = q /\ runs[2] = r
    OBVIOUS
  <2> QED
    BY <2>1 DEF SameRevision
<1>7. {runs[i].status : i \in SameRevision(runs)}
        = IF r.sha = q.sha THEN {q.status, r.status} ELSE {q.status}
  BY <1>6
<1>8. Disagree(runs) <=> (r.sha = q.sha /\ r.status = "pass")
  BY <1>7 DEF Disagree
<1>9. Disagree(runs) => FlakyDraft(c, k, runs[Max(SameRevision(runs))]) = f
  <2>1. Disagree(runs) => SameRevision(runs) = {1, 2}
    BY <1>6, <1>8
  <2>2. {1, 2} \in SUBSET (1..2)
    OBVIOUS
  <2>3. Max({1, 2}) \in {1, 2} /\ \A y \in {1, 2} : y <= Max({1, 2})
    BY <2>2, MaxOf, Zenon
  <2>4. Max({1, 2}) = 2
    BY <2>3
  <2> QED
    BY <2>1, <2>4
<1> DEFINE rows == RowsWith(c, k, r)
<1>10. rows = IF Disagree(runs) THEN Append(WithDraft(c, k, r), f) ELSE WithDraft(c, k, r)
  BY <1>1, <1>9 DEF RowsWith, ReconcileRuns
<1> HIDE DEF d, e, f, runs, rows
<1>11. CASE Disagree(runs)
  <2>1. r.sha = q.sha /\ r.sha # NoSha
    BY <1>8, <1>11
  <2>2. rows = <<d, e, f>>
    BY <1>5, <1>10, <1>11, <2>1, AppendToTwo
  <2>3. \A i \in 1..3 : DraftOK(c, k, rows[i]) /\ rows[i].sha = r.sha
    BY <1>3, <1>4, <2>1, <2>2
  <2>4. rows \in Seq(Row) /\ DOMAIN rows = 1..3
    BY <1>3, <1>4, <2>1, <2>2 DEF DraftOK
  <2>5. rows[3].exit = "flaky"
    BY <1>4, <2>1, <2>2
  <2>6. DraftsOK(c, k, rows)
    <3> SUFFICES ASSUME NEW i \in 1..3, NEW j \in 1..3, i < j, rows[j].exit = "pass"
                 PROVE  \E l \in 1..3 : j < l /\ rows[l].sha = rows[j].sha
      BY <2>3, <2>4 DEF DraftsOK
    <3>1. j = 2
      BY <2>5
    <3> QED
      BY <2>3, <3>1
  <2> QED
    BY <1>1, <1>2, <2>6 DEF rows
<1>12. CASE ~Disagree(runs) /\ r.sha # NoSha
  <2>1. rows = <<d, e>>
    BY <1>5, <1>10, <1>12
  <2>2. rows \in Seq(Row) /\ DOMAIN rows = 1..2
    BY <1>3, <1>4, <1>12, <2>1 DEF DraftOK
  <2>3. \A i \in 1..2 : DraftOK(c, k, rows[i])
    BY <1>3, <1>4, <1>12, <2>1
  <2>4. rows[1].sha = q.sha /\ rows[2].sha = r.sha /\ rows[2].exit = r.status
    BY <1>3, <1>4, <1>12, <2>1
  <2>5. ~(rows[1].sha = rows[2].sha /\ rows[2].exit = "pass")
    BY <1>8, <1>12, <2>4
  <2>6. DraftsOK(c, k, rows)
    <3> SUFFICES ASSUME NEW i \in 1..2, NEW j \in 1..2, i < j, rows[i].sha = rows[j].sha,
                        rows[j].exit = "pass"
                 PROVE  FALSE
      BY <2>2, <2>3 DEF DraftsOK
    <3>1. i = 1 /\ j = 2
      OBVIOUS
    <3> QED
      BY <2>5, <3>1
  <2> QED
    BY <1>1, <1>2, <2>6 DEF rows
<1>13. CASE ~Disagree(runs) /\ r.sha = NoSha
  <2>1. rows = <<d>>
    BY <1>5, <1>10, <1>13
  <2>2. DraftsOK(c, k, rows)
    BY <1>3, <2>1 DEF DraftsOK, DraftOK
  <2> QED
    BY <1>1, <1>2, <2>2 DEF rows
<1> QED
  BY <1>11, <1>12, <1>13

-----------------------------------------------------------------------------
(* Steps of a call.  Types are TypeOKNext's. *)

Kept == EvidenceOK(evidence, revision) /\ CallsOK

\* One check's call is changed to a good one.
LEMMA CallsStep ==
  ASSUME TypeOK, CallsOK, NEW c \in Checks, NEW k, run' = [run EXCEPT ![c] = k],
         revision' = revision, k # Idle => CallOK(c, k, revision)
  PROVE  CallsOK'
<1>1. \A d \in Checks : run'[d] = IF d = c THEN k ELSE run[d]
  BY DEF TypeOK
<1> QED
  BY <1>1 DEF CallsOK

LEMMA SettleKeeps ==
  ASSUME MaxReruns <= 1, RowsInv, NEW c \in Checks, run[c] # Idle, NEW r \in Results,
         r.status \in {"fail", "timeout"} => r.sha # NoSha,
         r.sha # NoSha => PinOK(run[c], r.sha, r.ran, revision),
         Settle(c, r), revision' = revision
  PROVE  Kept'
<1> DEFINE k == run[c]
           runs == RunsWith(k, r)
           drafts == WithDraft(c, k, r)
           rows == RowsWith(c, k, r)
           next == [phase |-> "due", revision |-> k.revision, runs |-> runs,
                    drafts |-> drafts, supersedes |-> k.supersedes, req |-> k.req]
<1>0. TypeOK /\ EvidenceOK(evidence, revision) /\ CallsOK
  BY DEF RowsInv
<1>1. /\ CallOK(c, k, revision)
      /\ k.revision \in Nat /\ k.req \in STRING /\ k.supersedes \in Nat
  BY <1>0, CallTypes DEF CallsOK
<1>2. \/ RerunDue(runs) /\ run' = [run EXCEPT ![c] = next] /\ evidence' = evidence
      \/ /\ ~RerunDue(runs) /\ run' = [run EXCEPT ![c] = Idle]
         /\ \E rs \in Stored(rows, NextCall) : Store(rs)
  BY DEF Settle, RunsWith, RowsWith
<1>3. r.sha # NoSha => PinOK(k, r.sha, r.ran, revision)
  OBVIOUS
<1> HIDE DEF k, runs, drafts, rows, next
<1>4. ASSUME ~RerunDue(runs), DraftsOK(c, k, rows)
      PROVE  Kept'
  <2>1. run' = [run EXCEPT ![c] = Idle]
    BY <1>2, <1>4
  <2>2. PICK rs \in Stored(rows, NextCall) : evidence' = evidence \o rs
    BY <1>2, <1>4 DEF Store
  <2>3. BatchOK(rs)
    BY <1>0, <1>4, StoredIsBatch
  <2>4. EvidenceOK(evidence', revision)
    BY <1>0, <2>2, <2>3, StoreKeeps
  <2>5. CallsOK'
    BY <1>0, <2>1, CallsStep
  <2> QED
    BY <2>4, <2>5 DEF Kept
<1>5. CASE k.runs = <<>> /\ k.drafts = <<>>
  <2>1. /\ runs = <<r>>
        /\ RerunDue(runs) => r.status \in {"fail", "timeout"}
        /\ r.sha # NoSha => drafts = <<Draft(c, k, r)>>
        /\ DraftsOK(c, k, rows)
    BY <1>1, <1>3, <1>5, FirstRun DEF runs, drafts, rows
  <2>2. CASE RerunDue(runs)
    <3>1. run' = [run EXCEPT ![c] = next] /\ evidence' = evidence
      BY <1>2, <2>2
    <3>2. r.sha # NoSha /\ r.status \in {"fail", "timeout"}
      BY <2>1, <2>2
    <3>3. /\ next.revision = k.revision /\ next.supersedes = k.supersedes /\ next.req = k.req
          /\ next.runs = runs /\ next.drafts = drafts /\ next.phase = "due"
      BY DEF next
    <3>4. Draft(c, next, r) = Draft(c, k, r)
      BY <3>3 DEF Draft
    <3>5. PinOK(next, r.sha, r.ran, revision)
      BY <1>3, <3>2, <3>3 DEF PinOK
    <3>6. next.runs = <<r>> /\ next.drafts = <<Draft(c, next, r)>>
      BY <2>1, <3>2, <3>3, <3>4
    <3>7. CallOK(c, next, revision)
      BY <1>1, <3>2, <3>3, <3>5, <3>6 DEF CallOK
    <3>8. CallsOK'
      BY <1>0, <3>1, <3>7, CallsStep
    <3> QED
      BY <1>0, <3>1, <3>8 DEF Kept
  <2> QED
    BY <1>4, <2>1, <2>2
<1>6. CASE ~(k.runs = <<>> /\ k.drafts = <<>>)
  <2>1. PICK q \in Results :
          /\ k.runs = <<q>> /\ k.drafts = <<Draft(c, k, q)>>
          /\ q.status \in {"fail", "timeout"} /\ q.sha # NoSha
          /\ PinOK(k, q.sha, q.ran, revision)
    BY <1>1, <1>6 DEF CallOK
  <2>2. ~RerunDue(runs) /\ DraftsOK(c, k, rows)
    BY <1>1, <1>3, <2>1, SecondRun DEF runs, rows
  <2> QED
    BY <1>4, <2>2
<1> QED
  BY <1>5, <1>6

\* A single row stored beside the calls.
LEMMA StoreRowKeeps ==
  ASSUME RowsInv, NEW d \in Row, Pinned(d), RowOK(d, revision), d.call = NextCall, Store(<<d>>),
         UNCHANGED <<revision, run>>
  PROVE  Kept'
<1>1. BatchOK(<<d>>)
  BY DEF BatchOK, RowsOf, NoSecondPass
<1>2. EvidenceOK(evidence', revision)
  BY <1>1, StoreKeeps DEF Store, RowsInv
<1> QED
  BY <1>2 DEF Kept, CallsOK, RowsInv

LEMMA CallCheckKeeps ==
  ASSUME RowsInv, NEW c \in Checks, CallCheck(c)
  PROVE  Kept'
<1>1. PICK sup \in {0} \cup {i \in DOMAIN evidence : evidence[i].src = c}, req \in limits.reqs :
        run' = [run EXCEPT ![c] = [phase |-> "due", revision |-> revision, runs |-> <<>>,
                                   drafts |-> <<>>, supersedes |-> sup, req |-> req]]
  BY DEF CallCheck
<1> DEFINE k == [phase |-> "due", revision |-> revision, runs |-> <<>>,
                 drafts |-> <<>>, supersedes |-> sup, req |-> req]
<1>2. /\ k.revision = revision /\ k.runs = <<>> /\ k.drafts = <<>> /\ k.phase = "due"
      /\ run' = [run EXCEPT ![c] = k]
  BY <1>1
<1>3. UNCHANGED <<revision, evidence>> /\ revision \in Nat
  BY DEF CallCheck, RowsInv, TypeOK
<1> HIDE DEF k
<1>4. CallOK(c, k, revision)
  BY <1>2, <1>3 DEF CallOK
<1>5. CallsOK'
  BY <1>2, <1>3, <1>4, CallsStep DEF RowsInv
<1> QED
  BY <1>3, <1>5 DEF Kept, RowsInv

\* A command started now is pinned to the commit and revision there are.
LEMMA HerePins ==
  ASSUME RowsInv, NEW c \in Checks, run[c] # Idle
  PROVE  PinOK(run[c], head, Here, revision)
<1>1. CallOK(c, run[c], revision) /\ head \in Nat /\ revision \in Nat /\ run[c].revision \in Nat
  BY CallTypes DEF RowsInv, CallsOK, TypeOK
<1> QED
  BY <1>1, HereIsPlace DEF PinOK, CallOK

LEMMA BeginRunKeeps ==
  ASSUME MaxReruns <= 1, RowsInv, NEW c \in Checks, BeginRun(c)
  PROVE  Kept'
<1>1. UNCHANGED revision /\ run[c].phase = "due" /\ TypeOK /\ head \in Nat /\ revision \in Nat
  BY DEF BeginRun, RowsInv, TypeOK
<1>2. run[c] \in DueCall /\ run[c] # Idle
  BY <1>1, CallPhase
<1>3. PinOK(run[c], head, Here, revision) /\ CallOK(c, run[c], revision)
  BY <1>2, HerePins DEF RowsInv, CallsOK
<1>4. PICK sha \in {head, NoSha}, cwd \in BOOLEAN :
        IF Runnable(c) /\ sha # NoSha /\ cwd
          THEN /\ run' = [run EXCEPT ![c] =
                            [phase |-> "running", revision |-> run[c].revision,
                             runs |-> run[c].runs, drafts |-> run[c].drafts,
                             supersedes |-> run[c].supersedes, req |-> run[c].req, ran |-> Here]]
               /\ UNCHANGED evidence
          ELSE Settle(c, Result("unavailable", sha, Here))
  BY DEF BeginRun
<1>5. CASE Runnable(c) /\ sha # NoSha /\ cwd
  <2> DEFINE k == [phase |-> "running", revision |-> run[c].revision,
                   runs |-> run[c].runs, drafts |-> run[c].drafts,
                   supersedes |-> run[c].supersedes, req |-> run[c].req, ran |-> Here]
  <2>1. run' = [run EXCEPT ![c] = k] /\ evidence' = evidence /\ head # NoSha
    BY <1>4, <1>5
  <2>2. /\ k.revision = run[c].revision /\ k.supersedes = run[c].supersedes
        /\ k.req = run[c].req /\ k.runs = run[c].runs /\ k.drafts = run[c].drafts
        /\ k.ran = Here
    OBVIOUS
  <2> HIDE DEF k
  <2>3. Here.sha = head
    BY DEF Here
  <2>4. \A r : Draft(c, k, r) = Draft(c, run[c], r)
    BY <2>2 DEF Draft
  <2>5. \A s, p : PinOK(run[c], s, p, revision) => PinOK(k, s, p, revision)
    BY <2>2 DEF PinOK
  <2>6. \/ k.runs = <<>> /\ k.drafts = <<>>
        \/ \E r \in Results : /\ k.runs = <<r>> /\ k.drafts = <<Draft(c, k, r)>>
                              /\ r.status \in {"fail", "timeout"} /\ r.sha # NoSha
                              /\ PinOK(k, r.sha, r.ran, revision)
    BY <1>3, <2>2, <2>4, <2>5 DEF CallOK
  <2>7. k.ran.sha # NoSha /\ PinOK(k, k.ran.sha, k.ran, revision)
    BY <1>3, <2>1, <2>2, <2>3, <2>5
  <2>8. CallOK(c, k, revision)
    BY <1>3, <2>2, <2>6, <2>7 DEF CallOK
  <2>9. CallsOK'
    BY <1>1, <2>1, <2>8, CallsStep DEF RowsInv
  <2> QED
    BY <1>1, <2>1, <2>9 DEF Kept, RowsInv
<1>6. CASE ~(Runnable(c) /\ sha # NoSha /\ cwd)
  <2> DEFINE r == Result("unavailable", sha, Here)
  <2>1. /\ r \in Results /\ r.status = "unavailable" /\ r.sha = sha /\ r.ran = Here
    BY <1>1, HereIsPlace DEF Result, Results, Exits, NoSha
  <2>2. Settle(c, r)
    BY <1>4, <1>6
  <2> HIDE DEF r
  <2>3. r.sha # NoSha => PinOK(run[c], r.sha, r.ran, revision)
    BY <1>3, <2>1
  <2> QED
    BY <1>1, <1>2, <2>1, <2>2, <2>3, SettleKeeps
<1> QED
  BY <1>5, <1>6

LEMMA EndCommandKeeps ==
  ASSUME MaxReruns <= 1, RowsInv, NEW c \in Checks, EndCommand(c)
  PROVE  Kept'
<1>1. PICK o \in Outcomes :
        Settle(c, Result(RunStatusOf(o[1], o[2]), run[c].ran.sha, run[c].ran))
  BY DEF EndCommand
<1> DEFINE r == Result(RunStatusOf(o[1], o[2]), run[c].ran.sha, run[c].ran)
<1>2. UNCHANGED revision /\ run[c].phase = "running"
  BY DEF EndCommand
<1>3. run[c] \in RunningCall /\ run[c] # Idle /\ CallOK(c, run[c], revision)
  BY <1>2, CallPhase DEF RowsInv, CallsOK
<1>4. RunStatusOf(o[1], o[2]) \in Exits
  BY DEF RunStatusOf, Exits
<1>5. r \in Results /\ r.sha = run[c].ran.sha /\ r.ran = run[c].ran
  BY <1>3, <1>4 DEF Result, Results, RunningCall, Places
<1>6. Settle(c, r)
  BY <1>1
<1> HIDE DEF r
<1>7. r.sha # NoSha /\ PinOK(run[c], r.sha, r.ran, revision)
  BY <1>2, <1>3, <1>5 DEF CallOK
<1> QED
  BY <1>2, <1>3, <1>5, <1>6, <1>7, SettleKeeps

LEMMA RecordResultKeeps ==
  ASSUME RowsInv, NEW c \in Checks, RecordResult(c)
  PROVE  Kept'
<1>1. PICK d \in Row :
        /\ Store(<<d>>) /\ d.src = c /\ d.call = NextCall /\ d.mode # "model"
        /\ CheckDef[c].kind = "command" => d.mode = "deterministic"
        /\ d.sha = head /\ d.revision = revision /\ d.ran = Here
  BY RecordedRow DEF RowsInv
<1>2. UNCHANGED <<revision, run>> /\ head \in Nat /\ revision \in Nat
  BY DEF RecordResult, RowsInv, TypeOK
<1>3. RowOK(d, revision)
  BY <1>1, <1>2, HereIsPlace DEF RowOK
<1> QED
  BY <1>1, <1>2, <1>3, StoreRowKeeps DEF Pinned

LEMMA EndReviewKeeps ==
  ASSUME RowsInv, NEW a \in Reviewers, EndReview(a)
  PROVE  Kept'
<1>1. PICK d \in Row : /\ Store(<<d>>) /\ Pinned(d) /\ d.src = a /\ d.call = NextCall
                       /\ d.mode = "model" /\ d.ran = [sha |-> d.sha, revision |-> d.revision]
  BY ReviewRow DEF RowsInv
<1>2. UNCHANGED <<revision, run>>
  BY DEF EndReview, RecordReview
<1>3. a \notin Checks
  BY TaskGateAssumption
<1>4. RowOK(d, revision)
  BY <1>1, <1>3 DEF RowOK
<1> QED
  BY <1>1, <1>2, <1>4, StoreRowKeeps

\* The plan revises the task: what is in flight stays with the revision it read.
LEMMA ResubmitKeeps ==
  ASSUME RowsInv, Resubmit
  PROVE  Kept'
<1>1. revision \in Nat /\ revision' = revision + 1 /\ UNCHANGED <<evidence, run>>
  BY DEF Resubmit, RowsInv, TypeOK
<1>2. \A p \in Places : p.revision <= revision => p.revision <= revision + 1
  BY <1>1 DEF Places
<1>3. ASSUME NEW i \in DOMAIN evidence PROVE RowOK(evidence[i], revision + 1)
  <2>1. RowOK(evidence[i], revision) /\ evidence[i] \in Row
    BY DEF RowsInv, EvidenceOK, TypeOK, RowsOf
  <2>2. evidence[i].ran \in Places
    BY <2>1 DEF Row
  <2> QED
    BY <1>2, <2>1, <2>2 DEF RowOK
<1>4. EvidenceOK(evidence', revision')
  BY <1>1, <1>3 DEF EvidenceOK, RowsInv
<1>5. ASSUME NEW c \in Checks, run[c] # Idle
      PROVE  CallOK(c, run[c], revision + 1)
  <2>1. CallOK(c, run[c], revision) /\ run[c].revision \in Nat
    BY <1>5, CallTypes DEF RowsInv, CallsOK
  <2>2. \A k, s, p : (p \in Places /\ PinOK(k, s, p, revision)) => PinOK(k, s, p, revision + 1)
    BY <1>2 DEF PinOK
  <2>3. \A r \in Results : r.ran \in Places
    BY DEF Results
  <2>4. run[c].phase = "running" => run[c].ran \in Places
    <3>1. run[c].phase = "running" => run[c] \in RunningCall
      BY CallPhase DEF RowsInv
    <3> QED
      BY <3>1 DEF RunningCall
  <2>5. run[c].revision <= revision + 1
    BY <1>1, <2>1 DEF CallOK
  <2>6. \/ run[c].runs = <<>> /\ run[c].drafts = <<>>
        \/ \E r \in Results : /\ run[c].runs = <<r>> /\ run[c].drafts = <<Draft(c, run[c], r)>>
                              /\ r.status \in {"fail", "timeout"} /\ r.sha # NoSha
                              /\ PinOK(run[c], r.sha, r.ran, revision + 1)
    BY <2>1, <2>2, <2>3 DEF CallOK
  <2> QED
    BY <2>1, <2>2, <2>4, <2>5, <2>6 DEF CallOK
<1> QED
  BY <1>1, <1>4, <1>5 DEF Kept, CallsOK

LEMMA KeptUnchanged ==
  ASSUME RowsInv, UNCHANGED <<revision, evidence, run>>
  PROVE  Kept'
BY DEF RowsInv, Kept, CallsOK

LEMMA RowsInvInit == GateInit => RowsInv
<1> SUFFICES ASSUME GateInit PROVE RowsInv
  OBVIOUS
<1>1. TypeOK /\ DOMAIN evidence = {}
  BY TypeOKInit DEF GateInit, CheckInit
<1>2. EvidenceOK(evidence, revision)
  <2>1. {evidence[i].call : i \in DOMAIN evidence} = 1..0
    BY <1>1
  <2> QED
    BY <1>1, <2>1 DEF EvidenceOK, NoSecondPass
<1>3. CallsOK
  BY DEF GateInit, CheckInit, CallsOK
<1> QED
  BY <1>1, <1>2, <1>3 DEF RowsInv

LEMMA RowsInvNext ==
  ASSUME MaxReruns <= 1, RowsInv, [Next]_vars
  PROVE  RowsInv'
<1>1. Kept'
  <2>1. CASE \E c \in Checks : CallCheck(c)
    BY <2>1, CallCheckKeeps
  <2>2. CASE \E c \in Checks : BeginRun(c)
    BY <2>2, BeginRunKeeps
  <2>3. CASE \E c \in Checks : EndCommand(c)
    BY <2>3, EndCommandKeeps
  <2>4. CASE \E c \in Checks : RecordResult(c)
    BY <2>4, RecordResultKeeps
  <2>5. CASE MoveHead
    BY <2>5, KeptUnchanged DEF MoveHead
  <2>6. CASE \E ch \in ChangeSets : InvalidateStaleEvidence(ch)
    BY <2>6, KeptUnchanged DEF InvalidateStaleEvidence
  <2>7. CASE \E a \in Reviewers : BeginReview(a)
    BY <2>7, KeptUnchanged DEF BeginReview, checkVars
  <2>8. CASE \E a \in Reviewers : EndReview(a)
    BY <2>8, EndReviewKeeps
  <2>9. CASE \E i \in DOMAIN reviews : DisposeFinding(i)
    BY <2>9, KeptUnchanged DEF DisposeFinding, checkVars
  <2>10. CASE BeginEvaluation \/ FinishEvaluation \/ Approve \/ ApprovalLapses
    BY <2>10, KeptUnchanged DEF BeginEvaluation, FinishEvaluation, Approve, ApprovalLapses, checkVars
  <2>11. CASE Resubmit
    BY <2>11, ResubmitKeeps
  <2>12. CASE EnterReview \/ CompleteTask
    BY <2>12, KeptUnchanged DEF EnterReview, CompleteTask
  <2>13. CASE UNCHANGED vars
    BY <2>13, KeptUnchanged DEF vars, checkVars
  <2> QED
    BY <2>1, <2>2, <2>3, <2>4, <2>5, <2>6, <2>7, <2>8, <2>9, <2>10, <2>11, <2>12, <2>13 DEF Next
<1>2. TypeOK'
  BY TypeOKNext DEF RowsInv
<1> QED
  BY <1>1, <1>2 DEF RowsInv, Kept

LEMMA CarriesStep ==
  ASSUME RowsInv, ChecksCarryGate, [Next]_vars
  PROVE  ChecksCarryGate'
<1>1. UNCHANGED <<head, revision, evidence>> => (ChecksStand => ChecksStand')
  <2>1. UNCHANGED <<head, revision, evidence>> =>
          Here' = Here /\ \A c : RowsHere(c)' = RowsHere(c) /\ LastHere(c)' = LastHere(c)
    BY DEF RowsHere, LastHere, Here
  <2> QED
    BY <2>1 DEF ChecksStand, Stands
<1>2. CASE status = "done"
  <2>1. UNCHANGED <<head, revision, status, evidence>>
    BY <1>2, DoneIsFrozen DEF GateReads
  <2> QED
    BY <2>1 DEF ChecksCarryGate, CheckedAtHead, FlakyHoldsGate, Here
<1>3. CASE status # "done" /\ status' = "done"
  <2>1. CompleteTask
    BY <1>3, DoneByTheGate
  <2>2. ChecksStand /\ UNCHANGED <<head, revision, evidence>>
    BY <2>1, GateStands DEF CompleteTask, RowsInv
  <2>3. ChecksStand'
    BY <1>1, <2>2
  <2> QED
    BY <2>3, CarryIsStand, PTL
<1>4. CASE status' # "done"
  BY <1>4 DEF ChecksCarryGate, CheckedAtHead, FlakyHoldsGate
<1> QED
  BY <1>2, <1>3, <1>4

\* runCheck's pin, reconcileRuns, freshEvidence and latestResultFor: for any
\* checks, commands and bounds, however the worktree moves and in whichever order
\* rows are read, what stands behind a pass was run from start to end where the
\* gate looked, and its last call there did not disagree unless the caller stored
\* it under one stamp or superseded a row of it.  A failure is rerun at most once
\* (DEFAULT_RERUN_POLICY).
THEOREM ChecksCarryGateTheorem == MaxReruns <= 1 => (Spec => []ChecksCarryGate)
<1> SUFFICES ASSUME MaxReruns <= 1 PROVE Spec => []ChecksCarryGate
  OBVIOUS
<1>1. GateInit => RowsInv /\ ChecksCarryGate
  BY RowsInvInit, StartsUndone DEF ChecksCarryGate, CheckedAtHead, FlakyHoldsGate
<1>2. RowsInv /\ ChecksCarryGate /\ [Next]_vars => (RowsInv /\ ChecksCarryGate)'
  BY RowsInvNext, CarriesStep
<1> QED
  BY <1>1, <1>2, PTL DEF Spec

-----------------------------------------------------------------------------
(* The reviewer behind a pass. *)

\* isIndependentReview: a reviewer whose handoff chain does not reach the author
\* is not the author and was not handed the author's work.
LEMMA IndependentOfAuthor ==
  ASSUME NEW a, IsIndependent(a)
  PROVE  Author \notin {a, HandedOffFrom[a]}
<1>1. PICK S \in SUBSET Attempts :
        a \in S /\ (\A x \in S : HandedOffFrom[x] \in S \cup {None}) /\ Author \notin S
  BY TaskGateAssumption DEF IsIndependent, Chain
<1>2. Author # None
  BY TaskGateAssumption
<1> QED
  BY <1>1, <1>2

\* reviewToEvidence, isIndependentReview and evaluateC3: for any attempts,
\* handoffs and policies, under model review a task is done only once a reviewer
\* other than the author and the one the author handed over to was shown what
\* the gate evaluated and ended without a blocking finding.
THEOREM ReviewCarriesGateTheorem == Spec => []ReviewCarriesGate
<1>1. GateInit => TypeOK /\ ReviewCarriesGate
  BY TypeOKInit, StartsUndone DEF ReviewCarriesGate
<1>2. ASSUME TypeOK, ReviewCarriesGate, [Next]_vars
      PROVE  ReviewCarriesGate'
  <2>1. CASE status = "done"
    BY <1>2, <2>1, DoneIsFrozen DEF GateReads, ReviewCarriesGate, Here
  <2>2. CASE status # "done" /\ status' = "done" /\ modelReview'
    <3>1. CompleteTask
      BY <1>2, <2>2, DoneByTheGate
    <3>2. UNCHANGED <<head, revision, evidence, modelReview>>
      BY <3>1 DEF CompleteTask, gateVars, configVars
    <3>3. PICK i \in Fresh : /\ evidence[i].mode = "model" /\ evidence[i].exit = "pass"
                             /\ IsIndependent(evidence[i].src)
      BY <2>2, <3>1, <3>2 DEF CompleteTask, C3
    <3>4. /\ i \in DOMAIN evidence /\ evidence[i].sha = head
          /\ evidence[i].revision = revision /\ Pinned(evidence[i])
      BY <1>2, <3>3 DEF Fresh, TypeOK, RowsOf
    <3>5. evidence[i].ran = Here
      BY <3>3, <3>4 DEF Pinned, Here
    <3>6. Author \notin {evidence[i].src, HandedOffFrom[evidence[i].src]}
      BY <3>3, IndependentOfAuthor
    <3>7. Here' = Here
      BY <3>2 DEF Here
    <3> QED
      BY <3>2, <3>3, <3>4, <3>5, <3>6, <3>7 DEF ReviewCarriesGate
  <2>3. CASE ~(status' = "done" /\ modelReview')
    BY <2>3 DEF ReviewCarriesGate
  <2> QED
    BY <2>1, <2>2, <2>3
<1>3. TypeOK /\ ReviewCarriesGate /\ [Next]_vars => (TypeOK /\ ReviewCarriesGate)'
  BY <1>2, TypeOKNext
<1> QED
  BY <1>1, <1>3, PTL DEF Spec

-----------------------------------------------------------------------------
(* The evidence behind a "no gap" decision. *)

\* A row of F is passing evidence of the criterion a.
Evidenced(a, F) ==
  \E i \in F : i \in DOMAIN evidence /\ evidence[i].req = a /\ evidence[i].exit = "pass"

\* What the mapping said when the questions were asked stays true of the rows
\* it was about, and so does what a decision concluded from it.
GapInv ==
  /\ asking # Idle =>
       \A a \in Criteria : asking.mapping[a] = {} => Evidenced(a, asking.judged.fresh)
  /\ \A d \in decisions :
       d.action = "no_gap" => \A a \in Criteria : Evidenced(a, d.judged.fresh)

LEMMA BeginEvaluationGap ==
  ASSUME TypeOK, GapInv, BeginEvaluation
  PROVE  GapInv'
<1>1. /\ asking'.judged = GateStateHash
      /\ \A a \in Criteria : asking'.mapping[a] =
           MappingReasons({GateCheckState(c) : c \in Covering(a)},
                          {evidence[i].exit : i \in {j \in Fresh : evidence[j].req = a}})
  BY DEF BeginEvaluation
<1>2. UNCHANGED <<evidence, decisions>>
  BY DEF BeginEvaluation, checkVars
<1>3. ASSUME NEW a \in Criteria, asking'.mapping[a] = {}
      PROVE  Evidenced(a, asking.judged.fresh)'
  <2>1. "pass" \in {evidence[i].exit : i \in {j \in Fresh : evidence[j].req = a}}
    BY <1>1, <1>3 DEF MappingReasons
  <2>2. PICK i \in Fresh : evidence[i].req = a /\ evidence[i].exit = "pass"
    BY <2>1
  <2>3. asking'.judged.fresh = Fresh
    BY <1>1 DEF GateStateHash
  <2> QED
    BY <1>2, <2>2, <2>3 DEF Evidenced, Fresh
<1> QED
  BY <1>2, <1>3 DEF GapInv, Evidenced

LEMMA FinishEvaluationGap ==
  ASSUME TypeOK, GapInv, FinishEvaluation
  PROVE  GapInv'
<1>1. PICK answer \in Answers, fallback \in {"none"} \cup FallbackReasons,
           hash \in {asking.judged, GateStateHash} :
        LET reasons == [a \in Criteria |->
               CriterionReasons(asking.mapping[a], answer, riskClass, NoOverride)] IN
        decisions' = decisions \cup
          {GateDecision(NoGap(reasons), CriterionConfidence(answer), fallback, hash, asking.judged)}
  BY DEF FinishEvaluation
<1> DEFINE reasons == [a \in Criteria |->
               CriterionReasons(asking.mapping[a], answer, riskClass, NoOverride)]
           d == GateDecision(NoGap(reasons), CriterionConfidence(answer), fallback, hash, asking.judged)
<1>2. asking # Idle /\ asking' = Idle /\ evidence' = evidence
  BY DEF FinishEvaluation, checkVars
<1>3. d.judged = asking.judged /\ (d.action = "no_gap" => NoGap(reasons))
  BY DEF GateDecision
<1>4. NoGap(reasons) => \A a \in Criteria : asking.mapping[a] = {}
  <2> SUFFICES ASSUME NoGap(reasons), NEW a \in Criteria PROVE asking.mapping[a] = {}
    OBVIOUS
  <2>0. DOMAIN reasons = Criteria
    OBVIOUS
  <2>1. CriterionReasons(asking.mapping[a], answer, riskClass, NoOverride) = {}
    <3>1. reasons[a] = {}
      BY <2>0, Zenon DEF NoGap
    <3> QED
      BY <3>1
  <2> QED
    BY <2>1 DEF CriterionReasons
<1>5. decisions' = decisions \cup {d}
  BY <1>1, Zenon
<1> HIDE DEF d, reasons
<1>6. d.action = "no_gap" => \A a \in Criteria : Evidenced(a, d.judged.fresh)
  BY <1>2, <1>3, <1>4 DEF GapInv
<1> QED
  BY <1>2, <1>5, <1>6 DEF GapInv, Evidenced

LEMMA GapInvNext ==
  ASSUME TypeOK, GapInv, [Next]_vars
  PROVE  GapInv'
<1>1. CASE BeginEvaluation
  BY <1>1, BeginEvaluationGap
<1>2. CASE FinishEvaluation
  BY <1>2, FinishEvaluationGap
<1>3. CASE ~BeginEvaluation /\ ~FinishEvaluation
  <2>1. UNCHANGED <<asking, decisions>>
    <3>1. CASE \E a \in Reviewers : BeginReview(a) \/ EndReview(a)
      BY <3>1 DEF BeginReview, EndReview, RecordReview
    <3>2. CASE \E i \in DOMAIN reviews : DisposeFinding(i)
      BY <3>2 DEF DisposeFinding
    <3>3. CASE Approve \/ ApprovalLapses \/ Resubmit
      BY <3>3 DEF Approve, ApprovalLapses, Resubmit
    <3>4. CASE UNCHANGED gateVars \/ UNCHANGED vars
      BY <3>4 DEF vars, gateVars
    <3>5. CASE EnterReview \/ CompleteTask
      BY <3>5 DEF EnterReview, CompleteTask, gateVars
    <3> QED
      BY <1>3, <3>1, <3>2, <3>3, <3>4, <3>5 DEF Next
  <2>2. Grows
    BY TypeOKNext
  <2>3. \A a, F : Evidenced(a, F) => Evidenced(a, F)'
    BY <2>2 DEF Grows, Evidenced
  <2> QED
    BY <2>1, <2>3 DEF GapInv
<1> QED
  BY <1>1, <1>2, <1>3

\* evaluateC2: whichever branch passed, each criterion had fresh passing evidence.
LEMMA GateEvidences ==
  ASSUME TypeOK, GapInv, C2, \A d \in decisions : d.hash = d.judged, NEW a \in Criteria
  PROVE  \E i \in Fresh : evidence[i].req = a /\ evidence[i].exit = "pass"
<1>1. CASE {d \in CandidateDecisions : d.override \in FallbackReasons} # {}
  BY <1>1 DEF C2, DetCoverage
<1>2. CASE {d \in CandidateDecisions : d.override \in FallbackReasons} = {}
  <2>1. PICK d \in CandidateDecisions : d.action = "no_gap"
    BY <1>2 DEF C2
  <2>2. d \in decisions /\ d.judged = GateStateHash
    BY <2>1 DEF CandidateDecisions
  <2>3. GateStateHash.fresh = Fresh
    BY DEF GateStateHash
  <2>4. Evidenced(a, d.judged.fresh)
    BY <2>1, <2>2 DEF GapInv
  <2> QED
    BY <2>2, <2>3, <2>4 DEF Evidenced
<1> QED
  BY <1>1, <1>2

\* evaluateCriterion, gateStateHash and evaluateDetCoverage: for any criteria,
\* answers, thresholds and policies, if decisions are stored under the state the
\* questions were asked about, a task is done only with an unsuperseded passing
\* row of each criterion at the gated commit and revision, however the evidence
\* changed while Jev was answering.
THEOREM CriteriaEvidencedTheorem == Spec => []CriteriaEvidenced
<1>1. GateInit => TypeOK /\ GapInv /\ CriteriaEvidenced
  BY TypeOKInit, StartsUndone DEF GateInit, GapInv, CriteriaEvidenced
<1>2. ASSUME TypeOK, GapInv, CriteriaEvidenced, [Next]_vars
      PROVE  CriteriaEvidenced'
  <2>1. CASE status = "done"
    BY <1>2, <2>1, DoneIsFrozen DEF GateReads, CriteriaEvidenced
  <2>2. CASE status # "done" /\ status' = "done"
    <3>1. CompleteTask
      BY <1>2, <2>2, DoneByTheGate
    <3>2. UNCHANGED <<head, revision, evidence, decisions>> /\ C2
      BY <3>1 DEF CompleteTask, gateVars
    <3>3. ASSUME \A d \in decisions : d.hash = d.judged, NEW a \in Criteria
          PROVE  \E i \in DOMAIN evidence :
                   /\ evidence[i].req = a /\ evidence[i].exit = "pass"
                   /\ evidence[i].sha = head /\ evidence[i].revision = revision
                   /\ \A j \in DOMAIN evidence : evidence[j].supersedes # i
      <4>1. PICK i \in Fresh : evidence[i].req = a /\ evidence[i].exit = "pass"
        BY <1>2, <3>2, <3>3, GateEvidences
      <4>2. i # 0
        BY <1>2 DEF Fresh, TypeOK, RowsOf
      <4> QED
        BY <4>1, <4>2 DEF Fresh, SupersededIds
    <3> QED
      BY <3>2, <3>3 DEF CriteriaEvidenced
  <2>3. CASE status' # "done"
    BY <2>3 DEF CriteriaEvidenced
  <2> QED
    BY <2>1, <2>2, <2>3
<1>3. TypeOK /\ GapInv /\ CriteriaEvidenced /\ [Next]_vars => (TypeOK /\ GapInv /\ CriteriaEvidenced)'
  BY <1>2, TypeOKNext, GapInvNext
<1> QED
  BY <1>1, <1>3, PTL DEF Spec
=============================================================================
