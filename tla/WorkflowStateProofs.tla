------------------------ MODULE WorkflowStateProofs ------------------------
(***************************************************************************)
(* Type correctness and the safety invariants of WorkflowState for every   *)
(* plan: any tasks, phases and dependencies, and any bound.                *)
(***************************************************************************)
EXTENDS WorkflowState, TLAPS

-----------------------------------------------------------------------------
(* The transition tables *)

\* What the rows requested with transitionTask alone have in common: they
\* leave nonterminal states, never enter done, enter a working state only
\* from a working state, and enter ready only past the readiness guards.
LEMMA PlainTaskEdge ==
  ASSUME NEW e \in PlainTaskEdges
  PROVE  /\ e \in TASK_TRANSITIONS
         /\ e.to \in TaskStates
         /\ e.from \subseteq TaskNonterminal
         /\ e.to # "done"
         /\ e.to \in InProgress => e.from \subseteq InProgress
         /\ e.to = "ready" => {"checks_registered", "readiness_valid"} \subseteq e.pre
BY DEF PlainTaskEdges, TASK_TRANSITIONS, TaskReady, TaskSubmit, TaskReview, TaskFailed,
   TaskChanges, TaskReplan, TaskStaleEvidence, TaskCancel, Edge, TaskStates,
   TaskNonterminal, TaskTerminal, InProgress, Active, READY_PRECONDITIONS

\* The rows a phase takes with transitionPhase alone.
LEMMA PlainPhaseEdge ==
  ASSUME NEW e \in PlainPhaseEdges, NEW kinds
  PROVE  /\ e \in PHASE_TRANSITIONS
         /\ e.from \subseteq PhaseNonterminal
         /\ GateStatusFor(e, kinds) \in GateStatuses
         /\ Lifecycle(GateStatusFor(e, kinds)) = e.to
BY DEF PlainPhaseEdges, PHASE_TRANSITIONS, PhaseGate, PhaseDone, PhaseFailed, PhaseGap,
   PhaseRecover, PhaseStaleEvidence, PhaseCancel, Edge, GateStatusFor, GateStatuses,
   GatingSubstages, PausedStatuses, Lifecycle, PHASE_DONE_PRECONDITIONS,
   PhaseNonterminal

\* The other rows a phase takes, and the status each one stores.
LEMMA OtherPhaseEdge ==
  ASSUME NEW kinds,
         NEW e \in {PhaseStart, PhasePause, PhaseInvalidate, PhaseResume, PhaseCap,
                    PhaseCapResume}
  PROVE  /\ e \in PHASE_TRANSITIONS
         /\ GateStatusFor(e, kinds) \in GateStatuses
         /\ Lifecycle(GateStatusFor(e, kinds)) = e.to
         /\ e.to \in {"running", "paused", "pending"}
BY DEF PHASE_TRANSITIONS, PhaseStart, PhasePause, PhaseInvalidate, PhaseResume, PhaseCap,
   PhaseCapResume, PhaseStaleEvidence, Edge, GateStatusFor, GateStatuses,
   GatingSubstages, PausedStatuses, Lifecycle

-----------------------------------------------------------------------------
(* Blocker rows *)

LEMMA RowsTyped ==
  ASSUME NEW c \in [Kinds -> Nat], NEW k \in Kinds, NEW e
  PROVE  /\ Raise(c, k) \in [Kinds -> Nat]
         /\ ResolveKind(c, k) \in [Kinds -> Nat]
         /\ NoRows \in [Kinds -> Nat]
         /\ RowsAfter(e, c) \in [Kinds -> Nat]
         /\ Unresolved(c) \in SUBSET (Kinds \cup PlanReasons)
BY DEF Raise, ResolveKind, NoRows, RowsAfter, Unresolved

LEMMA UnresolvedTyped ==
  ASSUME NEW c
  PROVE  Unresolved(c) \in SUBSET (Kinds \cup PlanReasons)
BY DEF Unresolved

-----------------------------------------------------------------------------
LEMMA InitTypeOK == Init => TypeOK
BY PlanAssumption DEF Init, TypeOK, TaskStates, TaskNonterminal, GateStatuses, NoRows,
   Kinds, PlanReasons, Receipts

\* Every operation keeps the store well formed.
LEMMA NextTypeOK == ASSUME TypeOK, [Next]_vars PROVE TypeOK'
<1> USE PlanAssumption DEF TypeOK, Subjects
<1>1. CASE UNCHANGED vars
  BY <1>1 DEF vars, taskVars, attemptVars
<1>2. ASSUME NEW t \in Tasks, NEW e \in PlainTaskEdges, NEW who, RequestTask(t, e, who)
      PROVE  TypeOK'
  BY <1>2, PlainTaskEdge, RowsTyped, UnresolvedTyped
     DEF RequestTask, CommitTask, attemptVars, Kinds
<1>3. ASSUME NEW t \in Tasks, ClaimTask(t) PROVE TypeOK'
  BY <1>3, UnresolvedTyped DEF ClaimTask, CommitTask, TaskDispatch, Edge, TaskStates, TaskNonterminal
<1>4. ASSUME NEW t \in Tasks, NEW pass \in BOOLEAN, RunTaskGate(t, pass) PROVE TypeOK'
  <2> DEFINE new == [task |-> t, revision |-> revision[t], attempt |-> attempts[t],
                     pass |-> pass, consumed |-> FALSE]
  <2>1. revision[t] \in Nat /\ attempts[t] \in Nat /\ FALSE \in BOOLEAN
    OBVIOUS
  <2>2. new \in Receipts
    BY <2>1, Zenon DEF Receipts
  <2>3. receipts' = receipts \cup {new}
    BY <1>4 DEF RunTaskGate
  <2> HIDE DEF new
  <2>4. receipts' \in SUBSET Receipts
    BY <2>2, <2>3
  <2> QED
    BY <1>4, <2>4 DEF RunTaskGate, taskVars, attemptVars
<1>5. ASSUME NEW t \in Tasks, NEW r \in receipts, CompleteTask(t, r) PROVE TypeOK'
  BY <1>5, UnresolvedTyped
     DEF CompleteTask, CommitTask, TaskDone, Edge, TaskStates, TaskTerminal, attemptVars, Receipts
<1>6. ASSUME NEW t \in Tasks, NEW k \in Kinds, RaiseTaskBlocker(t, k) PROVE TypeOK'
  BY <1>6, RowsTyped, UnresolvedTyped
     DEF RaiseTaskBlocker, attemptVars, TaskStates, TaskNonterminal
<1>7. ASSUME NEW p \in Phases, NEW k \in Kinds, RaisePhaseBlocker(p, k) PROVE TypeOK'
  <2>1. Raise(rows[p], k) \in [Kinds -> Nat] /\ Raise(Raise(rows[p], k), k) \in [Kinds -> Nat]
    BY RowsTyped
  <2> DEFINE moves == Lifecycle(gateStatus[p]) \notin PhaseTerminal \cup {"paused"}
  <2>2. CASE moves
    <3> DEFINE after == Raise(Raise(rows[p], k), k)
    <3>1. /\ rows' = [rows EXCEPT ![p] = after]
          /\ gateStatus' = [gateStatus EXCEPT ![p] = GateStatusFor(PhasePause, Unresolved(after))]
          /\ UNCHANGED <<taskVars, receipts>>
      BY <1>7, <2>2 DEF RaisePhaseBlocker, CommitPhase
    <3>2. after \in [Kinds -> Nat]
      BY <2>1
    <3> HIDE DEF after
    <3> QED
      BY <3>1, <3>2, OtherPhaseEdge DEF taskVars, attemptVars
  <2>3. CASE ~moves
    BY <1>7, <2>1, <2>3 DEF RaisePhaseBlocker, taskVars, attemptVars
  <2> QED
    BY <2>2, <2>3
<1>8. ASSUME NEW s \in Subjects, NEW k \in Kinds, ResolveBlocker(s, k) PROVE TypeOK'
  <2>1. rows[s][k] - 1 \in Nat /\ rows[s] \in [Kinds -> Nat]
    BY <1>8 DEF ResolveBlocker
  <2> DEFINE left == [rows[s] EXCEPT ![k] = rows[s][k] - 1]
  <2>2. left \in [Kinds -> Nat]
    BY <2>1
  <2>3. rows' \in [Subjects -> [Kinds -> Nat]]
    <3>1. rows' = [rows EXCEPT ![s] = left]
      BY <1>8 DEF ResolveBlocker
    <3> HIDE DEF left
    <3> QED
      BY <3>1, <2>2
  <2>4. blocker' \in [Tasks -> SUBSET (Kinds \cup PlanReasons)]
    BY <1>8, UnresolvedTyped DEF ResolveBlocker
  <2> QED
    BY <1>8, <2>3, <2>4 DEF ResolveBlocker, attemptVars
<1>9. ASSUME NEW p \in Phases, NEW e \in PlainPhaseEdges, NEW who, RequestPhase(p, e, who)
      PROVE  TypeOK'
  BY <1>9, PlainPhaseEdge DEF RequestPhase, CommitPhase, taskVars, attemptVars
<1>10. ASSUME NEW p \in Phases, NEW who, StartPhase(p, who) PROVE TypeOK'
  BY <1>10, OtherPhaseEdge DEF StartPhase, CommitPhase, taskVars, attemptVars
<1>11. ASSUME NEW p \in Phases, NEW who, NEW k \in Kinds, StopPhase(p, who, k) PROVE TypeOK'
  BY <1>11, OtherPhaseEdge, RowsTyped DEF StopPhase, CommitPhase, taskVars, attemptVars
<1>12. ASSUME NEW p \in Phases, NEW authorized \in BOOLEAN, ResumePhase(p, authorized)
       PROVE  TypeOK'
  <2> DEFINE after == ResolveKind(rows[p], "budget_hard_stop")
             clear == Unresolved(after) = {} /\ authorized
  <2>1. after \in [Kinds -> Nat]
    BY RowsTyped DEF Kinds
  <2>2. rows' = [rows EXCEPT ![p] = after]
    BY <1>12 DEF ResumePhase
  <2>3. gateStatus' = gateStatus \/ CommitPhase(p, PhaseResume, after)
    BY <1>12 DEF ResumePhase
  <2>4. UNCHANGED <<taskVars, receipts>>
    BY <1>12 DEF ResumePhase
  <2> QED
    BY SMTT(30), <2>1, <2>2, <2>3, <2>4, OtherPhaseEdge DEF CommitPhase, taskVars, attemptVars
<1>13. ASSUME NEW p \in Phases, AdvanceGatingSubstage(p) PROVE TypeOK'
  BY <1>13 DEF AdvanceGatingSubstage, taskVars, attemptVars, GateStatuses, GatingSubstages
<1>14. ASSUME NEW t \in Tasks, ApplyCapPause(t) PROVE TypeOK'
  BY <1>14, OtherPhaseEdge, RowsTyped, UnresolvedTyped
     DEF ApplyCapPause, CommitPhase, CommitTask, attemptVars, TaskCap, Edge, TaskStates,
     TaskNonterminal, Kinds
<1>15. ASSUME NEW t \in Tasks, ResumeIfCapCleared(t) PROVE TypeOK'
  BY <1>15, OtherPhaseEdge, RowsTyped, UnresolvedTyped
     DEF ResumeIfCapCleared, CommitPhase, CommitTask, attemptVars, TaskCapResume, Edge,
     TaskStates, TaskNonterminal, Kinds
<1>16. ASSUME NEW ts, NEW ps, Invalidate(ts, ps)
       PROVE  /\ status' \in [Tasks -> TaskStates]
              /\ blocker' \in [Tasks -> SUBSET (Kinds \cup PlanReasons)]
              /\ gateStatus' \in [Phases -> GateStatuses]
              /\ rows' \in [Subjects -> [Kinds -> Nat]]
  BY <1>16, OtherPhaseEdge, RowsTyped, UnresolvedTyped
     DEF Invalidate, TaskStates, TaskNonterminal, Kinds
<1>17. ASSUME NEW t \in Tasks, NEW defChanged \in BOOLEAN, NEW hasCheck \in BOOLEAN,
              ReviseTask(t, defChanged, hasCheck)
       PROVE  TypeOK'
  <2> DEFINE ts == {t} \cap NonterminalTasks
             ps == NonterminalPhases \cap {PhaseOf[u] : u \in ts}
  <2>1. Invalidate(ts, ps) /\ UNCHANGED <<attemptVars, receipts>>
    BY <1>17 DEF ReviseTask
  <2>2. /\ status' \in [Tasks -> TaskStates]
        /\ blocker' \in [Tasks -> SUBSET (Kinds \cup PlanReasons)]
        /\ gateStatus' \in [Phases -> GateStatuses]
        /\ rows' \in [Subjects -> [Kinds -> Nat]]
    <3> HIDE DEF ts, ps, TypeOK
    <3> QED
      BY <1>16, <2>1
  <2>3. revision' \in [Tasks -> Nat] /\ checked' \in SUBSET Tasks
    <3>1. CASE defChanged
      <4>1. /\ revision' = [revision EXCEPT ![t] = @ + 1]
            /\ checked' = checked \cup {t} \/ checked' = checked \ {t}
        BY <1>17, <3>1, Zenon DEF ReviseTask
      <4> QED
        BY <4>1
    <3>2. CASE ~defChanged
      BY <1>17, <3>2 DEF ReviseTask
    <3> QED
      BY <3>1, <3>2
  <2> QED
    BY <2>1, <2>2, <2>3 DEF attemptVars
<1>18. ASSUME NEW stop \in BOOLEAN, ApplyInvalidation(stop) PROVE TypeOK'
  BY <1>16, <1>18 DEF ApplyInvalidation, attemptVars
<1>19. ASSUME NEW t \in Tasks, TaskNext(t) PROVE TypeOK'
  BY <1>2, <1>3, <1>4, <1>5, <1>6, <1>14, <1>15, <1>17, <1>19 DEF TaskNext, Kinds
<1>20. ASSUME NEW p \in Phases, PhaseNext(p) PROVE TypeOK'
  <2>1. {"user_pause", "user_stop", "budget_hard_stop"} \subseteq Kinds
    BY DEF Kinds
  <2> HIDE DEF TypeOK
  <2> QED
    BY <1>7, <1>9, <1>10, <1>11, <1>12, <1>13, <1>20, <2>1, Zenon DEF PhaseNext
<1> QED
  BY <1>1, <1>8, <1>18, <1>19, <1>20 DEF Next

\* The store is well typed in every reachable state, for every plan.
THEOREM TypeCorrect == Spec => []TypeOK
<1>1. Init => TypeOK
  BY InitTypeOK
<1>2. TypeOK /\ [Next]_vars => TypeOK'
  BY NextTypeOK
<1> QED
  BY <1>1, <1>2, PTL DEF Spec

-----------------------------------------------------------------------------
(* The safety invariants.  They hold together: the dependency order rests
   on done being final, and both readiness properties on
   every raised row taking its task out of the active states.               *)

Safety ==
  /\ ActiveTaskUnheld
  /\ WorkAtCurrentRevision
  /\ DoneOverDoneDependencies

LEMMA InitSafety == Init => Safety
BY PlanAssumption
   DEF Init, Safety, ActiveTaskUnheld, WorkAtCurrentRevision, DoneOverDoneDependencies,
   Active, InProgress

\* What a step must do for the invariants to survive it: nothing leaves done;
\* a task that is active afterwards is unheld, and carries an attempt at its
\* revision once dispatched; a task or a phase that was not already in the
\* states an invariant speaks of enters them past the guard.
SafeStep ==
  /\ \A t \in Tasks : status[t] = "done" => status'[t] = "done"
  /\ \A t \in Tasks : status'[t] \in Active =>
       Unresolved(rows'[t]) = {} /\ blocker'[t] = {} /\ t \in checked'
  /\ \A t \in Tasks : status'[t] \in InProgress => attemptRevision'[t] = revision'[t]
  /\ \A t \in Tasks : status'[t] \in {"done"} \cup Active =>
       DependenciesDone(t) \/ status[t] \in {"done"} \cup Active

LEMMA SafeStepSafety == ASSUME TypeOK, TypeOK', Safety, SafeStep PROVE Safety'
<1> USE PlanAssumption DEF SafeStep
<1>1. ActiveTaskUnheld'
  BY DEF ActiveTaskUnheld
<1>2. WorkAtCurrentRevision'
  BY DEF WorkAtCurrentRevision
<1>3. DoneOverDoneDependencies'
  BY DEF Safety, DoneOverDoneDependencies, DependenciesDone
<1> QED
  BY <1>1, <1>2, <1>3 DEF Safety

\* The part of SafeStep about tasks, when a step leaves them alone.
LEMMA TasksUntouched ==
  ASSUME TypeOK, TypeOK', Safety, UNCHANGED taskVars, \A t \in Tasks : rows'[t] = rows[t]
  PROVE  /\ \A t \in Tasks : status[t] = "done" => status'[t] = "done"
         /\ \A t \in Tasks : status'[t] \in Active =>
              Unresolved(rows'[t]) = {} /\ blocker'[t] = {} /\ t \in checked'
         /\ \A t \in Tasks : status'[t] \in InProgress => attemptRevision'[t] = revision'[t]
         /\ \A t \in Tasks : status'[t] \in {"done"} \cup Active =>
              DependenciesDone(t) \/ status[t] \in {"done"} \cup Active
BY DEF taskVars, attemptVars, Safety, ActiveTaskUnheld, WorkAtCurrentRevision

\* A transaction on one phase is a safe step: it writes rows of that phase.
LEMMA PhaseAloneSafe ==
  ASSUME TypeOK, TypeOK', Safety, UNCHANGED <<taskVars>>,
         NEW p \in Phases, NEW c,
         rows' = [rows EXCEPT ![p] = c]
  PROVE  SafeStep
<1>1. \A t \in Tasks : rows'[t] = rows[t]
  BY PlanAssumption DEF TypeOK, Subjects
<1> QED
  BY <1>1, TasksUntouched DEF SafeStep

-----------------------------------------------------------------------------
\* Every operation is a safe step.
LEMMA NextSafeStep == ASSUME TypeOK, TypeOK', Safety, Next PROVE SafeStep
<1> USE PlanAssumption DEF Subjects
<1>1. ASSUME NEW t \in Tasks, NEW e \in PlainTaskEdges, NEW who, RequestTask(t, e, who)
      PROVE  SafeStep
  <2> DEFINE c == RowsAfter(e, rows[t])
  <2>1. /\ status' = [status EXCEPT ![t] = e.to]
        /\ blocker' = [blocker EXCEPT ![t] = Unresolved(c)]
        /\ rows' = [rows EXCEPT ![t] = c]
        /\ UNCHANGED <<revision, checked, attemptRevision, gateStatus>>
        /\ status[t] \in e.from
        /\ StructuralGuards(t, e.pre, rows[t])
    BY <1>1 DEF RequestTask, CommitTask, attemptVars, TaskEdgeAllowed
  <2>2. status[t] # "done" /\ e.to # "done"
    BY <2>1, PlainTaskEdge DEF TaskNonterminal
  <2>3. e.to \in Active => Unresolved(c) = {} /\ t \in checked /\ (DependenciesDone(t) \/ status[t] \in Active)
    <3>1. e.to \in Active => c = rows[t]
      BY DEF RowsAfter, Active
    <3>2. CASE e.to = "ready"
      BY <2>1, <3>1, <3>2, PlainTaskEdge DEF StructuralGuards, Active
    <3>3. CASE e.to \in InProgress
      BY <2>1, <3>1, <3>3, PlainTaskEdge DEF InProgress, Safety, ActiveTaskUnheld
    <3> QED
      BY <3>2, <3>3 DEF Active, InProgress
  <2>4. e.to \in InProgress => status[t] \in InProgress
    BY <2>1, PlainTaskEdge
  <2> HIDE DEF c
  <2> QED
    BY <2>1, <2>2, <2>3, <2>4
       DEF SafeStep, TypeOK, Safety, ActiveTaskUnheld, WorkAtCurrentRevision
<1>2. ASSUME NEW t \in Tasks, ClaimTask(t) PROVE SafeStep
  <2>1. /\ status' = [status EXCEPT ![t] = "running"]
        /\ blocker' = [blocker EXCEPT ![t] = Unresolved(rows[t])]
        /\ attemptRevision' = [attemptRevision EXCEPT ![t] = revision[t]]
        /\ UNCHANGED <<revision, checked, gateStatus, rows>>
        /\ status[t] = "ready"
    BY <1>2 DEF ClaimTask, CommitTask, TaskEdgeAllowed, TaskDispatch, Edge, RowsAfter
  <2> QED
    BY <2>1 DEF SafeStep, TypeOK, Safety, ActiveTaskUnheld, WorkAtCurrentRevision, Active, InProgress
<1>3. ASSUME NEW t \in Tasks, NEW pass \in BOOLEAN, RunTaskGate(t, pass) PROVE SafeStep
  BY <1>3, TasksUntouched DEF RunTaskGate, SafeStep
<1>4. ASSUME NEW t \in Tasks, NEW r \in receipts, CompleteTask(t, r) PROVE SafeStep
  <2>1. /\ status' = [status EXCEPT ![t] = "done"]
        /\ blocker' = [blocker EXCEPT ![t] = Unresolved(rows[t])]
        /\ UNCHANGED <<revision, checked, attemptRevision, gateStatus, rows>>
        /\ status[t] = "review"
    BY <1>4 DEF CompleteTask, CommitTask, TaskEdgeAllowed, TaskDone, Edge, RowsAfter, attemptVars
  <2> QED
    BY <2>1 DEF SafeStep, TypeOK, Safety, ActiveTaskUnheld, WorkAtCurrentRevision, Active, InProgress
<1>5. ASSUME NEW t \in Tasks, NEW k \in Kinds, RaiseTaskBlocker(t, k) PROVE SafeStep
  <2>1. /\ status' = [status EXCEPT ![t] = IF @ \in TaskTerminal THEN @ ELSE "blocked"]
        /\ \A u \in Tasks \ {t} : blocker'[u] = blocker[u] /\ rows'[u] = rows[u]
        /\ UNCHANGED <<revision, checked, attemptRevision, gateStatus>>
    BY <1>5 DEF RaiseTaskBlocker, attemptVars, TypeOK
  <2> QED
    BY <2>1 DEF SafeStep, TypeOK, Safety, ActiveTaskUnheld, WorkAtCurrentRevision, Active,
       InProgress, TaskTerminal
<1>6. ASSUME NEW p \in Phases, NEW k \in Kinds, RaisePhaseBlocker(p, k) PROVE SafeStep
  <2>1. PICK c : /\ rows' = [rows EXCEPT ![p] = c]
                 /\ UNCHANGED taskVars
    BY <1>6 DEF RaisePhaseBlocker
  <2> QED
    BY <2>1, PhaseAloneSafe
<1>7. ASSUME NEW s \in Subjects, NEW k \in Kinds, ResolveBlocker(s, k) PROVE SafeStep
  <2>1. \A t \in Tasks : Unresolved(rows'[t]) \subseteq Unresolved(rows[t])
    BY <1>7 DEF ResolveBlocker, TypeOK, Unresolved
  <2>2. \A t \in Tasks : blocker'[t] \in {blocker[t], Unresolved(rows'[t])}
    BY <1>7 DEF ResolveBlocker
  <2> QED
    BY <1>7, <2>1, <2>2
       DEF ResolveBlocker, attemptVars, SafeStep, Safety, ActiveTaskUnheld, WorkAtCurrentRevision
<1>8. ASSUME NEW p \in Phases, NEW e \in PlainPhaseEdges, NEW who, RequestPhase(p, e, who)
      PROVE  SafeStep
  <2>1. rows' = [rows EXCEPT ![p] = rows[p]] /\ UNCHANGED taskVars
    BY <1>8 DEF RequestPhase, TypeOK
  <2> QED
    BY <2>1, PhaseAloneSafe
<1>9. ASSUME NEW p \in Phases, NEW who, StartPhase(p, who) PROVE SafeStep
  <2>1. rows' = [rows EXCEPT ![p] = rows[p]]
    BY <1>9 DEF StartPhase, TypeOK
  <2> QED
    BY <1>9, <2>1, PhaseAloneSafe DEF StartPhase
<1>10. ASSUME NEW p \in Phases, NEW who, NEW k \in Kinds, StopPhase(p, who, k) PROVE SafeStep
  BY <1>10, PhaseAloneSafe DEF StopPhase
<1>11. ASSUME NEW p \in Phases, NEW authorized \in BOOLEAN, ResumePhase(p, authorized)
       PROVE  SafeStep
  BY <1>11, PhaseAloneSafe DEF ResumePhase
<1>12. ASSUME NEW p \in Phases, AdvanceGatingSubstage(p) PROVE SafeStep
  <2>1. rows' = [rows EXCEPT ![p] = rows[p]] /\ UNCHANGED taskVars
    BY <1>12 DEF AdvanceGatingSubstage, TypeOK
  <2> QED
    BY <2>1, PhaseAloneSafe
<1>13. ASSUME NEW t \in Tasks, ApplyCapPause(t) PROVE SafeStep
  <2> DEFINE p == PhaseOf[t]
  <2>1. /\ status' = [status EXCEPT ![t] = "paused_cap"]
        /\ \A u \in Tasks \ {t} : blocker'[u] = blocker[u] /\ rows'[u] = rows[u]
        /\ UNCHANGED <<revision, checked, attemptRevision>>
    BY <1>13 DEF ApplyCapPause, CommitTask, CommitPhase, TaskCap, Edge, attemptVars, TypeOK
  <2>2. status[t] # "done"
    BY <1>13 DEF ApplyCapPause, CapPauseAllowed, TaskEdgeAllowed, TaskCap, Edge
  <2> QED
    BY <2>1, <2>2
       DEF SafeStep, TypeOK, Safety, ActiveTaskUnheld, WorkAtCurrentRevision, Active, InProgress
<1>14. ASSUME NEW t \in Tasks, ResumeIfCapCleared(t) PROVE SafeStep
  <2> DEFINE p == PhaseOf[t]
             c == ResolveKind(rows[t], "all_candidates_capped")
  <2>1. rows'[t] = c /\ \A u \in Tasks \ {t} : rows'[u] = rows[u]
    BY <1>14 DEF ResumeIfCapCleared, TypeOK
  <2>2. /\ status' = [status EXCEPT ![t] = "ready"]
        /\ blocker' = [blocker EXCEPT ![t] = Unresolved(c)]
        /\ UNCHANGED <<revision, checked, attemptRevision>>
    <3>1. TaskCapResume.to = "ready"
      BY DEF TaskCapResume, Edge
    <3>2. RowsAfter(TaskCapResume, rows'[t]) = c
      BY <2>1, <3>1 DEF RowsAfter
    <3> HIDE DEF c
    <3> QED
      BY <1>14, <3>1, <3>2 DEF ResumeIfCapCleared, CommitTask, CommitPhase, attemptVars
  <2>3. /\ status[t] = "paused_cap"
        /\ Unresolved(c) = {}
        /\ t \in checked
        /\ DependenciesDone(t)
    BY <1>14
       DEF ResumeIfCapCleared, CapResumeAllowed, TaskEdgeAllowed, StructuralGuards,
       TaskCapResume, Edge, READY_PRECONDITIONS
  <2> HIDE DEF c
  <2> QED
    BY <2>1, <2>2, <2>3
       DEF SafeStep, TypeOK, Safety, ActiveTaskUnheld, WorkAtCurrentRevision, Active, InProgress
<1>15. ASSUME NEW ts \in SUBSET NonterminalTasks, NEW ps \in SUBSET Phases,
              Invalidate(ts, ps), UNCHANGED attemptVars,
              \A t \in Tasks \ ts : status[t] \notin TaskTerminal =>
                 revision'[t] = revision[t] /\ (t \in checked <=> t \in checked')
       PROVE  SafeStep
  <2>1. /\ \A t \in ts : status[t] \notin TaskTerminal /\ status'[t] = "blocked"
        /\ \A t \in Tasks \ ts : /\ status'[t] = status[t]
                                 /\ blocker'[t] = blocker[t]
                                 /\ t \notin ps => rows'[t] = rows[t]
    BY <1>15 DEF Invalidate, NonterminalTasks
  <2>2. \A t \in Tasks \ ts : rows'[t] = rows[t]
    BY <2>1
  <2> QED
    BY <1>15, <2>1, <2>2
       DEF SafeStep, Safety, ActiveTaskUnheld, WorkAtCurrentRevision, Active, InProgress,
       TaskTerminal, attemptVars
<1>16. ASSUME NEW t \in Tasks, NEW defChanged \in BOOLEAN, NEW hasCheck \in BOOLEAN,
              ReviseTask(t, defChanged, hasCheck)
       PROVE  SafeStep
  <2> DEFINE ts == {t} \cap NonterminalTasks
             ps == NonterminalPhases \cap {PhaseOf[u] : u \in ts}
  <2>1. Invalidate(ts, ps) /\ UNCHANGED attemptVars
    BY <1>16 DEF ReviseTask
  <2>2. \A u \in Tasks \ {t} : revision'[u] = revision[u] /\ (u \in checked <=> u \in checked')
    <3>1. CASE defChanged
      <4>1. /\ revision' = [revision EXCEPT ![t] = @ + 1]
            /\ checked' = checked \cup {t} \/ checked' = checked \ {t}
        BY <1>16, <3>1, Zenon DEF ReviseTask
      <4> QED
        BY <4>1 DEF TypeOK
    <3>2. CASE ~defChanged
      BY <1>16, <3>2 DEF ReviseTask
    <3> QED
      BY <3>1, <3>2
  <2>3. /\ ts \in SUBSET NonterminalTasks
        /\ ps \in SUBSET Phases
        /\ \A u \in Tasks \ ts : status[u] \notin TaskTerminal => u # t
    BY DEF NonterminalTasks, NonterminalPhases
  <2> HIDE DEF ts, ps
  <2> QED
    BY <1>15, <2>1, <2>2, <2>3
<1>17. ASSUME NEW stop \in BOOLEAN, ApplyInvalidation(stop) PROVE SafeStep
  <2>1. PICK ps \in SUBSET Phases : Invalidate(NonterminalTasks, ps)
    BY <1>17 DEF ApplyInvalidation, NonterminalPhases
  <2>2. UNCHANGED <<revision, checked, attemptVars>>
    BY <1>17 DEF ApplyInvalidation
  <2> QED
    BY <1>15, <2>1, <2>2
<1>18. ASSUME NEW t \in Tasks, TaskNext(t) PROVE SafeStep
  <2>1. "user_pause" \in Kinds
    BY DEF Kinds
  <2> QED
    BY <1>1, <1>2, <1>3, <1>4, <1>5, <1>13, <1>14, <1>16, <1>18, <2>1, Zenon DEF TaskNext
<1>19. ASSUME NEW p \in Phases, PhaseNext(p) PROVE SafeStep
  <2>1. {"user_pause", "user_stop", "budget_hard_stop"} \subseteq Kinds
    BY DEF Kinds
  <2> QED
    BY <1>6, <1>8, <1>9, <1>10, <1>11, <1>12, <1>19, <2>1, Zenon DEF PhaseNext
<1> QED
  BY <1>7, <1>17, <1>18, <1>19, Zenon DEF Next

LEMMA NextSafety == ASSUME TypeOK, Safety, [Next]_vars PROVE Safety'
<1>1. TypeOK'
  BY NextTypeOK
<1>2. CASE Next
  BY <1>1, <1>2, NextSafeStep, SafeStepSafety
<1>3. CASE UNCHANGED vars
  BY <1>3 DEF vars, taskVars, attemptVars, Safety, ActiveTaskUnheld, WorkAtCurrentRevision,
     DoneOverDoneDependencies
<1> QED
  BY <1>2, <1>3

LEMMA SafetyInvariant == Spec => [](TypeOK /\ Safety)
<1>1. Init => TypeOK /\ Safety
  BY InitTypeOK, InitSafety
<1>2. TypeOK /\ Safety /\ [Next]_vars => TypeOK' /\ Safety'
  BY NextTypeOK, NextSafety
<1> QED
  BY <1>1, <1>2, PTL DEF Spec

\* For every plan: a task that is ready, running, verifying or in review has
\* no unresolved blocker, an empty Task.blocker and a registered check.
THEOREM ActiveTaskUnheldTheorem == Spec => []ActiveTaskUnheld
<1>1. TypeOK /\ Safety => ActiveTaskUnheld
  BY DEF Safety
<1> QED
  BY <1>1, SafetyInvariant, PTL

\* For every plan: a dispatched task is worked on at its current revision.
THEOREM WorkAtCurrentRevisionTheorem == Spec => []WorkAtCurrentRevision
<1>1. TypeOK /\ Safety => WorkAtCurrentRevision
  BY DEF Safety
<1> QED
  BY <1>1, SafetyInvariant, PTL

\* For every plan: done and active tasks rest on done dependencies.
THEOREM DoneOverDoneDependenciesTheorem == Spec => []DoneOverDoneDependencies
<1>1. TypeOK /\ Safety => DoneOverDoneDependencies
  BY DEF Safety
<1> QED
  BY <1>1, SafetyInvariant, PTL

-----------------------------------------------------------------------------
(* Moves along the tables, and the receipts that done rests on.  CompleteTask
   is the one action that enters done and the one that consumes a receipt;
   every other action is a plain step.                                      *)

OtherTaskRows == TASK_TRANSITIONS \ {TaskDone}

TasksMoveByOtherRows ==
  \A t \in Tasks : status'[t] # status[t] =>
    \E e \in OtherTaskRows : status[t] \in e.from /\ status'[t] = e.to

PhasesMoveByRows ==
  \A p \in Phases : Lifecycle(gateStatus'[p]) # Lifecycle(gateStatus[p]) =>
    \E e \in PHASE_TRANSITIONS :
      /\ Lifecycle(gateStatus[p]) \in e.from
      /\ Lifecycle(gateStatus'[p]) = e.to

ReceiptsOnlyMinted ==
  /\ receipts \subseteq receipts'
  /\ \A r \in receipts' \ receipts : ~r.consumed

PlainStep == TasksMoveByOtherRows /\ PhasesMoveByRows /\ ReceiptsOnlyMinted

\* Only task-done enters done, and no row leaves it.
LEMMA OtherRowsAvoidDone ==
  ASSUME NEW e \in OtherTaskRows
  PROVE  e.to # "done" /\ "done" \notin e.from
BY DEF OtherTaskRows, TASK_TRANSITIONS, TaskReady, TaskDispatch, TaskSubmit, TaskReview,
   TaskDone, TaskFailed, TaskChanges, TaskBlock, TaskInvalidate, TaskReplan,
   TaskStaleEvidence, TaskCap, TaskCapResume, TaskCancel, Edge, TaskNonterminal

\* The rows the compound operations take.
LEMMA OperationRows ==
  /\ PlainTaskEdges \cup {TaskDispatch, TaskBlock, TaskInvalidate, TaskCap, TaskCapResume}
       \subseteq OtherTaskRows
  /\ TaskBlock.from = TaskNonterminal /\ TaskBlock.to = "blocked"
  /\ PhasePause.from = PhaseNonterminal /\ PhasePause.to = "paused"
  /\ PhaseInvalidate.from = PhaseNonterminal /\ PhaseInvalidate.to = "paused"
  /\ PhaseResume.from = {"paused"} /\ PhaseResume.to = "pending"
<1>1. TaskDone.to = "done"
  BY DEF TaskDone, Edge
<1>2. PlainTaskEdges \subseteq OtherTaskRows
  BY <1>1, PlainTaskEdge DEF OtherTaskRows
<1>3. {TaskDispatch, TaskBlock, TaskInvalidate, TaskCap, TaskCapResume} \subseteq OtherTaskRows
  BY <1>1
     DEF OtherTaskRows, TASK_TRANSITIONS, TaskDispatch, TaskBlock, TaskInvalidate, TaskCap,
     TaskCapResume, Edge
<1> QED
  BY <1>2, <1>3 DEF TaskBlock, PhasePause, PhaseInvalidate, PhaseResume, Edge

\* One task moving along a row, or one phase, and nothing else moving.
LEMMA OneTaskMoves ==
  ASSUME TypeOK, NEW t \in Tasks, NEW e \in OtherTaskRows,
         status[t] \in e.from, status' = [status EXCEPT ![t] = e.to]
  PROVE  TasksMoveByOtherRows
BY DEF TypeOK, TasksMoveByOtherRows

LEMMA OnePhaseMoves ==
  ASSUME TypeOK, NEW p \in Phases, NEW e \in PHASE_TRANSITIONS, NEW kinds,
         Lifecycle(gateStatus[p]) \in e.from,
         Lifecycle(GateStatusFor(e, kinds)) = e.to,
         gateStatus' = [gateStatus EXCEPT ![p] = GateStatusFor(e, kinds)]
  PROVE  PhasesMoveByRows
<1> DEFINE g == GateStatusFor(e, kinds)
<1> HIDE DEF g
<1> QED
  BY DEF TypeOK, PhasesMoveByRows, g

\* The lifecycle states, and those a phase can still move from.
LEMMA LifecycleStates ==
  ASSUME NEW g \in GateStatuses
  PROVE  Lifecycle(g) \in PhaseNonterminal \cup PhaseTerminal
BY DEF GateStatuses, GatingSubstages, PausedStatuses, Lifecycle, PhaseNonterminal,
   PhaseTerminal

\* An invalidation blocks unfinished tasks and pauses unfinished phases.
LEMMA InvalidateMoves ==
  ASSUME TypeOK, NEW ts \in SUBSET NonterminalTasks, NEW ps \in SUBSET NonterminalPhases,
         Invalidate(ts, ps)
  PROVE  TasksMoveByOtherRows /\ PhasesMoveByRows
<1>1. TasksMoveByOtherRows
  <2>1. \A t \in Tasks : status'[t] # status[t] =>
           t \in ts /\ status[t] \in TaskNonterminal /\ status'[t] = "blocked"
    BY DEF Invalidate, NonterminalTasks, TypeOK, TaskStates
  <2> QED
    BY <2>1, OperationRows DEF TasksMoveByOtherRows
<1>2. PhasesMoveByRows
  <2>1. ASSUME NEW p \in Phases, gateStatus'[p] # gateStatus[p]
        PROVE  Lifecycle(gateStatus[p]) \in PhaseNonterminal /\ Lifecycle(gateStatus'[p]) = "paused"
    <3>1. /\ p \in ps
          /\ gateStatus'[p] = GateStatusFor(PhaseInvalidate, Unresolved(rows'[p]))
      BY <2>1 DEF Invalidate
    <3> QED
      BY <3>1, OtherPhaseEdge, OperationRows, LifecycleStates DEF NonterminalPhases, TypeOK
  <2>2. PhaseInvalidate \in PHASE_TRANSITIONS
    BY DEF PHASE_TRANSITIONS
  <2> QED
    BY <2>1, <2>2, OperationRows DEF PhasesMoveByRows
<1> QED
  BY <1>1, <1>2

\* Every step but a completion is a plain step.
LEMMA NextPlainStep ==
  ASSUME TypeOK, Next, ~\E t \in Tasks, r \in receipts : CompleteTask(t, r)
  PROVE  PlainStep
<1> USE PlanAssumption DEF Subjects
<1>a. ASSUME UNCHANGED gateStatus PROVE PhasesMoveByRows
  BY <1>a DEF PhasesMoveByRows
<1>b. ASSUME UNCHANGED status PROVE TasksMoveByOtherRows
  BY <1>b DEF TasksMoveByOtherRows
<1>c. ASSUME UNCHANGED receipts PROVE ReceiptsOnlyMinted
  BY <1>c DEF ReceiptsOnlyMinted
<1>1. ASSUME NEW t \in Tasks, NEW e \in PlainTaskEdges, NEW who, RequestTask(t, e, who)
      PROVE  PlainStep
  BY <1>a, <1>c, <1>1, OneTaskMoves, OperationRows
     DEF RequestTask, CommitTask, TaskEdgeAllowed, PlainStep
<1>2. ASSUME NEW t \in Tasks, ClaimTask(t) PROVE PlainStep
  BY <1>a, <1>c, <1>2, OneTaskMoves, OperationRows
     DEF ClaimTask, CommitTask, TaskEdgeAllowed, PlainStep
<1>3. ASSUME NEW t \in Tasks, NEW pass \in BOOLEAN, RunTaskGate(t, pass) PROVE PlainStep
  <2>1. UNCHANGED <<status, gateStatus>>
    BY <1>3 DEF RunTaskGate, taskVars
  <2>2. ReceiptsOnlyMinted
    BY <1>3 DEF RunTaskGate, ReceiptsOnlyMinted
  <2> QED
    BY <1>a, <1>b, <2>1, <2>2 DEF PlainStep
<1>4. ASSUME NEW t \in Tasks, NEW k \in Kinds, RaiseTaskBlocker(t, k) PROVE PlainStep
  <2>1. TasksMoveByOtherRows
    BY <1>4, OperationRows
       DEF RaiseTaskBlocker, TypeOK, TaskStates, TasksMoveByOtherRows
  <2> QED
    BY <1>a, <1>c, <1>4, <2>1 DEF RaiseTaskBlocker, PlainStep
<1>5. ASSUME NEW p \in Phases, NEW k \in Kinds, RaisePhaseBlocker(p, k) PROVE PlainStep
  <2>1. PICK c : /\ \/ gateStatus' = gateStatus
                    \/ /\ Lifecycle(gateStatus[p]) \notin PhaseTerminal
                       /\ CommitPhase(p, PhasePause, c)
                 /\ UNCHANGED <<taskVars, receipts>>
    BY <1>5 DEF RaisePhaseBlocker
  <2>2. Lifecycle(gateStatus[p]) \notin PhaseTerminal => Lifecycle(gateStatus[p]) \in PhasePause.from
    BY LifecycleStates, OperationRows DEF TypeOK
  <2> QED
    BY <1>a, <1>b, <1>c, <2>1, <2>2, OnePhaseMoves, OtherPhaseEdge
       DEF CommitPhase, taskVars, PlainStep
<1>6. ASSUME NEW s \in Subjects, NEW k \in Kinds, ResolveBlocker(s, k) PROVE PlainStep
  BY <1>a, <1>b, <1>c, <1>6 DEF ResolveBlocker, PlainStep
<1>7. ASSUME NEW p \in Phases, NEW e \in PlainPhaseEdges, NEW who, RequestPhase(p, e, who)
      PROVE  PlainStep
  BY <1>b, <1>c, <1>7, OnePhaseMoves, PlainPhaseEdge
     DEF RequestPhase, CommitPhase, PhaseEdgeAllowed, taskVars, PlainStep
<1>8. ASSUME NEW p \in Phases, NEW who, StartPhase(p, who) PROVE PlainStep
  BY <1>b, <1>c, <1>8, OnePhaseMoves, OtherPhaseEdge
     DEF StartPhase, CommitPhase, PhaseEdgeAllowed, taskVars, PlainStep
<1>9. ASSUME NEW p \in Phases, NEW who, NEW k \in Kinds, StopPhase(p, who, k) PROVE PlainStep
  BY <1>b, <1>c, <1>9, OnePhaseMoves, OtherPhaseEdge
     DEF StopPhase, CommitPhase, PhaseEdgeAllowed, taskVars, PlainStep
<1>10. ASSUME NEW p \in Phases, NEW authorized \in BOOLEAN, ResumePhase(p, authorized)
       PROVE  PlainStep
  <2>1. PICK c : /\ gateStatus' = gateStatus \/ CommitPhase(p, PhaseResume, c)
                 /\ gateStatus[p] \in PausedStatuses
                 /\ UNCHANGED <<taskVars, receipts>>
    BY <1>10 DEF ResumePhase
  <2>2. Lifecycle(gateStatus[p]) \in PhaseResume.from
    BY <2>1, OperationRows DEF Lifecycle, PausedStatuses, GatingSubstages
  <2> QED
    BY <1>a, <1>b, <1>c, <2>1, <2>2, OnePhaseMoves, OtherPhaseEdge
       DEF CommitPhase, taskVars, PlainStep
<1>11. ASSUME NEW p \in Phases, AdvanceGatingSubstage(p) PROVE PlainStep
  <2>1. PICK g \in {"verifying", "review"} : gateStatus' = [gateStatus EXCEPT ![p] = g]
    BY <1>11 DEF AdvanceGatingSubstage
  <2>2. gateStatus[p] \in GatingSubstages /\ g \in GatingSubstages
    BY <1>11 DEF AdvanceGatingSubstage, GatingSubstages
  <2>3. Lifecycle(gateStatus[p]) = "gating" /\ Lifecycle(g) = "gating"
    BY <2>2 DEF Lifecycle, GatingSubstages, PausedStatuses
  <2>4. PhasesMoveByRows
    BY <2>1, <2>3 DEF TypeOK, PhasesMoveByRows
  <2> QED
    BY <1>b, <1>c, <1>11, <2>4 DEF AdvanceGatingSubstage, taskVars, PlainStep
<1>12. ASSUME NEW t \in Tasks, ApplyCapPause(t) PROVE PlainStep
  BY <1>c, <1>12, OneTaskMoves, OnePhaseMoves, OperationRows, OtherPhaseEdge
     DEF ApplyCapPause, CapPauseAllowed, TaskEdgeAllowed, PhaseEdgeAllowed, CommitTask,
     CommitPhase, PlainStep
<1>13. ASSUME NEW t \in Tasks, ResumeIfCapCleared(t) PROVE PlainStep
  BY <1>c, <1>13, OneTaskMoves, OnePhaseMoves, OperationRows, OtherPhaseEdge
     DEF ResumeIfCapCleared, CapResumeAllowed, TaskEdgeAllowed, PhaseEdgeAllowed, CommitTask,
     CommitPhase, PlainStep
<1>14. ASSUME NEW t \in Tasks, NEW defChanged, NEW hasCheck, ReviseTask(t, defChanged, hasCheck)
       PROVE  PlainStep
  <2> DEFINE ts == {t} \cap NonterminalTasks
             ps == NonterminalPhases \cap {PhaseOf[u] : u \in ts}
  <2>1. Invalidate(ts, ps) /\ UNCHANGED receipts
    BY <1>14 DEF ReviseTask
  <2> QED
    BY <1>c, <2>1, InvalidateMoves DEF PlainStep
<1>15. ASSUME NEW stop \in BOOLEAN, ApplyInvalidation(stop) PROVE PlainStep
  <2>1. PICK ps \in SUBSET NonterminalPhases : Invalidate(NonterminalTasks, ps)
    BY <1>15 DEF ApplyInvalidation
  <2> QED
    BY <1>c, <1>15, <2>1, InvalidateMoves DEF ApplyInvalidation, PlainStep
<1>16. ASSUME NEW t \in Tasks, TaskNext(t) PROVE PlainStep
  <2>1. "user_pause" \in Kinds
    BY DEF Kinds
  <2> QED
    BY <1>1, <1>2, <1>3, <1>4, <1>12, <1>13, <1>14, <1>16, <2>1, Zenon DEF TaskNext
<1>17. ASSUME NEW p \in Phases, PhaseNext(p) PROVE PlainStep
  <2>1. {"user_pause", "user_stop", "budget_hard_stop"} \subseteq Kinds
    BY DEF Kinds
  <2> QED
    BY <1>5, <1>7, <1>8, <1>9, <1>10, <1>11, <1>17, <2>1, Zenon DEF PhaseNext
<1> QED
  BY <1>6, <1>15, <1>16, <1>17, Zenon DEF Next

\* A done task is not dispatched again: only a claim writes an attempt row,
\* and it finds its task ready.
LEMMA AttemptOfDoneKept ==
  ASSUME TypeOK, Next, NEW u \in Tasks, status[u] = "done"
  PROVE  attemptRevision'[u] = attemptRevision[u]
<1>1. ASSUME NEW t \in Tasks, TaskNext(t) PROVE attemptRevision'[u] = attemptRevision[u]
  <2>1. CASE ClaimTask(t)
    BY <2>1 DEF ClaimTask, TaskEdgeAllowed, TaskDispatch, Edge, TypeOK
  <2>2. CASE ~ClaimTask(t)
    BY <1>1, <2>2
       DEF TaskNext, RequestTask, RunTaskGate, CompleteTask, RaiseTaskBlocker, ApplyCapPause,
       ResumeIfCapCleared, ReviseTask, taskVars, attemptVars
  <2> QED
    BY <2>1, <2>2
<1>2. ASSUME NEW p \in Phases, PhaseNext(p) PROVE attemptRevision'[u] = attemptRevision[u]
  BY <1>2
     DEF PhaseNext, RequestPhase, StartPhase, StopPhase, RaisePhaseBlocker, ResumePhase,
     AdvanceGatingSubstage, taskVars, attemptVars
<1> QED
  BY <1>1, <1>2 DEF Next, ResolveBlocker, ApplyInvalidation, attemptVars

\* Receipts: a plain step spends none and moves no task into or out of done,
\* and a completion finds its task in review, working at the revision the
\* receipt names.
LEMMA NextReceipts ==
  ASSUME TypeOK, WorkAtCurrentRevision, DoneExactlyByReceipt, [Next]_vars
  PROVE  DoneExactlyByReceipt'
<1>1. CASE UNCHANGED vars
  BY <1>1 DEF vars, taskVars, attemptVars, DoneExactlyByReceipt
<1>2. ASSUME Next, PlainStep PROVE DoneExactlyByReceipt'
  <2> DEFINE spent(u) == {q \in receipts : q.task = u /\ q.consumed}
  <2>1. \A t \in Tasks : status'[t] = "done" <=> status[t] = "done"
    BY <1>2, OtherRowsAvoidDone DEF PlainStep, TasksMoveByOtherRows
  <2>2. \A t \in Tasks : spent(t)' = spent(t)
    BY <1>2 DEF PlainStep, ReceiptsOnlyMinted
  <2>3. \A t \in Tasks : status[t] = "done" => attemptRevision'[t] = attemptRevision[t]
    BY <1>2, AttemptOfDoneKept
  <2> QED
    BY <2>1, <2>2, <2>3 DEF DoneExactlyByReceipt
<1>3. ASSUME NEW t \in Tasks, NEW r \in receipts, CompleteTask(t, r)
      PROVE  DoneExactlyByReceipt'
  <2> DEFINE spent(u) == {q \in receipts : q.task = u /\ q.consumed}
             used == [r EXCEPT !.consumed = TRUE]
  <2>1. /\ status' = [status EXCEPT ![t] = "done"]
        /\ status[t] = "review"
        /\ r.task = t /\ r.pass /\ ~r.consumed /\ r.revision = revision[t]
        /\ receipts' = (receipts \ {r}) \cup {used}
        /\ UNCHANGED attemptRevision
    BY <1>3
       DEF CompleteTask, CommitTask, TaskEdgeAllowed, TaskDone, Edge, ReceiptAuthorises,
       attemptVars
  <2>2. /\ used.task = t /\ used.pass /\ used.consumed
        /\ used.revision = attemptRevision[t]
    BY <2>1 DEF TypeOK, Receipts, WorkAtCurrentRevision, InProgress, Active
  <2> HIDE DEF used
  <2>3. spent(t) = {}
    BY <2>1 DEF DoneExactlyByReceipt
  <2>4. spent(t)' = {used}
    BY <2>1, <2>2, <2>3
  <2>5. \A u \in Tasks \ {t} : spent(u)' = spent(u) /\ status'[u] = status[u]
    BY <2>1, <2>2 DEF TypeOK
  <2>6. status'[t] = "done"
    BY <2>1 DEF TypeOK
  <2> QED
    BY <2>1, <2>2, <2>4, <2>5, <2>6 DEF DoneExactlyByReceipt
<1> QED
  BY <1>1, <1>2, <1>3, NextPlainStep

\* For every plan: a task is done exactly when one passing receipt of its own
\* was spent on it, and never a second; the receipt is for the revision its
\* last attempt was dispatched at (authoriseDone).
THEOREM DoneExactlyByReceiptTheorem == Spec => []DoneExactlyByReceipt
<1>1. Init => DoneExactlyByReceipt
  BY DEF Init, DoneExactlyByReceipt
<1>2. /\ TypeOK /\ WorkAtCurrentRevision /\ DoneExactlyByReceipt /\ [Next]_vars
      => DoneExactlyByReceipt'
  BY NextReceipts
<1> QED
  BY <1>1, <1>2, TypeCorrect, WorkAtCurrentRevisionTheorem, PTL DEF Spec

\* For every plan: a task or a phase changes state only along a row of its
\* transition table, inside the compound transactions too.
THEOREM MovesAreListedTheorem == Spec => MovesAreListed
<1> DEFINE Moves ==
      /\ \A t \in Tasks : status'[t] # status[t] =>
           \E e \in TASK_TRANSITIONS : status[t] \in e.from /\ status'[t] = e.to
      /\ PhasesMoveByRows
<1>1. ASSUME TypeOK, Next PROVE Moves
  <2>1. CASE PlainStep
    BY <2>1 DEF PlainStep, TasksMoveByOtherRows, OtherTaskRows
  <2>2. ASSUME NEW t \in Tasks, NEW r \in receipts, CompleteTask(t, r) PROVE Moves
    <3>1. TaskDone \in TASK_TRANSITIONS
      BY DEF TASK_TRANSITIONS
    <3>2. /\ status' = [status EXCEPT ![t] = TaskDone.to]
          /\ status[t] \in TaskDone.from
          /\ UNCHANGED gateStatus
      BY <2>2 DEF CompleteTask, CommitTask, TaskEdgeAllowed
    <3> QED
      BY <1>1, <3>1, <3>2 DEF TypeOK, PhasesMoveByRows
  <2> QED
    BY <1>1, <2>1, <2>2, NextPlainStep
<1>2. TypeOK /\ [Next]_vars => [Moves]_vars
  BY <1>1
<1>3. Spec => []TypeOK
  BY TypeCorrect
<1> QED
  BY <1>2, <1>3, PTL DEF Spec, MovesAreListed, PhasesMoveByRows
=============================================================================
