---------------------------- MODULE Transitions ----------------------------
(***************************************************************************)
(* The data contract of workflow/transitions.ts: the task and phase states *)
(* and the two transition tables.  An edge is the record of what the       *)
(* runtime reads of a row: the states it leaves, the state it enters, the  *)
(* actors who may trigger it and its conjunctive preconditions.  A row's   *)
(* (to, trigger) pair is unique in each table, so the name of the          *)
(* definition stands for the pair.  requiredEvidence and sideEffects are   *)
(* prose in the source and are left out.                                   *)
(***************************************************************************)

Actors == {"engine", "user", "worker"}

TaskTerminal == {"done", "cancelled"}
TaskNonterminal == {"proposed", "ready", "running", "verifying", "review",
                    "blocked", "failed", "needs_changes", "paused_cap"}
TaskStates == TaskNonterminal \cup TaskTerminal

PhaseTerminal == {"done", "cancelled"}
PhaseNonterminal == {"pending", "running", "gating", "paused", "failed"}
PhaseStates == PhaseNonterminal \cup PhaseTerminal

\* Gate statuses as stored, by lifecycle state (PHASE_STORAGE_STATES).
GatingSubstages == {"integrating", "verifying", "review"}
PausedStatuses == {"paused_cap", "paused_approval"}
GateStatuses == {"pending", "running", "passed", "failed", "cancelled"}
                  \cup GatingSubstages \cup PausedStatuses

Edge(from, to, who, pre) == [from |-> from, to |-> to, who |-> who, pre |-> pre]

READY_PRECONDITIONS ==
  {"checks_registered", "readiness_valid", "authorization_current"}
TASK_DONE_PRECONDITIONS ==
  {"checks_registered", "all_checks_pass_exact_revision",
   "no_jev_gap_or_disabled", "policy_review_satisfied"}
PHASE_DONE_PRECONDITIONS ==
  {"all_tasks_done", "integrated_checks_pass_exact_revision",
   "phase_no_jev_gap_or_disabled", "phase_policy_review_satisfied"}

-----------------------------------------------------------------------------
(* TASK_TRANSITIONS *)

TaskReady == Edge({"proposed", "blocked", "failed", "needs_changes"}, "ready",
                  {"engine"}, READY_PRECONDITIONS \cup {"recovery_authorized"})
TaskDispatch == Edge({"ready"}, "running", {"engine"},
                     READY_PRECONDITIONS \cup {"dispatch_allowed"})
TaskSubmit == Edge({"running"}, "verifying", {"engine", "worker"}, {"attempt_settled"})
TaskReview == Edge({"verifying"}, "review", {"engine"},
                   {"checks_registered", "all_checks_pass_exact_revision",
                    "no_jev_gap_or_disabled"})
TaskDone == Edge({"review"}, "done", {"engine"}, TASK_DONE_PRECONDITIONS)
TaskFailed == Edge({"running", "verifying", "review"}, "failed",
                   {"engine", "worker"}, {"failure_observed"})
TaskChanges == Edge({"verifying", "review"}, "needs_changes", {"engine"},
                    {"changes_required"})
TaskBlock == Edge(TaskNonterminal, "blocked", Actors, {"blocker_present"})
TaskInvalidate == Edge(TaskNonterminal, "blocked", {"engine"}, {"invalidation_applies"})
TaskReplan == Edge(TaskNonterminal, "proposed", {"user"}, {"user_revision_requested"})
TaskStaleEvidence == Edge({"verifying", "review"}, "verifying", {"engine"},
                          {"revision_changed"})
TaskCap == Edge({"ready", "running", "verifying", "review"}, "paused_cap",
                {"engine"}, {"all_eligible_models_capped"})
TaskCapResume == Edge({"paused_cap"}, "ready", {"engine"},
                      READY_PRECONDITIONS \cup {"cap_resume_valid", "recovery_authorized"})
TaskCancel == Edge(TaskNonterminal, "cancelled", {"user", "engine"},
                   {"cancellation_requested"})

TASK_TRANSITIONS ==
  {TaskReady, TaskDispatch, TaskSubmit, TaskReview, TaskDone, TaskFailed,
   TaskChanges, TaskBlock, TaskInvalidate, TaskReplan, TaskStaleEvidence,
   TaskCap, TaskCapResume, TaskCancel}

-----------------------------------------------------------------------------
(* PHASE_TRANSITIONS *)

PhaseStart == Edge({"pending"}, "running", {"user", "engine"},
                   {"phase_start_valid", "authorization_current"})
PhaseGate == Edge({"running"}, "gating", {"engine"},
                  {"all_tasks_done", "authorization_current"})
PhaseDone == Edge({"gating"}, "done", {"engine"}, PHASE_DONE_PRECONDITIONS)
PhaseFailed == Edge({"running", "gating"}, "failed", {"engine"}, {"failure_observed"})
PhaseGap == Edge({"gating"}, "failed", {"engine"}, {"changes_required"})
PhaseRecover == Edge({"failed"}, "pending", {"user", "engine"},
                     {"recovery_authorized", "authorization_current"})
PhaseCap == Edge({"running", "gating"}, "paused", {"engine"},
                 {"all_eligible_models_capped"})
PhaseCapResume == Edge({"paused"}, "running", {"engine"},
                       {"cap_resume_valid", "authorization_current",
                        "recovery_authorized"})
PhasePause == Edge(PhaseNonterminal, "paused", {"engine", "user"}, {"phase_stop_present"})
PhaseInvalidate == Edge(PhaseNonterminal, "paused", {"engine"},
                        {"invalidation_applies", "stop_phase_required"})
PhaseResume == Edge({"paused"}, "pending", {"user"},
                    {"manual_resume_valid", "authorization_current"})
PhaseStaleEvidence == Edge({"gating"}, "gating", {"engine"}, {"revision_changed"})
PhaseCancel == Edge(PhaseNonterminal, "cancelled", {"user", "engine"},
                    {"cancellation_requested"})

PHASE_TRANSITIONS ==
  {PhaseStart, PhaseGate, PhaseDone, PhaseFailed, PhaseGap, PhaseRecover,
   PhaseCap, PhaseCapResume, PhasePause, PhaseInvalidate, PhaseResume,
   PhaseStaleEvidence, PhaseCancel}
=============================================================================
