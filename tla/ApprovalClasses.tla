--------------------------- MODULE ApprovalClasses ---------------------------
(* What an act is, and who has to agree to it: the classifier of acts, the     *)
(* table of classes and modes with the rules a configured table must keep,     *)
(* and the disposition that results.  An act is given by the facts code has    *)
(* computed about it: its kind, the operation within the kind where it has     *)
(* one, and the flags that are known to be true.                               *)
EXTENDS Naturals, FiniteSets

WORKFLOW_MODES == {"shadow", "advisory", "supervised", "bounded_autonomous"}
NON_MUTATING_MODES == {"shadow", "advisory"}

DECISION_ORDER == [auto |-> 1, queue |-> 2, stop |-> 3]
Decisions == DOMAIN DECISION_ORDER
IsMoreRestrictive(a, b) == DECISION_ORDER[a] > DECISION_ORDER[b]

CONFIGURABLE_CLASSES ==
  {"read_repository", "edit_worktree", "delete_file", "write_outside_ownership",
   "modify_project_config", "run_checks", "run_shell", "run_migration",
   "install_dependencies", "add_dependency", "network_access", "local_commit",
   "push_own_branch", "spawn_worker", "model_fallback",
   "model_substitute_more_expensive", "spend_over_estimate", "complete_task"}
NO_AUTO_CLASSES == {"scope_change", "replan", "model_substitute_pinned"}
HIGH_RISK_CLASSES ==
  {"destructive_cleanup", "destructive_git", "remote_push", "deployment",
   "publishing", "credential_access", "modify_policy"}
APPROVAL_CLASSES == CONFIGURABLE_CLASSES \cup NO_AUTO_CLASSES \cup HIGH_RISK_CLASSES

TierOf(class) ==
  CASE class \in HIGH_RISK_CLASSES -> "high_risk"
    [] class \in NO_AUTO_CLASSES   -> "no_auto"
    [] OTHER                       -> "configurable"

PerMode(shadow, advisory, supervised, bounded_autonomous) ==
  [shadow |-> shadow, advisory |-> advisory, supervised |-> supervised,
   bounded_autonomous |-> bounded_autonomous]

DEFAULT_APPROVAL_CLASSES ==
  [c \in APPROVAL_CLASSES |->
     CASE c = "read_repository" -> PerMode("auto", "auto", "auto", "auto")
       [] c = "run_checks" -> PerMode("stop", "stop", "auto", "auto")
       [] c \in {"edit_worktree", "delete_file", "local_commit", "push_own_branch",
                 "spawn_worker", "complete_task"} -> PerMode("stop", "stop", "queue", "auto")
       [] c = "model_fallback" -> PerMode("auto", "auto", "queue", "auto")
       [] c \in {"model_substitute_more_expensive", "spend_over_estimate"} ->
            PerMode("auto", "auto", "queue", "queue")
       [] c = "model_substitute_pinned" -> PerMode("queue", "queue", "queue", "queue")
       [] c \in HIGH_RISK_CLASSES -> PerMode("stop", "stop", "stop", "stop")
       [] OTHER -> PerMode("stop", "stop", "queue", "queue")]

MUTATION_CLASSES ==
  APPROVAL_CLASSES \ {"read_repository", "model_fallback", "model_substitute_more_expensive",
                      "spend_over_estimate"}

-----------------------------------------------------------------------------
(* The rules V4, V10, V11 and V12 on a configured table *)

\* A table whose mutation classes are not looked at.
ValidateTiersAlone(table) ==
  {c \in DOMAIN table :
     \/ \E m \in WORKFLOW_MODES : m \notin DOMAIN table[c]
     \/ \E m \in DOMAIN table[c] :
          \/ TierOf(c) = "high_risk" /\ table[c][m] # "stop"
          \/ TierOf(c) = "no_auto" /\ table[c][m] = "auto"}

\* The classes that are listed with a violation
ValidateApprovalClasses(table) ==
  {c \in DOMAIN table :
     \/ \E m \in WORKFLOW_MODES : m \notin DOMAIN table[c]
     \/ \E m \in DOMAIN table[c] :
          \/ TierOf(c) = "high_risk" /\ table[c][m] # "stop"
          \/ TierOf(c) = "no_auto" /\ table[c][m] = "auto"
          \/ /\ TierOf(c) = "configurable" /\ table[c][m] = "auto"
             /\ m \in NON_MUTATING_MODES /\ c \in MUTATION_CLASSES}

-----------------------------------------------------------------------------
(* Disposition: the rules decide, a signal from Jev may only raise it *)

RuleDecision(class, mode, table) ==
  LET configured == table[class][mode]
  IN CASE TierOf(class) = "high_risk" -> "stop"
       [] TierOf(class) = "no_auto" /\ configured = "auto" -> "queue"
       [] OTHER -> configured

\* Jev's proposal as the decision.
AsProposed(class, mode, table, jev) ==
  IF jev \in Decisions THEN jev ELSE RuleDecision(class, mode, table)

\* resolveDisposition; no signal is a value that is no decision.
ResolveDisposition(class, mode, table, jev) ==
  LET rule == RuleDecision(class, mode, table)
  IN IF jev \in Decisions /\ IsMoreRestrictive(jev, rule) THEN jev ELSE rule

-----------------------------------------------------------------------------
(* The classifier: the first rule that matches *)

\* ActFacts: the kinds, and gitOp, planOp or taskOp of an act that has one
ActKinds == {"read", "write", "delete", "exec", "git", "network", "model", "plan", "task"}
OperationsOf(kind) ==
  CASE kind = "git"  -> {"commit", "push", "force_push", "rewrite", "delete_ref", "tag"}
    [] kind = "plan" -> {"scope_change", "replan"}
    [] kind = "task" -> {"spawn_worker", "complete_task", "spend_over_estimate"}
    [] OTHER         -> {""}

\* A write or a deletion inside the worktree
ClassifyInside(f) ==
  IF "touchesDependencyManifest" \in f.flags THEN "add_dependency"
  ELSE IF "touchesProjectConfig" \in f.flags THEN "modify_project_config"
  ELSE IF "insideOwnership" \notin f.flags THEN "write_outside_ownership"
  ELSE IF f.kind = "delete" THEN "delete_file" ELSE "edit_worktree"

ClassifyExec(f) ==
  IF "isRegisteredCheck" \in f.flags THEN "run_checks"
  ELSE IF "isMigration" \in f.flags THEN "run_migration"
  ELSE IF "touchesDependencyManifest" \in f.flags THEN "add_dependency"
  ELSE IF "isInstallOfDeclared" \in f.flags THEN "install_dependencies"
  ELSE "run_shell"

ClassifyByKind(f) ==
  CASE f.kind = "plan"    -> f.op
    [] f.kind = "network" -> IF "hostAllowlisted" \in f.flags THEN "read_repository" ELSE "network_access"
    [] f.kind = "model"   -> IF "costsMore" \in f.flags THEN "model_substitute_more_expensive" ELSE "model_fallback"
    [] f.kind = "task"    -> f.op
    [] f.kind = "git"     -> IF f.op = "push" THEN "push_own_branch" ELSE "local_commit"
    [] f.kind = "exec"    -> ClassifyExec(f)
    [] f.kind = "read"    -> "read_repository"
    [] f.kind \in {"write", "delete"} -> ClassifyInside(f)

\* The deployment rule for what is called a deployment alone.
DeployedByName(f) == "isDeploy" \in f.flags

Deploys(f) ==
  \/ "isDeploy" \in f.flags
  \/ "isMigration" \in f.flags /\ "targetIsEphemeral" \notin f.flags

ClassifyAct(f) ==
  IF "touchesDenyPath" \in f.flags THEN "credential_access"
  ELSE IF "touchesKorwfPolicy" \in f.flags THEN "modify_policy"
  ELSE IF "isPublish" \in f.flags \/ f.op = "tag" THEN "publishing"
  ELSE IF Deploys(f) THEN "deployment"
  ELSE IF f.op \in {"force_push", "rewrite", "delete_ref"} THEN "destructive_git"
  ELSE IF f.op = "push" /\ ~({"refOwnedByWorkflow", "remoteIsConfigured"} \subseteq f.flags) THEN "remote_push"
  ELSE IF f.kind = "delete" /\ "gitTracked" \notin f.flags THEN "destructive_cleanup"
  ELSE IF f.kind \in {"write", "delete"} /\ "insideWorktree" \notin f.flags THEN "destructive_cleanup"
  ELSE ClassifyByKind(f)
=============================================================================
