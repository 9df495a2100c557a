----------------------------- MODULE MCRollback -----------------------------
(* Instances of Rollback. *)
EXTENDS Rollback, TLC

Plans(paths, checks) == [Tasks -> [paths : SUBSET paths, checks : checks]]

\* Callers of one behaviour ask about a completion, about a scope change, or
\* for rollbacks; only the last take checkpoints and edit trees.
Questions(configurable, no_auto) ==
  [configurable |-> configurable, no_auto |-> no_auto, high_risk |-> 0,
   plans |-> Plans(Paths, Checks), dialogs |-> Dialogs, ttls |-> {None, 1},
   acts |-> 0, mode |-> "supervised", loosened |-> None,
   revisions |-> 3, clock |-> 1, edits |-> 0, checkpoints |-> 0]
Rollbacks(last, changed) ==
  {[configurable |-> 0, no_auto |-> 0, high_risk |-> 2,
    plans |-> Plans({}, {k}), dialogs |-> {d}, ttls |-> {None},
    acts |-> 0, mode |-> "supervised", loosened |-> None,
    revisions |-> last, clock |-> 0, edits |-> changed, checkpoints |-> 1] :
      k \in Checks, d \in Dialogs}

\* One act under every accepted table that loosens an entry for its mode
OneAct ==
  {[configurable |-> 0, no_auto |-> 0, high_risk |-> 0,
    plans |-> Plans({}, {k}), dialogs |-> {d}, ttls |-> {None},
    acts |-> 1, mode |-> mode, loosened |-> entry,
    revisions |-> 1, clock |-> 0, edits |-> 0, checkpoints |-> 0] :
      k \in Checks, d \in Dialogs, mode \in WORKFLOW_MODES,
      entry \in {None} \cup (APPROVAL_CLASSES \X WORKFLOW_MODES)}
MCActBudgets == {b \in OneAct : b.loosened # None => b.loosened[2] = b.mode}

\* The facts code computes for each kind of act
Facts(kind, ops, flags) == [kind : {kind}, op : ops, flags : SUBSET flags]
MCActs ==
  UNION {Facts("read", {""}, {"touchesDenyPath", "touchesKorwfPolicy"}),
         Facts("write", {""}, {"insideWorktree", "insideOwnership", "touchesKorwfPolicy",
                               "touchesProjectConfig", "touchesDependencyManifest"}),
         Facts("delete", {""}, {"insideWorktree", "insideOwnership", "gitTracked",
                                "touchesDenyPath", "touchesDependencyManifest"}),
         Facts("exec", {""}, {"isRegisteredCheck", "isMigration", "targetIsEphemeral", "isDeploy",
                              "isPublish", "isInstallOfDeclared", "touchesDependencyManifest"}),
         Facts("git", {"commit", "push", "force_push", "rewrite", "delete_ref", "tag"},
               {"refOwnedByWorkflow", "remoteIsConfigured", "touchesDenyPath"}),
         Facts("network", {""}, {"hostAllowlisted", "touchesDenyPath"}),
         Facts("model", {""}, {"costsMore"}),
         Facts("plan", {"scope_change", "replan"}, {}),
         Facts("task", {"spawn_worker", "complete_task", "spend_over_estimate"}, {})}

MCBudgets == {Questions(1, 0), Questions(0, 1)} \cup Rollbacks(2, 0) \cup Rollbacks(1, 1) \cup MCActBudgets
RollbacksOnly == Rollbacks(1, 0)
Symmetry == Permutations(Checks) \cup Permutations(Dialogs)
=============================================================================
