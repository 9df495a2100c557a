----------------------------- MODULE CheckRuns -----------------------------
(***************************************************************************)
(* Running the registered checks of one task and storing what they found   *)
(* (verification/checks.ts, evidence.ts, flaky.ts, invalidate.ts), while   *)
(* the worker's worktree moves underneath.  runCheck reads the revision,   *)
(* awaits the command and builds a draft pinned to the revision it read;   *)
(* the rerun policy repeats a failure; the caller stores the drafts.       *)
(*                                                                         *)
(* Commits are numbers; paths are owned by the task or not; an evidence    *)
(* row keeps what the gate reads.  Two of its fields are history: `ran' is *)
(* the commit and task revision its command was started at, and `tied'     *)
(* says that its call's rows were stored under one createdAt stamp.        *)
(* Output capture, redaction and the environment fingerprint do not reach  *)
(* the verdict and are left out.                                           *)
(***************************************************************************)
EXTENDS Integers, Sequences, SequencesExt

CONSTANTS
  Checks,        \* ids of Task.checks, project checks included
  CheckDef,      \* their definitions, and what their rows are recorded with
  Outcomes,      \* how a command may end: an ending, and whether it was late
  MaxReruns,     \* RerunPolicy.maxReruns
  MaxCommit      \* bound: commits of the worktree

\* What a command can end with: the expected or another code, a signal, a
\* shell that did not find or could not execute it, a failed spawn.
Endings == {"expected", "unexpected", "signalled", "not_found", "not_executable",
            "spawn_failed"}

ASSUME CheckRunsAssumption ==
  /\ CheckDef \in [Checks -> [kind: {"command", "human"}, trivial: BOOLEAN,
                              covers: SUBSET STRING, owned: BOOLEAN,
                              project: BOOLEAN]]
  /\ Outcomes \subseteq Endings \X BOOLEAN
  /\ {MaxReruns, MaxCommit} \subseteq Nat

VARIABLES
  head,      \* HEAD of the task worktree
  revision,  \* Task.revision
  status,    \* Task.status
  run,       \* the runCheckWithRerunPolicy call of each check
  evidence,  \* the task's evidence rows, in (createdAt, id) order
  limits     \* bounds: evidence rows, calls that store them, revisions, reviews,
             \* and the requirement ids callers may give

checkVars == <<head, revision, status, run, evidence, limits>>

NoSha == 0
Idle == [phase |-> "idle"]

\* classifyOutcome and runStatusOf, for a command that ended this way, late
\* when terminate() had been called by the deadline or an abort.
RunStatusOf(end, late) ==
  CASE end = "spawn_failed" -> "unavailable"
    [] end # "spawn_failed" /\ late -> "timeout"
    [] end \in {"not_found", "not_executable"} /\ ~late -> "unavailable"
    [] end = "expected" /\ ~late -> "pass"
    [] OTHER -> "fail"

\* runCheck refuses a human check and one that cannot fail before it spawns.
Runnable(c) == CheckDef[c].kind # "human" /\ ~CheckDef[c].trivial

\* Where HEAD and the task are (history).
Here == [sha |-> head, revision |-> revision]

Result(s, sha, ran) == [status |-> s, sha |-> sha, ran |-> ran]

\* The loop of runCheckWithRerunPolicy: another run is due.
RerunDue(runs) ==
  /\ runs[1].status \in {"fail", "timeout"}
  /\ Len(runs) <= MaxReruns
  /\ ~(Len(runs) > 1 /\ Last(runs).status = "pass" /\ Last(runs).sha = runs[1].sha)

\* buildEvidenceDraft, for a run that could be pinned; the caller gives the
\* requirement, the row to supersede, and provenance inside the task's
\* ownership or outside it.
Draft(c, call, r) ==
  [src |-> c, mode |-> "deterministic", exit |-> r.status, sha |-> r.sha,
   revision |-> call.revision, registered |-> TRUE, owned |-> CheckDef[c].owned,
   req |-> call.req, supersedes |-> call.supersedes, ran |-> r.ran, tied |-> FALSE,
   call |-> 0]

\* A run that could not be pinned leaves no draft.
WithDraft(c, call, r) ==
  IF r.sha = NoSha THEN call.drafts ELSE Append(call.drafts, Draft(c, call, r))

SameRevision(runs) == {i \in DOMAIN runs : runs[i].sha = runs[1].sha /\ runs[i].sha # NoSha}

Disagree(runs) ==
  LET seen == {runs[i].status : i \in SameRevision(runs)}
  IN "pass" \in seen /\ seen # {"pass"}

\* Mutant: the disagreeing runs are stored without the flaky row.
RunsOnly(c, call, runs, drafts) == drafts

\* reconcileRuns: runs that disagree at the first one's revision add a flaky
\* row after their own, drawn from the last of them.
FlakyDraft(c, call, r) == [Draft(c, call, r) EXCEPT !.exit = "flaky", !.supersedes = 0]
ReconcileRuns(c, call, runs, drafts) ==
  IF Disagree(runs) THEN Append(drafts, FlakyDraft(c, call, runs[Max(SameRevision(runs))]))
                    ELSE drafts

\* The caller stores the drafts of call n.  The gate sees them in the order
\* they were stored in or, under one stamp, in any order of their ids.
Numbered(rows, n, tied) ==
  [i \in DOMAIN rows |-> [rows[i] EXCEPT !.call = n, !.tied = tied]]
Orders(S) == {order \in [S -> S] : \A j \in S : \E i \in S : order[i] = j}
Stored(rows, n) ==
  {Numbered(rows, n, FALSE)} \cup
  {Numbered([i \in DOMAIN rows |-> rows[order[i]]], n, TRUE) :
     order \in IF Len(rows) > 1 THEN Orders(DOMAIN rows) ELSE {}}

Store(rows) == evidence' = evidence \o rows

CallsMade == Cardinality({evidence[i].call : i \in {j \in DOMAIN evidence :
                                                        evidence[j].mode # "model"}})
NextCall == 1 + Cardinality({evidence[i].call : i \in DOMAIN evidence})

CheckInit ==
  /\ head = 1
  /\ revision = 1
  /\ status = "verifying"
  /\ run = [c \in Checks |-> Idle]
  /\ evidence = <<>>

-----------------------------------------------------------------------------
(* Checks. *)

Live == status # "done"
Bounded(n) == Len(evidence) + n <= limits.rows
CallBounded == CallsMade < limits.calls

\* runCheckWithRerunPolicy is called for the task as it is now.
CallCheck(c) ==
  /\ Live /\ CallBounded
  /\ run[c] = Idle
  /\ \E sup \in {0} \cup {i \in DOMAIN evidence : evidence[i].src = c}, req \in limits.reqs :
       run' = [run EXCEPT ![c] = [phase |-> "due", revision |-> revision, runs |-> <<>>,
                                  drafts |-> <<>>, supersedes |-> sup, req |-> req]]
  /\ UNCHANGED <<head, revision, status, evidence, limits>>

\* The result r of one run: a rerun falls due, or the call returns and its
\* drafts are stored.
Settle(c, r) ==
  LET call == run[c]
      runs == Append(call.runs, r)
      drafts == WithDraft(c, call, r) IN
  IF RerunDue(runs)
    THEN /\ run' = [run EXCEPT ![c] = [phase |-> "due", revision |-> call.revision, runs |-> runs,
                                       drafts |-> drafts, supersedes |-> call.supersedes,
                                       req |-> call.req]]
         /\ UNCHANGED evidence
    ELSE LET rows == ReconcileRuns(c, call, runs, drafts) IN
         /\ Bounded(Len(rows))
         /\ run' = [run EXCEPT ![c] = Idle]
         /\ \E rs \in Stored(rows, NextCall) : Store(rs)

\* runCheck up to its await: the revision is read, and a run that cannot
\* verify anything, has no revision or no directory ends as unavailable.
BeginRun(c) ==
  /\ Live
  /\ run[c].phase = "due"
  /\ \E sha \in {head, NoSha}, cwd \in BOOLEAN :
       IF Runnable(c) /\ sha # NoSha /\ cwd
         THEN /\ run' = [run EXCEPT ![c] =
                           [phase |-> "running", revision |-> run[c].revision,
                            runs |-> run[c].runs, drafts |-> run[c].drafts,
                            supersedes |-> run[c].supersedes, req |-> run[c].req, ran |-> Here]]
              /\ UNCHANGED evidence
         ELSE Settle(c, Result("unavailable", sha, Here))
  /\ UNCHANGED <<head, revision, status, limits>>

\* Mutant: the revision is read when the command ends.
EndCommandPinsLate(c) ==
  /\ Live
  /\ run[c].phase = "running"
  /\ \E o \in Outcomes :
       Settle(c, Result(RunStatusOf(o[1], o[2]), head, run[c].ran))
  /\ UNCHANGED <<head, revision, status, limits>>

\* executeCommand settles and runCheck builds the draft from the revision it
\* read before the await.
EndCommand(c) ==
  /\ Live
  /\ run[c].phase = "running"
  /\ \E o \in Outcomes :
       Settle(c, Result(RunStatusOf(o[1], o[2]), run[c].ran.sha, run[c].ran))
  /\ UNCHANGED <<head, revision, status, limits>>

\* A row somebody else stores under a check's id: a person's answer to a
\* human check (requestHumanCheck), or the output of another command.
RecordResult(c) ==
  /\ Live /\ CallBounded
  /\ Bounded(1)
  /\ \E exit \in {"pass", "fail"}, req \in limits.reqs :
       Store(<<[Draft(c, [revision |-> revision, req |-> req, supersedes |-> 0],
                      Result(exit, head, Here))
                  EXCEPT !.mode = IF CheckDef[c].kind = "human" THEN "human"
                                  ELSE "deterministic",
                         !.registered = CheckDef[c].kind = "human",
                         !.call = NextCall]>>)
  /\ UNCHANGED <<head, revision, status, run, limits>>

-----------------------------------------------------------------------------
(* The worktree and the task. *)

\* The worker's worktree moves to another commit, a new one or an earlier one,
\* whatever runs in it.
MoveHead ==
  /\ Live
  /\ head' \in (1 .. MaxCommit) \ {head}
  /\ UNCHANGED <<revision, status, run, evidence, limits>>

\* pathIsRelevant and isRelevantChange for a change set that is unknown, or
\* holds owned or only foreign paths, or nothing.
ChangeSets == {"unknown", "owned", "foreign", "empty"}
IsRelevantChange(c, changes) ==
  \/ changes = "unknown"
  \/ CheckDef[c].project /\ changes # "empty"
  \/ changes = "owned"

\* invalidateStaleEvidence: a relevant change sends the task back to verifying
\* (task-stale-evidence); the rows stay.
InvalidateStaleEvidence(changes) ==
  /\ status \in {"verifying", "review"}
  /\ \E c \in Checks : IsRelevantChange(c, changes)
  /\ status' = "verifying"
  /\ UNCHANGED <<head, revision, run, evidence, limits>>
=============================================================================
