---------------------------- MODULE MCTaskGate ----------------------------
(* Instances of TaskGate: a command check of the one criterion, and answers *)
(* of Jev that are confident, doubtful or absent.                           *)
EXTENDS TaskGate

CONSTANTS k1, author, reviewer, heir

OneCheck == [c \in {k1} |-> [kind |-> "command", trivial |-> FALSE, covers |-> {"ac"},
                             owned |-> TRUE, project |-> FALSE]]
Handoffs == (author :> None) @@ (reviewer :> None) @@ (heir :> author)
Ends == {<<"expected", FALSE>>, <<"expected", TRUE>>}
Required == [enabled |-> TRUE, optional |-> FALSE]
Off == [enabled |-> FALSE, optional |-> TRUE]
Config(j, review, human, risk, limits_) ==
  [jev |-> j, modelReview |-> review, humanApproval |-> human, risk |-> risk, limits |-> limits_]
Limits(rows, calls, revisions, reviewCount, reqs) ==
  [rows |-> rows, calls |-> calls, revisions |-> revisions, reviews |-> reviewCount,
   reqs |-> reqs]
\* Two task revisions under Jev and an approval; two calls for two requirements
\* under Jev; a call with a rerun and another; a call and two reviews.
MCConfigs == {Config(Required, FALSE, TRUE, "high", Limits(1, 1, 2, 0, {"ac"})),
              Config(Required, FALSE, FALSE, "low", Limits(2, 2, 1, 0, {"ac", "other"})),
              Config(Off, FALSE, FALSE, "low", Limits(3, 2, 1, 0, {"ac"})),
              Config(Off, TRUE, FALSE, "low", Limits(2, 1, 1, 1, {"ac"}))}
Claim(source, verdict, conf) == [source |-> source, verdict |-> verdict, conf |-> conf]
Gap(source, value, p) == [source |-> source, value |-> value, gapProbability |-> p]
JevAnswers ==
  {[claim |-> Claim("jev", "supported", 90), gap |-> Gap("jev", FALSE, 10), tests |-> {}],
   [claim |-> Claim("jev", "supported", 90), gap |-> Gap("jev", FALSE, 40), tests |-> {}]}
============================================================================
