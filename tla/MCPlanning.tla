----------------------------- MODULE MCPlanning -----------------------------
(* Instances of Planning: the documents a planner may answer with. *)
EXTENDS Planning, TLC

\* Names of one or two characters, paths of up to three names.
Names == UNION {[1..n -> {"x", "y"}] : n \in 1..2}
MCFiles == UNION {[1..n -> Names] : n \in 1..3}

x == <<{"x"}>>
y == <<{"y"}>>
MCPatternSeq ==
  << <<x>>, <<y>>, <<x, y>>, <<x, <<Star>>>>, <<DoubleStar, y>>, <<<<{"x", "y"}>>>>,
     <<<<{"x"}, Star>>, x>>, <<<<Star, {"y"}>>>> >>
MCPatterns == Range(MCPatternSeq)

Segment(op, can) == [op |-> op, can |-> can]
Command(line) == [kind |-> "command", line |-> line, required |-> TRUE]
Real == Command(<<Segment("", TRUE)>>)
Human(required) == [kind |-> "human", line |-> << >>, required |-> required]

\* Command lines of three segments.
Lines == {<<Segment("", a), Segment(o, b), Segment(u, c)>> :
            a, b, c \in BOOLEAN, o, u \in {"&&", "||", ";", "|"}}

Task(goal, path, deps) ==
  [goal |-> goal, checks |-> {Real}, paths |-> {path}, components |-> {},
   phase |-> "a", deps |-> deps, artifacts |-> {}]

Plan(phases, ts) == [form |-> "document", phases |-> phases, tasks |-> ts]
OnePhase == [p \in {"a"} |-> 0]
TwoPhases == [p \in {"a", "b"} |-> IF p = "a" THEN 0 ELSE 1]

\* Every graph of three tasks that own different paths.
Graphs ==
  {Plan(OnePhase, [n \in 1..3 |-> Task(n, MCPatternSeq[n], d[n])]) :
     d \in [1..3 -> SUBSET (1..3)]}

\* Every way two tasks of two phases may depend on one another or on no task.
Phased ==
  {Plan(TwoPhases, [n \in 1..2 |-> [Task(n, MCPatternSeq[n], d[n]) EXCEPT !.phase = p[n]]]) :
     d \in [1..2 -> SUBSET {1, 2, 9}], p \in [1..2 -> {"a", "b", "c"}]}

\* Every two patterns.
Owned ==
  {Plan(OnePhase, [n \in 1..2 |-> Task(n, MCPatternSeq[i[n]], {})]) :
     i \in {<<j, k>> \in (1..8) \X (1..8) : j <= k}}

\* The definition, the components or the checks of one of two tasks differ.
Checked ==
  {Plan(OnePhase, [n \in 1..2 |->
     IF n = 1 THEN [Task(1, <<x>>, {}) EXCEPT !.checks = c] ELSE Task(2, <<y>>, {1})]) :
     c \in {{Command(l)} : l \in Lines}
           \cup {{}, {Human(TRUE)}, {Human(FALSE)}, {Command(<< >>)}, {Real, Human(FALSE)}}}
Redefined ==
  {Plan(OnePhase, [n \in 1..2 |->
     [Task(g[n], <<<<x>>, <<y>>>>[n], {}) EXCEPT !.components = k[n]]]) :
     g \in [1..2 -> 1..3], k \in {<<{}, {}>>, <<{}, {"ui"}>>, <<{"ui"}, {"ui"}>>}}

\* One task and one artifact.
Artifact(unit, value, atomic) == [unit |-> unit, value |-> value, atomic |-> atomic]
Sized ==
  {Plan(OnePhase, [n \in {1} |-> [Task(1, <<x>>, {}) EXCEPT !.artifacts = {a}]]) :
     a \in {Artifact("tokens", v, b) : v \in -1..25, b \in BOOLEAN}
           \cup {Artifact("lines", v, FALSE) : v \in 0..3}
           \cup {Artifact("bytes", v, FALSE) : v \in {0, 1, 28, 29, 57}}}

Bad == {[form |-> "unreadable"], [form |-> "misshapen"],
        Plan(OnePhase, << >>),
        Plan(OnePhase, [n \in {1} |-> Task(1, <<x, DotDot>>, {})]),
        Plan([p \in {"a"} |-> 1], [n \in {1} |-> Task(1, <<x>>, {})])}

\* First any of them; a revision redefines, reorders or drops tasks, or gives
\* them other checks, paths or components.
First == Graphs \cup Phased \cup Owned \cup Checked \cup Redefined \cup Sized \cup Bad
Later ==
  {Plan(OnePhase, [n \in 1..2 |-> [Task(g[n], <<<<x>>, <<y>>>>[n], {}) EXCEPT
                                     !.components = IF g[1] = 1 THEN {"ui"} ELSE {}]]) :
     g \in {<<1, 2>>, <<2, 1>>, <<3, 2>>}}
  \cup {Plan(OnePhase, [n \in 1..3 |-> Task(n, MCPatternSeq[n], IF n = 3 THEN {1} ELSE {})]),
        Plan(OnePhase, [n \in 1..2 |-> [Task(n, MCPatternSeq[n], {}) EXCEPT
                                         !.checks = {Real, Human(TRUE)}]]),
        Plan(TwoPhases, [n \in 1..2 |-> [Task(n, MCPatternSeq[3 - n], {1} \ {n}) EXCEPT
                                          !.phase = <<"a", "b">>[n]]])}

\* The second revision has back what the first may have dropped.
Restored ==
  {Plan(OnePhase, [n \in 1..3 |-> Task(n, MCPatternSeq[n], <<{3}, {}, {2}>>[n])])}

MCDocuments == <<First, Later, Restored>>

\* Sixteen tokens a turn, a quarter of them for thinking.
MCLimits == [maxTokens |-> 16, thinking |-> "medium"]
=============================================================================
