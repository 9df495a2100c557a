------------------------------ MODULE Coupling ------------------------------
(***************************************************************************)
(* Which tasks may run at the same time (workflow/coupling.ts): the        *)
(* intersection of their ownership globs and components, which is decided  *)
(* first, and the cached answers about their semantic coupling.            *)
(*                                                                         *)
(* A path pattern is a sequence of segments, a segment a sequence of       *)
(* tokens, and a token the set of characters it matches: one for a         *)
(* literal, all for ?, some for a class.  Star stands for a run of         *)
(* characters, and the segment DoubleStar for a run of segments.           *)
(* Patterns are already normalised (normaliseOwnershipPath).               *)
(***************************************************************************)
EXTENDS Integers, Sequences, FiniteSets, SequencesExt

Star == {"*"}
DoubleStar == <<Star, Star>>

\* tokensIntersect
TokensIntersect(x, y) == x \cap y # {}

RECURSIVE SegmentsIntersect(_, _)

\* Mutant: a star stands for at least one character.
SegmentsIntersectNonempty(a, b) ==
  CASE a = << >> \/ b = << >> -> a = b
    [] a # << >> /\ b # << >> /\ (Head(a) = Star \/ Head(b) = Star) ->
         \/ SegmentsIntersect(Tail(a), Tail(b))
         \/ Head(a) = Star /\ SegmentsIntersect(a, Tail(b))
         \/ Head(b) = Star /\ SegmentsIntersect(Tail(a), b)
    [] OTHER -> TokensIntersect(Head(a), Head(b)) /\ SegmentsIntersect(Tail(a), Tail(b))

\* segmentsIntersect: is there a name both segments match?
SegmentsIntersect(a, b) ==
  CASE a = << >> -> \A i \in DOMAIN b : b[i] = Star
    [] a # << >> /\ b = << >> -> \A i \in DOMAIN a : a[i] = Star
    [] a # << >> /\ b # << >> /\ (Head(a) = Star \/ Head(b) = Star) ->
         SegmentsIntersect(Tail(a), b) \/ SegmentsIntersect(a, Tail(b))
    [] OTHER -> TokensIntersect(Head(a), Head(b)) /\ SegmentsIntersect(Tail(a), Tail(b))

RECURSIVE SegmentListsIntersect(_, _)

\* segmentListsIntersect: is there a path both lists match?
SegmentListsIntersect(a, b) ==
  CASE a = << >> -> \A i \in DOMAIN b : b[i] = DoubleStar
    [] a # << >> /\ b = << >> -> \A i \in DOMAIN a : a[i] = DoubleStar
    [] a # << >> /\ b # << >> /\ (Head(a) = DoubleStar \/ Head(b) = DoubleStar) ->
         SegmentListsIntersect(Tail(a), b) \/ SegmentListsIntersect(a, Tail(b))
    [] OTHER -> SegmentsIntersect(Head(a), Head(b)) /\ SegmentListsIntersect(Tail(a), Tail(b))

\* expandOwnershipPattern: owning a directory is owning what is in it, unless
\* the pattern ends in a star.
ExpandOwnershipPattern(p) ==
  IF Last(Last(p)) = Star THEN {p} ELSE {p, Append(p, DoubleStar)}

\* pathsIntersect: identical patterns and contained plain paths are cases of
\* the intersection of what they expand to.
PathsIntersect(a, b) ==
  \/ a = b
  \/ \E x \in ExpandOwnershipPattern(a), y \in ExpandOwnershipPattern(b) :
       SegmentListsIntersect(x, y)

\* ownershipConflict
OwnershipConflict(s, t) ==
  \/ \E p \in s.paths, q \in t.paths : PathsIntersect(p, q)
  \/ s.components \cap t.components # {}

-----------------------------------------------------------------------------
(* The cache of verdicts maps a key to what was asked and answered *)

Verdicts == {"independent", "coupled", "unknown"}

\* Mutant: the pair whatever its revisions.
CouplingKeyUnrevised(s, t) == {<<s.id, 0>>, <<t.id, 0>>}

\* couplingKey: the unordered pair at its revisions.
CouplingKey(s, t) == {<<s.id, s.revision>>, <<t.id, t.revision>>}

\* CouplingCache.has, of the cache that maps keys to entries.
Cached(s, t, cache) == CouplingKey(s, t) \in DOMAIN cache

\* couplingVerdictFor, of a cache and no other signal.
CouplingVerdictFor(s, t, cache) ==
  IF Cached(s, t, cache) THEN cache[CouplingKey(s, t)].verdict ELSE "unknown"

\* canRunConcurrently: ownership first, and only then what was answered.
\* The reason they may not, or none.
SerialReason(s, t, cache) ==
  CASE s.id = t.id \/ OwnershipConflict(s, t) -> "ownership_conflict"
    [] s.id # t.id /\ ~OwnershipConflict(s, t) /\ CouplingVerdictFor(s, t, cache) = "coupled" ->
         "coupled"
    [] s.id # t.id /\ ~OwnershipConflict(s, t) /\ CouplingVerdictFor(s, t, cache) = "unknown" ->
         "coupling_uncertain"
    [] OTHER -> "none"

\* selectConcurrentBatch: every admitted task against every one before it;
\* the reason a task is held for is that of the first that stands against it.
SelectConcurrentBatch(candidates, cache) ==
  LET Against(b, t) == SelectSeq(b.parallel, LAMBDA o : SerialReason(t, o, cache) # "none")
      Admit(b, t) ==
        IF Against(b, t) = << >> THEN [b EXCEPT !.parallel = Append(@, t)]
        ELSE [b EXCEPT !.serial = Append(@, [task |-> t,
                reason |-> SerialReason(t, Against(b, t)[1], cache)])]
  IN  FoldLeft(Admit, [parallel |-> << >>, serial |-> << >>], candidates)
=============================================================================
