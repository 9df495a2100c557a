--------------------------- MODULE MCModelRoutes ---------------------------
(* Instances of ModelRoutes: two providers, two models. *)
EXTENDS ModelRoutes, TLC

CONSTANTS a, b, p, q

MCListed == <<a, b>>
MCProvider == a :> p @@ b :> q
MCCost == a :> 1 @@ b :> 2

Signal(status, date, header, delay, text, phrase) ==
    [status |-> status, retryDate |-> date, resetHeader |-> header,
     retryDelay |-> delay, textDelay |-> text, phrase |-> phrase]

MCSignals ==
    { Signal(429, Never, Never, 1, Never, "none"),
      Signal(429, Never, 2, 1, Never, "rate"),
      Signal(429, Never, Never, Never, Never, "none"),
      Signal(402, 1, Never, Never, Never, "none"),
      Signal(500, Never, Never, Never, 1, "rate"),
      Signal(500, Never, Never, Never, Never, "none") }

Plain == [providers |-> {}, models |-> {}, scoped |-> {}, disabled |-> {},
          pins |-> << >>, static |-> << >>, jev |-> TRUE,
          dwell |-> "minutes", dwellMinutes |-> 2, preferWait |-> 0]

\* The engine ranks under a dwell of two minutes; the static order prefers b and
\* a task ends the dwell; a is pinned for the task; waiting is preferred; an
\* allowlist, a scope and an override leave one model.
MCSettings ==
    { Plain,
      [Plain EXCEPT !.jev = FALSE, !.static = <<b, a>>, !.dwell = "remainder_of_task"],
      [Plain EXCEPT !.pins = [task |-> a, default |-> b]],
      [Plain EXCEPT !.pins = [kind |-> b], !.jev = FALSE],
      [Plain EXCEPT !.preferWait = 1, !.dwell = "remainder_of_phase"],
      [Plain EXCEPT !.models = {a, b}, !.providers = {q}, !.scoped = {a, b}],
      [Plain EXCEPT !.disabled = {b}, !.jev = FALSE] }
=============================================================================
