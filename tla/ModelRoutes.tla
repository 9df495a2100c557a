---------------------------- MODULE ModelRoutes ----------------------------
(***************************************************************************)
(* Choosing a model for an attempt and replacing it when its route hits a  *)
(* cap (src/models).  A model reference and its route are one value here:   *)
(* deriveRouteId hashes exactly the pair that the reference names.          *)
(* The table of caps is shared by everything the coordinator runs, so caps, *)
(* probes, budgets and registry refreshes happen while a selection waits    *)
(* for the decision engine.  Time is counted in minutes.                    *)
(***************************************************************************)
EXTENDS Integers, Sequences, FiniteSets, SequencesExt

CONSTANTS
    Refs,        \* the models the registry may list, in the order of Listed
    Listed,      \* registry order: a sequence without repetition over Refs
    Provider,    \* [Refs -> providers]
    Cost,        \* [Refs -> cost], Unknown for a model without a price
    Settings,    \* the configurations a behaviour may run under
    Signals,     \* what a provider's error may look like
    NoRef,       \* null
    Never,       \* a reset nobody knows
    Unknown,     \* catalog.ts UNKNOWN
    MaxTime,     \* bound on the clock
    MaxCaps,     \* bound on caps observed in a behaviour
    MaxRefreshes \* bound on registry refreshes

ASSUME RoutesAssumption ==
    /\ MaxTime \in Nat /\ MaxCaps \in Nat /\ MaxRefreshes \in Nat
    /\ NoRef \notin Refs
    /\ IsInjective(Listed) /\ ToSet(Listed) = Refs

VARIABLES
    now,         \* the clock
    table,       \* RouteAvailabilityTable: a missing row reads as an available one
    exhausted,   \* models whose budget checkBudget refuses
    catalog,     \* the references of the last catalog, in order
    setting,     \* configuration, pins included
    attempt,     \* FallbackAttemptView with the reason recorded on the row
    mode,        \* "idle", "working", "selecting", "paused"
    pending,     \* what a selection read before it began to wait
    pause,       \* the decision a paused attempt is waiting on
    caps,        \* caps observed so far
    refreshes

vars == <<now, table, exhausted, catalog, setting, attempt, mode, pending, pause,
          caps, refreshes>>

Row(cap, reset) == [cap |-> cap, reset |-> reset]
FreeRow == Row("none", Never)
NoAttempt == [requested |-> NoRef, used |-> NoRef, since |-> Never, pin |-> NoRef, reason |-> "none"]
NoPause == [reason |-> "none", watch |-> {}, capped |-> {}]
NoPending == [for |-> "none", cands |-> << >>, all |-> {}]

---------------------------------------------------------------------------
(* Catalog, pins and policy *)

InAllowlist(r) ==
    /\ setting.providers = {} \/ Provider[r] \in setting.providers
    /\ setting.models = {} \/ r \in setting.models

\* The registry's models that are in scope, allowlisted and not disabled.
BuildCatalog(available) ==
    SelectSeq(Listed, LAMBDA r :
        /\ r \in available
        /\ setting.scoped = {} \/ r \in setting.scoped
        /\ InAllowlist(r)
        /\ r \notin setting.disabled)

PinScopes == <<"task", "phase", "workflow", "config", "kind", "default">>

\* The narrowest scope that pins a model wins.
ResolvePin(pins) ==
    LET set == SelectSeq(PinScopes, LAMBDA s : s \in DOMAIN pins)
    IN  IF set = << >> THEN NoRef ELSE pins[Head(set)]

\* An attempt before its model is selected.
Unselected == [NoAttempt EXCEPT !.pin = ResolvePin(setting.pins)]

\* Only an explicit markAvailable reopens a route.
EligibleAfterProbe(r) == table[r].cap = "none"

IsEligible(r) ==
    \/ table[r].cap = "none"
    \/ table[r].reset # Never /\ table[r].reset <= now

EligibleCandidates == SelectSeq(catalog, IsEligible)

\* Budget left to the ranking.
PolicyWithoutBudget(r, eligible) == InAllowlist(r) /\ r \in eligible

\* `eligible` is the set of candidates the selection was handed.
EnforcePolicy(r, eligible) ==
    /\ InAllowlist(r)
    /\ r \in eligible
    /\ r \notin exhausted

FirstPolicyPassing(order) ==
    LET ok == SelectSeq(order, LAMBDA r : EnforcePolicy(r, ToSet(order)))
    IN  IF ok = << >> THEN NoRef ELSE Head(ok)

OrderByStatic(cands) ==
    LET listed == SelectSeq(setting.static, LAMBDA r : r \in ToSet(cands))
    IN  listed \o SelectSeq(cands, LAMBDA r : r \notin ToSet(listed))

\* applyPin: a pin that is no candidate, or fails the policy, must be asked about.
PinHolds(cands) ==
    /\ attempt.pin \in ToSet(cands)
    /\ EnforcePolicy(attempt.pin, ToSet(cands))

Selected(requested, used, reason) ==
    [kind |-> "selected", requested |-> requested, used |-> used,
     reason |-> IF used = requested THEN "none" ELSE reason]
NoneSelected(reason) == [kind |-> "none", reason |-> reason]

RunStatic(cands) ==
    LET order == OrderByStatic(cands)
        used  == FirstPolicyPassing(order)
    IN  IF used = NoRef THEN NoneSelected("insufficient_info")
        ELSE Selected(Head(order), used, "static_fallback_order")

\* The verdicts of rankWithJev: the adequate candidates, or none was answered
\* by the engine.
Unanswered == [answered |-> FALSE, adequate |-> {}]
RankWithJev(cands) ==
    {Unanswered} \union
    IF setting.jev THEN [answered : {TRUE}, adequate : SUBSET ToSet(cands)] ELSE {}

\* selectModel without a pin, once the verdict is in.
SelectModel(cands, verdict) ==
    IF cands = << >> \/ ~verdict.answered THEN RunStatic(cands)
    ELSE LET adequate == SelectSeq(cands, LAMBDA r : r \in verdict.adequate)
             used     == FirstPolicyPassing(adequate)
         IN  IF used = NoRef THEN NoneSelected("inadequate")
             ELSE Selected(Head(adequate), used, "jev_selected_substitute")

---------------------------------------------------------------------------
(* Caps *)

\* An absolute time in a header wins over a delay, a header over the text.
ResolveEstimatedReset(signal, at) ==
    CASE signal.retryDate # Never   -> signal.retryDate
      [] signal.resetHeader # Never -> signal.resetHeader
      [] signal.retryDelay # Never  -> at + signal.retryDelay
      [] signal.textDelay # Never   -> at + signal.textDelay
      [] OTHER                      -> Never

DetectedKind(signal) ==
    CASE signal.status = 402 \/ signal.phrase = "quota"         -> "quota_exhausted"
      [] signal.status = 429
         /\ (signal.retryDelay # Never \/ signal.retryDate # Never) -> "rate_limited"
      [] signal.status = 429                                    -> "quota_exhausted"
      [] signal.phrase = "rate"                                 -> "rate_limited"
      [] OTHER                                                  -> "none"

DetectProviderCap(signal, at) == Row(DetectedKind(signal), ResolveEstimatedReset(signal, at))
BudgetCapObservation == Row("budget_cap", Never)
FromQuotaEvent(delay, at) ==
    IF delay = Never THEN Row("quota_exhausted", Never) ELSE Row("rate_limited", at + delay)

\* Bound: a reset the clock cannot reach is left out.
Observable(row) == row.reset # Never => row.reset <= MaxTime

MarkCapped(r, row) ==
    /\ caps < MaxCaps /\ Observable(row)
    /\ table' = [table EXCEPT ![r] = row]
    /\ caps' = caps + 1

FallbackReasonFromCap(cap) ==
    IF cap = "none" THEN "model_unavailable" ELSE cap

\* A turn of the working attempt comes back with an error of its provider.
ProviderError ==
    /\ mode = "working"
    /\ \E signal \in Signals :
         LET row == DetectProviderCap(signal, now)
         IN  row.cap # "none" /\ MarkCapped(attempt.used, row)
    /\ UNCHANGED <<now, exhausted, catalog, setting, attempt, mode, pending, pause, refreshes>>

\* Another worker of the run reports a quota event on a route.
QuotaEvent(r) ==
    /\ \E delay \in {Never, 1} : MarkCapped(r, FromQuotaEvent(delay, now))
    /\ UNCHANGED <<now, exhausted, catalog, setting, attempt, mode, pending, pause, refreshes>>

\* The spend on a model reaches its budget; the budget is raised again.
BudgetHit(r) ==
    /\ r \notin exhausted
    /\ MarkCapped(r, BudgetCapObservation)
    /\ exhausted' = exhausted \union {r}
    /\ UNCHANGED <<now, catalog, setting, attempt, mode, pending, pause, refreshes>>

MarkAvailable(r) ==
    /\ table[r].cap # "none"
    /\ table' = [table EXCEPT ![r] = FreeRow]
    /\ exhausted' = exhausted \ {r}
    /\ UNCHANGED <<now, catalog, setting, attempt, mode, pending, pause, caps, refreshes>>

\* The registry is read again: the catalog is rebuilt and rows of routes that
\* left it are pruned.
RefreshCatalog(available) ==
    /\ refreshes < MaxRefreshes
    /\ refreshes' = refreshes + 1
    /\ catalog' = BuildCatalog(available)
    /\ catalog' # catalog
    /\ table' = [r \in Refs |-> IF r \in ToSet(catalog') THEN table[r] ELSE FreeRow]
    /\ UNCHANGED <<now, exhausted, setting, attempt, mode, pending, pause, caps>>

Tick ==
    /\ now < MaxTime
    /\ now' = now + 1
    /\ UNCHANGED <<table, exhausted, catalog, setting, attempt, mode, pending, pause, caps, refreshes>>

---------------------------------------------------------------------------
(* Starting an attempt *)

\* The pin is settled at once; without one the selection waits for verdicts.
\* A pin that does not hold is a question for the user, who answers by
\* lifting the cap or not at all: the attempt stays where it is.
BeginAttempt ==
    /\ mode = "idle"
    /\ IF attempt.pin # NoRef
       THEN /\ PinHolds(EligibleCandidates)
            /\ attempt' = [attempt EXCEPT !.requested = attempt.pin, !.used = attempt.pin]
            /\ mode' = "working" /\ UNCHANGED pending
       ELSE /\ mode' = "selecting" /\ UNCHANGED attempt
            /\ pending' = [for |-> "start", cands |-> EligibleCandidates, all |-> {}]
    /\ UNCHANGED <<now, table, exhausted, catalog, setting, pause, caps, refreshes>>

StartSelected(result) ==
    /\ pending.for = "start"
    /\ IF result.kind = "selected"
       THEN /\ mode' = "working"
            /\ attempt' = [attempt EXCEPT !.requested = result.requested,
                          !.used = result.used, !.reason = result.reason,
                          !.since = IF result.used = result.requested THEN Never ELSE now]
       ELSE mode' = "idle" /\ UNCHANGED attempt
    /\ UNCHANGED pause

---------------------------------------------------------------------------
(* Fallback *)

\* The dwell is over a minute early.
InDwellShort(boundary) ==
    /\ attempt.since # Never
    /\ setting.dwell = "minutes" => now < attempt.since + setting.dwellMinutes - 1
    /\ setting.dwell = "remainder_of_task" => ~boundary

InDwell(boundary) ==
    /\ attempt.since # Never
    /\ CASE setting.dwell = "minutes"           -> now < attempt.since + setting.dwellMinutes
         [] setting.dwell = "remainder_of_task" -> ~boundary
         [] OTHER                               -> TRUE

Watching(reason, routes) ==
    [reason |-> reason, watch |-> routes,
     capped |-> {r \in routes : ~IsEligible(r)}]

\* The primary's reset is near and the first substitute costs more, or nobody knows.
PreferWait(available) ==
    /\ attempt.requested \in ToSet(catalog)
    /\ setting.preferWait > 0
    /\ LET reset      == table[attempt.requested].reset
           substitute == Cost[Head(available)]
           primary    == Cost[attempt.requested]
       IN  /\ reset # Never
           /\ reset - now \in 0 .. setting.preferWait
           /\ \/ substitute = Unknown \/ primary = Unknown
              \/ substitute > primary

\* The pause chooseFallback decides on before it asks anyone; NoPause if none.
PauseNow(available) ==
    IF attempt.pin # NoRef
    THEN IF attempt.pin \in ToSet(catalog) /\ IsEligible(attempt.pin) THEN NoPause
         ELSE Watching("pin_capped", {attempt.pin} \intersect ToSet(catalog))
    ELSE CASE available = << >>      -> Watching("all_capped", ToSet(catalog))
           [] PreferWait(available)  -> Watching("prefer_wait", {attempt.requested})
           [] OTHER                  -> NoPause

\* The dwell is looked at and the pin is not.
LeftAloneInDwell(boundary) ==
    attempt.used \in ToSet(catalog) /\ IsEligible(attempt.used) /\ InDwell(boundary)

\* The dwell holds on a route that stopped answering.
LeftAloneWhateverTheCap(boundary) == attempt.pin # NoRef \/ InDwell(boundary)

\* A pinned attempt is left alone, and so is one that dwells on a model that
\* still answers.
LeftAlone(boundary) ==
    \/ attempt.pin # NoRef /\ attempt.pin \in ToSet(catalog) /\ IsEligible(attempt.pin)
    \/ /\ attempt.pin = NoRef
       /\ attempt.used \in ToSet(catalog) /\ IsEligible(attempt.used)
       /\ InDwell(boundary)

PrimaryFirst(cands) ==
    SelectSeq(cands, LAMBDA r : r = attempt.requested)
        \o SelectSeq(cands, LAMBDA r : r # attempt.requested)

\* chooseFallback up to its await, with applyCapPause when it pauses.
ChooseFallback(boundary) ==
    /\ mode = "working"
    /\ ~LeftAlone(boundary)
    /\ LET available == EligibleCandidates
           decided   == PauseNow(available)
       IN  IF decided # NoPause
           THEN /\ pause' = decided /\ mode' = "paused"
                /\ UNCHANGED pending
           ELSE /\ pending' = [for |-> "fallback",
                              cands |-> IF boundary THEN PrimaryFirst(available) ELSE available,
                              all |-> ToSet(catalog)]
                /\ mode' = "selecting"
                /\ UNCHANGED pause
    /\ UNCHANGED <<now, table, exhausted, catalog, setting, attempt, caps, refreshes>>

\* A switch back keeps the reason of the switch away.
StaleReason(used) ==
    IF used = attempt.requested THEN attempt.reason
    ELSE FallbackReasonFromCap(table[attempt.requested].cap)

\* The reason recorded with a switch: none once the primary is back.
SwitchReason(used) ==
    IF used = attempt.requested THEN "none"
    ELSE FallbackReasonFromCap(IF attempt.requested \in pending.all
                               THEN table[attempt.requested].cap ELSE "none")

RecordFallbackSwitch(used) ==
    attempt' = [attempt EXCEPT !.used = used, !.reason = SwitchReason(used),
                               !.since = IF used = attempt.requested THEN Never ELSE now]

\* The rest of chooseFallback, and the switch it returns.
FallbackSelected(result) ==
    /\ pending.for = "fallback"
    /\ CASE result.kind = "none" ->
              /\ pause' = Watching(IF result.reason = "inadequate" THEN "no_adequate" ELSE "all_capped",
                                   pending.all)
              /\ mode' = "paused" /\ UNCHANGED attempt
         [] result.kind = "selected" /\ result.used = attempt.used ->
              mode' = "working" /\ UNCHANGED <<attempt, pause>>
         [] OTHER ->
              mode' = "working" /\ RecordFallbackSwitch(result.used) /\ UNCHANGED pause

\* The verdicts arrive, whatever changed while they were awaited.
VerdictsArrive ==
    /\ mode = "selecting"
    /\ \E result \in {SelectModel(pending.cands, verdict) :
                          verdict \in RankWithJev(pending.cands)} :
         StartSelected(result) \/ FallbackSelected(result)
    /\ pending' = NoPending
    /\ UNCHANGED <<now, table, exhausted, catalog, setting, caps, refreshes>>

\* isResumable: some watched route answers again.
IsResumable(watch) == \E r \in watch : IsEligible(r)

\* resumeIfCapCleared: the task is ready again, and its next dispatch is a new
\* attempt that is selected for anew.
ResumeIfCapCleared ==
    /\ mode = "paused"
    /\ IsResumable(pause.watch)
    /\ mode' = "idle" /\ pause' = NoPause
    /\ attempt' = Unselected
    /\ UNCHANGED <<now, table, exhausted, catalog, setting, pending, caps, refreshes>>

---------------------------------------------------------------------------
Init ==
    /\ now = 0 /\ caps = 0 /\ refreshes = 0
    /\ table = [r \in Refs |-> FreeRow] /\ exhausted = {}
    /\ setting \in Settings
    /\ catalog = BuildCatalog(Refs)
    /\ attempt = Unselected
    /\ mode = "idle" /\ pending = NoPending /\ pause = NoPause

Next ==
    \/ Tick \/ ProviderError \/ BeginAttempt \/ VerdictsArrive \/ ResumeIfCapCleared
    \/ \E boundary \in BOOLEAN : ChooseFallback(boundary)
    \/ \E r \in Refs : QuotaEvent(r) \/ BudgetHit(r) \/ MarkAvailable(r)
    \/ \E available \in SUBSET Refs : RefreshCatalog(available)

\* The clock runs, every selection is answered or times out, a cap on the used
\* route always leads to a decision, and watched routes are looked at again.
Fairness ==
    /\ WF_vars(Tick) /\ WF_vars(VerdictsArrive) /\ WF_vars(ResumeIfCapCleared)
    /\ WF_vars(ChooseFallback(FALSE))

Spec == Init /\ [][Next]_vars /\ Fairness

---------------------------------------------------------------------------
(* Properties *)

Working == mode \in {"working", "paused"} \/ pending.for = "fallback"

\* enforcePolicy: a model becomes the used one only if the allowlist permits it and
\* its budget is open at that very moment, however long the ranking took.
PolicyKept ==
    attempt'.used \notin {attempt.used, NoRef} =>
        InAllowlist(attempt'.used) /\ attempt'.used \notin exhausted

\* fallback.ts, step 1, and recordFallbackSwitch: no cap, refresh or verdict moves a
\* pinned attempt, and a reason is recorded exactly while a substitute is at work.
PinKept ==
    Working' => /\ attempt'.pin # NoRef => attempt'.used = attempt'.pin
                /\ (attempt'.reason = "none") <=> (attempt'.used = attempt'.requested)

\* inDwell: within the dwell a substitute is replaced only if its route was capped
\* or left the catalog when the decision was taken.
DwellKept ==
    /\ mode = "working" /\ mode' \in {"selecting", "paused"}
    /\ attempt.pin = NoRef /\ setting.dwell = "minutes" /\ attempt.since # Never
    /\ now < attempt.since + setting.dwellMinutes
    => ~(attempt.used \in ToSet(catalog) /\ IsEligible(attempt.used))

\* Every switch of the used model obeys policy, pin and dwell at the moment it is
\* made, although it was decided before the ranking was awaited.
SwitchesWithinPolicy == [][PolicyKept /\ PinKept /\ DwellKept]_vars

\* An attempt on a capped route does not stay there, even if the cap arrived while
\* a selection was pending: the cap clears, the model changes or the attempt pauses.
CappedRouteLeft ==
    \A r \in Refs :
      (mode = "working" /\ attempt.used = r /\ ~IsEligible(r)) ~>
          (IsEligible(r) \/ attempt.used # r \/ mode = "paused")

\* A paused attempt resumes once the reset of a route it watches has passed, unless
\* by then no watched route has a known reset (isResumable).
PauseEnds ==
    (mode = "paused" /\ \E r \in pause.watch : table[r].reset # Never) ~>
        (mode # "paused" \/ \A r \in pause.watch : table[r].reset = Never)

\* What applyCapPause relies on: chooseFallback has established a nonempty set of
\* candidates with every member capped.
PauseOnlyWhenAllCapped ==
    mode = "paused" /\ pause.reason \in {"all_capped", "no_adequate"} => pause.watch # {} /\ pause.watch \subseteq pause.capped
=============================================================================
