------------------------------ MODULE Signals -------------------------------
(***************************************************************************)
(* The commander's intent: the declared objectives and regimes             *)
(* (intent/intent.py), the regime that holds at an hour under a set of     *)
(* signals, the solver passes its priority asks for (intent/solve.py); the *)
(* signal bridge (intent/signals.py) and the conductor above it            *)
(* (proposer/orchestrate.py): a forecast is checked field by field, raises *)
(* the signals it bears out, and with them chooses the regime that orders  *)
(* the solve.                                                              *)
(*                                                                         *)
(* An artifact is [kinds, regimes]: kinds gives each objective "floor" or  *)
(* "objective"; a regime is [key, hours, signals, priority], hours the     *)
(* pair <<from, upto>> or <<>> when it declares none.  A forecast is       *)
(* [arrivals, load], each a sequence of hour entries; a quantity is a      *)
(* natural number or one of Unreadable.  Ratios are in tenths.  A section  *)
(* or a field that is not there is Missing.                                *)
(***************************************************************************)
EXTENDS Naturals, FiniteSets, Sequences, SequencesExt, FiniteSetsExt

CONSTANT KeyOrder   \* every objective's name once, in the order of their names
ASSUME KeyAssumption ==
  /\ KeyOrder \in Seq(ToSet(KeyOrder))
  /\ \A i, j \in DOMAIN KeyOrder : KeyOrder[i] = KeyOrder[j] => i = j
CONSTANTS Missing, NotFinite, Negative, NotANumber

CanonicalFloorOrder == <<"readiness", "service_completion">>

(* What stands at some positions of a sequence, and its elements of a kind, *)
(* in their order; and the first of each that it repeats.                  *)
Sublist(s, places) ==
  [n \in 1..Cardinality(places) |-> s[CHOOSE i \in places : Cardinality({j \in places : j < i}) = n - 1]]
Those(s, Keeps(_)) == Sublist(s, {i \in DOMAIN s : Keeps(s[i])})
Dedupe(s) == Sublist(s, {i \in DOMAIN s : \A j \in 1..(i - 1) : s[j] # s[i]})

(* Every objective the artifact calls a floor, the two named ones first.   *)
FloorsOf(artifact) ==
  LET IsFloor(k) == k \in DOMAIN artifact.kinds /\ artifact.kinds[k] = "floor"
  IN  Those(CanonicalFloorOrder, IsFloor)
        \o Those(KeyOrder, LAMBDA k : IsFloor(k) /\ ~Contains(CanonicalFloorOrder, k))

BuildActiveUnguarded(artifact, regime) ==
  [regime |-> regime.key,
   priority |-> Dedupe(Those(regime.priority, LAMBDA k : k \in DOMAIN artifact.kinds))]
BuildActive(artifact, regime) ==
  LET floors == FloorsOf(artifact)
      soft == Those(regime.priority, LAMBDA k : k \in DOMAIN artifact.kinds /\ ~Contains(floors, k))
  IN  [regime |-> regime.key, priority |-> Dedupe(floors \o soft)]

KnownSignals(artifact) == UNION {artifact.regimes[i].signals : i \in DOMAIN artifact.regimes}

InHours(hours, hour) ==
  IF hours[1] <= hours[2] THEN hours[1] <= hour /\ hour < hours[2]
  ELSE hour >= hours[1] \/ hour < hours[2]
Matches(regime, hour, signals) ==
  /\ regime.hours # <<>> => InHours(regime.hours, hour)
  /\ regime.signals \subseteq signals

Refused == [regime |-> "refused", priority |-> <<>>]
FirstRegime(artifact, hour, signals, bears) ==
  SelectInSeq(artifact.regimes, LAMBDA r : (r.signals # {} <=> bears) /\ Matches(r, hour, signals))

(* The regimes that ask for a signal come before those that read the clock *)
(* only, and among each kind the first declared wins; a signal no regime   *)
(* knows is refused, and so is an artifact without a default.              *)
ResolveByDeclaration(artifact, hourOfDay, signals) ==
  LET first == SelectInSeq(artifact.regimes, LAMBDA r : Matches(r, hourOfDay % 24, signals))
  IN  IF ~(signals \subseteq KnownSignals(artifact)) \/ first = 0 THEN Refused
      ELSE BuildActive(artifact, artifact.regimes[first])
ResolveIntent(artifact, hourOfDay, signals) ==
  LET asking == FirstRegime(artifact, hourOfDay % 24, signals, TRUE)
      onTheClock == FirstRegime(artifact, hourOfDay % 24, signals, FALSE)
      first == IF asking # 0 THEN asking ELSE onTheClock
  IN  IF ~(signals \subseteq KnownSignals(artifact)) \/ first = 0 THEN Refused
      ELSE BuildActive(artifact, artifact.regimes[first])

(***************************************************************************)
(* The pass sequencer: what of a priority the solver can act on.           *)
(***************************************************************************)
SolverPass(key) ==
  CASE key = "readiness" -> "min_tardy"
    [] key = "service_completion" -> "shield"
    [] key \in {"throughput", "dwell"} -> "min_flow"
    [] key \in {"energy_cost", "bess_peak_shave"} -> "min_peak"
    [] OTHER -> "none"

PassSequence(active) ==
  LET passes == [i \in DOMAIN active.priority |-> SolverPass(active.priority[i])]
  IN  Dedupe(Those(passes, LAMBDA m : m \notin {"none", "shield"}))
Unmodeled(active) == Dedupe(Those(active.priority, LAMBDA k : SolverPass(k) = "none"))
Shielded(active) == Dedupe(Those(active.priority, LAMBDA k : SolverPass(k) = "shield"))

-----------------------------------------------------------------------------
Unreadable == {Missing, NotFinite, Negative, NotANumber}
IsQuantity(x) == x \notin Unreadable

(* The quantities of a forecast and its two sections; a mark for what      *)
(* cannot be read is none of them.                                         *)
Quantity == Nat \cup Unreadable
Arrivals == Seq([hour : 0..23, expected : Quantity, baseline : Quantity])
Loads == Seq([hour : 0..23, p90 : Quantity])
ASSUME QuantityAssumption == Unreadable \cap Nat = {} /\ Missing \notin Arrivals \cup Loads

Defaults == [surgeMultiplier |-> 20, surgeWindow |-> 3, peakFraction |-> 9, peakWindow |-> 6]
WindowNames == {"surgeWindow", "peakWindow"}

(* A caller's threshold: windows are 1..24 whole hours, ratios positive.   *)
(* One that is not a whole number of hours is NotFinite here.              *)
IsOverride(name, value) ==
  /\ name \in DOMAIN Defaults
  /\ IsQuantity(value)
  /\ value > 0
  /\ name \in WindowNames => value <= 24
InForce(overrides) ==
  [n \in DOMAIN Defaults |-> IF n \in DOMAIN overrides THEN overrides[n] ELSE Defaults[n]]
Grounding(overrides) ==
  [n \in DOMAIN Defaults |-> IF n \in DOMAIN overrides THEN "operator-override" ELSE "inference"]

(* The first entry of each hour, and the entries of a window; both past    *)
(* midnight.                                                               *)
HoursOf(section) == {section[i].hour : i \in DOMAIN section}
EntryAt(section, hour) ==
  section[SelectInSeq(section, LAMBDA h : h.hour = hour)]
WindowHours(now, width) == {(now + i) % 24 : i \in 0..(width - 1)}
IsSection(section) ==
  /\ section # Missing /\ section # <<>>
  /\ \A i \in DOMAIN section : section[i].hour # Missing
SumOver(section, now, width, Field(_)) ==
  MapThenSumSet(LAMBDA h : Field(EntryAt(section, h)), WindowHours(now, width))

(* What of the forecast the two signals read, and whether it can be read.  *)
SurgeReadable(f, now, thr) ==
  /\ WindowHours(now, thr.surgeWindow) \subseteq HoursOf(f.arrivals)
  /\ \A h \in WindowHours(now, thr.surgeWindow) :
       LET e == EntryAt(f.arrivals, h) IN IsQuantity(e.expected) /\ IsQuantity(e.baseline)
  /\ SumOver(f.arrivals, now, thr.surgeWindow, LAMBDA e : e.baseline) > 0
PeakReadable(f, now, thr) ==
  /\ WindowHours(now, thr.peakWindow) \subseteq HoursOf(f.load)
  /\ \A h \in WindowHours(now, thr.peakWindow) : IsQuantity(EntryAt(f.load, h).p90)
SurgeHit(f, now, thr) ==
  10 * SumOver(f.arrivals, now, thr.surgeWindow, LAMBDA e : e.expected)
    >= thr.surgeMultiplier * SumOver(f.arrivals, now, thr.surgeWindow, LAMBDA e : e.baseline)
PeakHit(f, now, thr, target) ==
  10 * Max({EntryAt(f.load, h).p90 : h \in WindowHours(now, thr.peakWindow)})
    >= thr.peakFraction * target

(* The comparison with a number that is not one is false: a bridge that    *)
(* compared before it checked would read an unreadable hour as a quiet one.*)
Quiet(x) == IF IsQuantity(x) THEN x ELSE 0
QuietForecast(f) ==
  [arrivals |-> [i \in DOMAIN f.arrivals |->
                   [f.arrivals[i] EXCEPT !.expected = Quiet(@), !.baseline = Quiet(@)]],
   load |-> [i \in DOMAIN f.load |-> [f.load[i] EXCEPT !.p90 = Quiet(@)]]]
Raised(f, now, target, weather, thr) ==
  (IF SurgeHit(f, now, thr) THEN {"demand_surge"} ELSE {})
    \cup (IF PeakHit(f, now, thr, target) THEN {"grid_peak_imminent"} ELSE {})
    \cup (IF weather THEN {"weather_hold"} ELSE {})

SignalsUnchecked(f, target, now, weather, overrides) ==
  LET thr == InForce(overrides)
      g == QuietForecast(f)
  IN  IF ~(SurgeReadable(g, now, thr) /\ PeakReadable(g, now, thr)) THEN {"refused"}
      ELSE Raised(g, now, target, weather, thr)
ForecastSignals(f, target, now, weather, overrides) ==
  LET thr == InForce(overrides)
  IN  IF \/ now \notin 0..23
         \/ ~IsQuantity(target) \/ target = 0
         \/ \E n \in DOMAIN overrides : ~IsOverride(n, overrides[n])
         \/ ~IsSection(f.arrivals) \/ ~IsSection(f.load)
         \/ ~SurgeReadable(f, now, thr) \/ ~PeakReadable(f, now, thr)
      THEN {"refused"}
      ELSE Raised(f, now, target, weather, thr)

(***************************************************************************)
(* orchestrate(): the conductor refuses what it would have to guess, then  *)
(* hands the proposer the regime's passes, or none of them (<<>>, the      *)
(* two-pass solve) when the caller declined the regime's cost.             *)
(***************************************************************************)
Orchestrate(call) ==
  LET raised == ForecastSignals(call.forecast, call.target, call.now, call.weather,
                                call.thresholds)
      active == ResolveIntent(call.intent, call.now, raised)
  IN  IF \/ call.now \notin 0..23
         \/ call.runId = Missing
         \/ call.clash
         \/ call.target = Missing
         \/ raised = {"refused"}
         \/ active = Refused
      THEN [outcome |-> "refused"]
      ELSE [outcome |-> "proposed", signals |-> raised, regime |-> active.regime,
            modes |-> IF call.regime THEN PassSequence(active) ELSE <<>>,
            grounding |-> Grounding(call.thresholds), runId |-> call.runId]
=============================================================================
