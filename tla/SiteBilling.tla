---------------------------- MODULE SiteBilling -----------------------------
(***************************************************************************)
(* A site and what its electricity costs: sites/tariff.py's bill of a load *)
(* curve, sites/site_profile.py's two-level power model, and what the      *)
(* comparison makes of a battery (forward.py's dispatch_storage, and the   *)
(* deck's battery that would match a schedule).                            *)
(*                                                                         *)
(* A curve is a sequence of [from, kw], each load holding until the next   *)
(* point; the last closes it.  Energy is in kW-minutes; an interval's      *)
(* average load is in the Scale-th part of a kW.                           *)
(***************************************************************************)
EXTENDS Integers, Sequences, FiniteSets, FiniteSetsExt, SequencesExt

CONSTANTS DayMinutes, Scale, None

Storages == [power : Nat, units : Nat, energy : Nat, socMin : Nat, socMax : Nat, efficiency : Nat]
ASSUME BillingAssumption ==
  DayMinutes \in Nat \ {0} /\ Scale \in Nat \ {0} /\ None \notin Int \cup {"all"} \cup Storages

CurveEnd(curve) == curve[Len(curve)].from
LoadOf(curve, t) ==
  LET held == {i \in 1..(Len(curve) - 1) : curve[i].from <= t /\ t < curve[i + 1].from}
  IN  SumFunctionOnSet([i \in DOMAIN curve |-> curve[i].kw], held)
EnergyIn(curve, from, upto) == MapThenSumSet(LAMBDA t : LoadOf(curve, t), from..(upto - 1))
InstantPeak(curve) == Max({0} \cup {LoadOf(curve, t) : t \in 0..CurveEnd(curve)})

(* A demand meter's readings: the average over each fixed interval, the    *)
(* last one over its whole width too.                                      *)
IntervalStarts(curve, interval) ==
  {s \in 0..(CurveEnd(curve) - 1) : s % interval = 0}
Reading(curve, interval, start) ==
  (Scale * EnergyIn(curve, start, start + interval)) \div interval
PeakReading(curve, interval, starts) ==
  Max({0} \cup {Reading(curve, interval, s) : s \in starts \cap IntervalStarts(curve, interval)})

ContainsUnwrapped(window, minute) ==
  \E r \in window.ranges : r[1] <= minute % DayMinutes /\ minute % DayMinutes < r[2]
Contains24(window, minute) ==
  LET m == minute % DayMinutes
  IN  \E r \in window.ranges : IF r[1] <= r[2] THEN r[1] <= m /\ m < r[2] ELSE m >= r[1] \/ m < r[2]
WindowAt(tariff, minute) ==   \* the first declared window that holds the minute
  LET held == {i \in DOMAIN tariff.windows : Contains24(tariff.windows[i], minute)}
  IN  IF held = {} THEN "all" ELSE tariff.windows[Min(held)].name
WindowNamed(tariff, name) ==
  tariff.windows[SelectInSeq(tariff.windows, LAMBDA w : w.name = name)]
IsWindow(tariff, name) == \E i \in DOMAIN tariff.windows : tariff.windows[i].name = name

SeasonOf(tariff, month) ==
  IF month \in tariff.summer THEN "summer" ELSE IF month \in tariff.winter THEN "winter" ELSE "transition"
SeasonApplies(declared, actual) ==
  declared = "all" \/ declared = actual \/ (declared = "summer_peak" /\ actual = "summer")

(* A quantity priced up the ladder; a tier without an upper end is None.   *)
UpperOf(tier, quantity) == IF tier.upto = None THEN quantity ELSE tier.upto
PriceEachTier(tiers, quantity) ==
  MapThenSumSet(LAMBDA i : Min({quantity, UpperOf(tiers[i], quantity)}) * tiers[i].rate, DOMAIN tiers)
Price(tiers, quantity) ==
  LET Lower(i) == IF i = 1 THEN 0 ELSE UpperOf(tiers[i - 1], quantity)
  IN  MapThenSumSet(LAMBDA i : Max({0, Min({quantity, UpperOf(tiers[i], quantity)}) - Lower(i)}) * tiers[i].rate,
                    DOMAIN tiers)

(* The first declared rate of a window's own comes before the first that   *)
(* names no window.                                                        *)
RateOf(tariff, season, window) ==
  LET first == SelectInSeq(tariff.energy, LAMBDA e : SeasonApplies(e.season, season) /\ e.window = window)
  IN  IF first = 0 THEN None ELSE tariff.energy[first].rate
EnergyRate(tariff, season, window) ==
  IF RateOf(tariff, season, window) # None THEN RateOf(tariff, season, window) ELSE RateOf(tariff, season, None)
EnergyByWindow(curve, tariff) ==
  LET minutes == 0..(CurveEnd(curve) - 1)
  IN  [w \in {WindowAt(tariff, t) : t \in minutes} |->
         MapThenSumSet(LAMBDA t : LoadOf(curve, t), {t \in minutes : WindowAt(tariff, t) = w})]

(* What a component bills: its own interval's highest reading, inside its  *)
(* window for TOU and at the system's peaks for CP; the ratchet's floor    *)
(* raises only the plain component.                                        *)
RatchetFloor(tariff, historical) ==
  IF tariff.ratchet = None THEN 0 ELSE (tariff.ratchet * historical * Scale) \div 100
Measured(curve, component, tariff, coincident) ==
  CASE component.basis = "CP" -> PeakReading(curve, component.interval, coincident)
    [] component.basis = "TOU" ->
         PeakReading(curve, component.interval,
                     {t \in 0..CurveEnd(curve) : Contains24(WindowNamed(tariff, component.window), t)})
    [] OTHER -> PeakReading(curve, component.interval, 0..CurveEnd(curve))
Billed(curve, component, tariff, historical, coincident) ==
  LET measured == Measured(curve, component, tariff, coincident)
  IN  IF component.basis = "NCP" /\ component.window = None
      THEN Max({measured, RatchetFloor(tariff, historical)}) ELSE measured
DemandCost(curve, tariff, season, days, historical, coincident) ==
  LET priced == {i \in DOMAIN tariff.demand : SeasonApplies(tariff.demand[i].season, season)}
      Cost(c) == Price(c.tiers, Billed(curve, c, tariff, historical, coincident))
                   * (IF c.period = "day" THEN days ELSE 1)
  IN  IF tariff.demandFree THEN 0 ELSE MapThenSumSet(LAMBDA i : Cost(tariff.demand[i]), priced)

(* The blocks of hours-use: the first so many hours of the billed demand   *)
(* in one ladder, the rest in another, and never less than the floor.      *)
BlockCost(blocks, energy, billed) ==
  LET base == blocks.baseMinutes * billed
      Hours(i) == IF i = 0 THEN blocks.baseMinutes ELSE blocks.tail[i].upto
      Ladder == [i \in DOMAIN blocks.tail |->
                   [upto |-> IF blocks.tail[i].upto = None THEN None ELSE (Hours(i) - blocks.baseMinutes) * billed,
                    rate |-> blocks.tail[i].rate]]
  IN  Price(blocks.first, Min({energy, base})) + Price(Ladder, Max({0, energy - base}))
HoursUseBill(curve, tariff, days, historical) ==
  LET interval == IF tariff.demand = <<>> THEN 30 ELSE tariff.demand[1].interval
      billed == Max({PeakReading(curve, interval, 0..CurveEnd(curve)), RatchetFloor(tariff, historical)})
      energy == Scale * days * EnergyIn(curve, 0, CurveEnd(curve))
  IN  Max({BlockCost(tariff.blocks, energy, billed), tariff.blocks.minFixed + tariff.blocks.minPerKw * billed})

Bill(curve, tariff, month, days, historical, coincident) ==
  LET season == SeasonOf(tariff, month)
      energy == EnergyByWindow(curve, tariff)
      applying == {i \in DOMAIN tariff.demand : SeasonApplies(tariff.demand[i].season, season)}
  IN  IF tariff.blocks # None THEN HoursUseBill(curve, tariff, days, historical) + tariff.fixed
      ELSE IF \/ \E w \in DOMAIN energy : EnergyRate(tariff, season, w) = None
              \/ /\ ~tariff.demandFree /\ coincident = None
                 /\ \E i \in applying : tariff.demand[i].basis = "CP"
      THEN None
      ELSE MapThenSumSet(LAMBDA w : energy[w] * EnergyRate(tariff, season, w), DOMAIN energy)
             + DemandCost(curve, tariff, season, days, historical, coincident) + tariff.fixed

(* The tariffs a profile loads with: a component states its interval, only *)
(* the last tier is without end, and what it names is declared.            *)
IsTariff(tariff) ==
  /\ \A i \in DOMAIN tariff.demand :
       LET c == tariff.demand[i] IN
       /\ c.interval # None
       /\ c.basis \in {"NCP", "CP", "TOU"} /\ c.period \in {"month", "day"}
       /\ c.season \in {"all", "summer", "winter", "transition", "summer_peak"}
       /\ \A k \in 1..(Len(c.tiers) - 1) : c.tiers[k].upto # None
       /\ c.basis = "TOU" => c.window # None /\ IsWindow(tariff, c.window)
  /\ tariff.energy # <<>> \/ tariff.blocks # None

---------------------------------------------------------------------------
(* The connection: the smallest of the declared limits, less the margin    *)
(* (in percent of a kW), and whether the site's chargers can exceed it.    *)
Limits(grid) == {grid[l] : l \in {"service", "transformer", "switchgear"}} \ {None}
EffectiveCap(grid) == Min(Limits(grid)) * (100 - grid.margin)
BindingLevel(grid) ==
  LET least == {l \in {"service", "transformer", "switchgear"} : grid[l] = Min(Limits(grid))}
  IN  IF "service" \in least THEN "service" ELSE IF "transformer" \in least THEN "transformer" ELSE "switchgear"
IsBinding(site) == 100 * site.installed > EffectiveCap(site.grid)
UsableEnergy(storage) == (storage.energy * storage.units * (storage.socMax - storage.socMin)) \div 100
StoragePower(storage) == storage.power * storage.units

(* The lowest ceiling a battery can hold the site under: it bridges every  *)
(* step, its energy lasts, and what it gave comes back under the ceiling.  *)
StepStarts(curve, step) == {t \in 0..(CurveEnd(curve) - 1) : t % step = 0}
Above(curve, step, g) == [t \in StepStarts(curve, step) |-> Max({0, LoadOf(curve, t) - g})]
Below(curve, step, g) == [t \in StepStarts(curve, step) |-> Max({0, g - LoadOf(curve, t)})]
Deficit(curve, step, g) == step * SumFunction(Above(curve, step, g))
Slack(curve, step, g) == step * SumFunction(Below(curve, step, g))
CanHoldWithoutRecharge(curve, step, storage, g) ==
  /\ \A t \in StepStarts(curve, step) : LoadOf(curve, t) - g <= StoragePower(storage)
  /\ Deficit(curve, step, g) <= UsableEnergy(storage)
CanHold(curve, step, storage, g) ==
  /\ \A t \in StepStarts(curve, step) : LoadOf(curve, t) - g <= StoragePower(storage)
  /\ Deficit(curve, step, g) <= UsableEnergy(storage)
  /\ 100 * Deficit(curve, step, g) <= storage.efficiency * Slack(curve, step, g)

(* Halving the gap until it is one kW; the upper end always holds.         *)
DispatchCeiling(curve, step, storage) ==
  LET top == Max({LoadOf(curve, t) : t \in StepStarts(curve, step)})
      halved[g \in (0..top) \X (0..top)] ==
        LET mid == (g[1] + g[2]) \div 2
        IN  IF g[2] - g[1] <= 1 THEN g[2]
            ELSE IF CanHold(curve, step, storage, mid) THEN halved[<<g[1], mid>>] ELSE halved[<<mid, g[2]>>]
  IN  halved[<<Max({0, top - StoragePower(storage)}), top>>]

(* The battery that makes one curve present another's peak, and the        *)
(* connection a peak asks for, in whole services of a unit.                *)
BessToMatch(curve, step, ceiling, efficiency) ==
  [power |-> Max({0} \cup {LoadOf(curve, t) - ceiling : t \in StepStarts(curve, step)}),
   energy |-> Deficit(curve, step, ceiling),
   fits |-> 100 * Deficit(curve, step, ceiling) <= efficiency * Slack(curve, step, ceiling)]
InterconnectKw(peak, unit) == ((peak + unit - 1) \div unit) * unit
=============================================================================
