------------------------------- MODULE Sizing -------------------------------
(***************************************************************************)
(* The onboarding sizer (onboarding/sizer.py): from a fleet and a tariff   *)
(* to the points, the connection and the battery of a new site, and the    *)
(* site profile that goes with them.                                       *)
(*                                                                         *)
(* A fleet is [classes, window, base]; a class [count, kwh, kw, arrive,    *)
(* target, taper, cycles], states of charge and taper in percent.  Powers  *)
(* are parts of a kW, PerKw to each, energies those over an hour; the      *)
(* day's curve has a point every hour, so SiteBilling's minute is an hour  *)
(* here.                                                                   *)
(***************************************************************************)
EXTENDS SiteBilling

CONSTANT PerKw   \* parts a kW has
ASSUME PartsAssumption == PerKw \in Nat \ {0}

CycleEnergy(c) == (c.kwh * (c.target - c.arrive)) \div 100
ClassEnergy(c) == CycleEnergy(c) * c.count * c.cycles
DayEnergy(fleet) == MapThenSumSet(LAMBDA i : ClassEnergy(fleet.classes[i]), DOMAIN fleet.classes)
CeilOf(a, b) == (a + b - 1) \div b
FlatLoadFloor(fleet) == CeilOf(DayEnergy(fleet), fleet.window) + fleet.base
UnmanagedPeak(fleet) ==
  MapThenSumSet(LAMBDA i : fleet.classes[i].count * fleet.classes[i].kw, DOMAIN fleet.classes) + fleet.base

OutlastsWindow(c, window) == 100 * CycleEnergy(c) > c.kw * c.taper * window
ServicePointsNeeded(c, window) ==
  LET byHours == CeilOf(100 * ClassEnergy(c), c.kw * c.taper * window)
      byDuration == IF OutlastsWindow(c, window) THEN c.count ELSE 1
  IN  Min({c.count, Max({1, byHours, byDuration})})
UnservableClasses(fleet) == {i \in DOMAIN fleet.classes : OutlastsWindow(fleet.classes[i], fleet.window)}

(* The battery of a candidate gives the deficit and takes it back, losses  *)
(* included, outside the window; the recharge draws from the same meter.   *)
OffWindow(fleet) == 24 - fleet.window
DeficitOf(fleet, grid) == Max({0, FlatLoadFloor(fleet) - grid}) * fleet.window
StorageEnergy(fleet, grid, efficiency) == CeilOf(100 * DeficitOf(fleet, grid), efficiency)
RechargeKw(fleet, grid, efficiency) == CeilOf(StorageEnergy(fleet, grid, efficiency), OffWindow(fleet))
FeasibleIgnoringRecharge(fleet, grid, efficiency) ==
  grid >= FlatLoadFloor(fleet) \/ OffWindow(fleet) > 0
IsFeasible(fleet, grid, efficiency) ==
  \/ grid >= FlatLoadFloor(fleet)
  \/ OffWindow(fleet) > 0 /\ fleet.base + RechargeKw(fleet, grid, efficiency) <= grid

WindowOpens == 22
DayCurve(fleet, grid, recharge) ==
  [k \in 1..25 |-> [from |-> k - 1,
     kw |-> IF k < 25 /\ ((k - 1) - WindowOpens) % 24 < fleet.window THEN grid ELSE fleet.base + recharge]]
Evaluate(fleet, grid, tariff, month, efficiency) ==
  LET feasible == IsFeasible(fleet, grid, efficiency)
      recharge == IF DeficitOf(fleet, grid) = 0 \/ ~feasible THEN 0 ELSE RechargeKw(fleet, grid, efficiency)
      billed == Max({grid, fleet.base + recharge})
  IN  [grid |-> grid, power |-> Max({0, FlatLoadFloor(fleet) - grid}),
       storage |-> StorageEnergy(fleet, grid, efficiency), recharge |-> recharge, billed |-> billed,
       feasible |-> feasible,
       cost |-> Bill(DayCurve(fleet, grid, recharge), tariff, month, 30, billed, None)]

(* The sweep always visits the floor; the cheapest feasible one wins, the  *)
(* smallest connection first.                                              *)
SitingOptions(fleet, tariff, options, month, efficiency) ==
  {Evaluate(fleet, g, tariff, month, efficiency) : g \in options \cup {FlatLoadFloor(fleet)}}
Recommended(fleet, tariff, options, month, efficiency) ==
  LET feasible == {c \in SitingOptions(fleet, tariff, options, month, efficiency) : c.feasible}
  IN  IF feasible = {} THEN None
      ELSE CHOOSE c \in feasible :
             \A d \in feasible : c.cost < d.cost \/ (c.cost = d.cost /\ c.grid <= d.grid)

(* round(): a whole number of kW, the even one of two that are as near.    *)
RoundToKw(power) ==
  LET below == power \div PerKw
      over == 2 * (power % PerKw)
  IN  PerKw * (IF over > PerKw \/ (over = PerKw /\ below % 2 = 1) THEN below + 1 ELSE below)

(* Storage is bought in whole units, each usable from 10 to 95 per cent.   *)
ToSiteProfile(fleet, rec, unitEnergy, unitPower) ==
  [grid |-> [service |-> RoundToKw(rec.grid), transformer |-> None, switchgear |-> None, margin |-> 0],
   installed |-> RoundToKw(UnmanagedPeak(fleet) - fleet.base),
   storage |-> IF rec.storage = 0 THEN None
               ELSE [power |-> unitPower, energy |-> unitEnergy, efficiency |-> 96, socMin |-> 10, socMax |-> 95,
                     units |-> Max({1, CeilOf(100 * rec.storage, unitEnergy * 85)})]]
=============================================================================
