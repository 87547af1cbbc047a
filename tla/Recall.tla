------------------------------- MODULE Recall -------------------------------
(***************************************************************************)
(* The recall decision (recall/recall_decision.py): a ladder of thresholds *)
(* over an asset's state, a dummy that recalls by the clock, and the one   *)
(* cycle both are called from, with the work side's refusal.               *)
(*                                                                         *)
(* States of charge are in percent, times in minutes; the burn of a        *)
(* quarter of a percent per minute is counted in quarters.                 *)
(***************************************************************************)
EXTENDS Integers, Sequences

Thresholds ==
  [reserveMargin |-> 15, faultDebt |-> 3, commsStale |-> 90, sensorSoil |-> 35, washSoil |-> 50,
   pmKm |-> 8000, calibrationHours |-> 250, horizon |-> 30, service |-> 45, congestion |-> 30]
FreshComms == -1   \* the age of communications that are fresh

Stay == [recall |-> FALSE, trigger |-> "none", urgency |-> "none", lead |-> 0, ready |-> 0, deferrable |-> FALSE]
Rung(trigger, urgency, lead, site, deferrable) ==
  [recall |-> TRUE, trigger |-> trigger, urgency |-> urgency, lead |-> lead,
   ready |-> site.now + lead + site.eta + Thresholds.service, deferrable |-> deferrable]

(* The rungs, top down, the first that holds; the last three wait for a    *)
(* site without congestion.                                                *)
BelowGuard(a, site) == 4 * (a.soc - a.reserve) <= site.eta + Thresholds.horizon
ServiceIsDue(a) == a.km >= Thresholds.pmKm \/ a.hours >= Thresholds.calibrationHours
NaiveSoilFirst(a, site) ==
  LET open == site.congestion <= Thresholds.congestion IN
  IF open /\ a.soil >= Thresholds.sensorSoil THEN Rung("sensor_soil", "routine", 30, site, TRUE)
  ELSE IF BelowGuard(a, site) THEN Rung("critical_reserve", "critical", 0, site, FALSE)
  ELSE IF a.fault = 0 THEN Rung("fault_safety_critical", "critical", 0, site, FALSE)
  ELSE IF a.fault = 1 \/ a.faults >= Thresholds.faultDebt THEN Rung("fault_major", "urgent", 0, site, FALSE)
  ELSE IF a.soc <= a.reserve + Thresholds.reserveMargin THEN Rung("low_soc_reserve", "urgent", 0, site, FALSE)
  ELSE IF a.comms # FreshComms /\ a.comms >= Thresholds.commsStale THEN Rung("comms_stale", "urgent", 0, site, FALSE)
  ELSE IF open /\ ServiceIsDue(a) THEN Rung("service_interval_due", "routine", 60, site, TRUE)
  ELSE Stay
NaiveThreshold(a, site) ==
  LET open == site.congestion <= Thresholds.congestion IN
  IF BelowGuard(a, site) THEN Rung("critical_reserve", "critical", 0, site, FALSE)
  ELSE IF a.fault = 0 THEN Rung("fault_safety_critical", "critical", 0, site, FALSE)
  ELSE IF a.fault = 1 \/ a.faults >= Thresholds.faultDebt THEN Rung("fault_major", "urgent", 0, site, FALSE)
  ELSE IF a.soc <= a.reserve + Thresholds.reserveMargin THEN Rung("low_soc_reserve", "urgent", 0, site, FALSE)
  ELSE IF a.comms # FreshComms /\ a.comms >= Thresholds.commsStale THEN Rung("comms_stale", "urgent", 0, site, FALSE)
  ELSE IF open /\ ServiceIsDue(a) THEN Rung("service_interval_due", "routine", 60, site, TRUE)
  ELSE IF open /\ a.soil >= Thresholds.sensorSoil THEN Rung("sensor_soil", "routine", 30, site, TRUE)
  ELSE IF open /\ a.soil >= Thresholds.washSoil THEN Rung("wash_cadence", "routine", 60, site, TRUE)
  ELSE Stay
FixedWindow(site) ==
  IF 960 <= site.now /\ site.now < 1440
  THEN [Rung("fixed_window", "scheduled", 0, site, TRUE) EXCEPT !.ready = site.now + site.eta + 480]
  ELSE Stay
Decide(implementation, a, site) ==
  IF implementation = "fixed_window_dummy" THEN FixedWindow(site) ELSE NaiveThreshold(a, site)

(* One evaluation: nothing is recorded when nothing is recalled; a refusal *)
(* is recorded and asks for a new solve once the mission has run.          *)
RecallCycle(implementation, a, site, accepts, missionLeft) ==
  LET outcome == Decide(implementation, a, site)
      Event(type) == [type |-> type, asset |-> a, decision |-> outcome]
  IN  IF ~outcome.recall THEN [outcome |-> Stay, events |-> <<>>, resolve |-> <<>>]
      ELSE IF accepts THEN [outcome |-> outcome, events |-> <<Event("recall_issued")>>, resolve |-> <<>>]
      ELSE [outcome |-> [Stay EXCEPT !.trigger = "work_side_refusal"],
            events |-> <<Event("recall_refused")>>, resolve |-> <<missionLeft>>]
=============================================================================
