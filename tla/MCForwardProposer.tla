-------------------------- MODULE MCForwardProposer -------------------------
(* Small yards: up to three stalls and three vehicles, a horizon of five   *)
(* time units, and the callers' options that change the course of a call.  *)
EXTENDS ForwardProposer, RollingPlan

Site == [powerCap |-> 120, softTarget |-> 150, dcfcCooldown |-> 1, coldPenalty |-> 1, pathCapacity |-> 1,
         moveMin |-> 1, washMin |-> 1, inspectMin |-> 1, onPeakFrom |-> 0, onPeakUpto |-> 0]

(* The selector's verdict, as the frame carries it: external.              *)
Offerable(st) ==
  /\ st.vehicle = Absent /\ st.charger # Absent /\ st.chargerState = "Available"
  /\ st.chargerFresh /\ ~st.reservationLive /\ st.calendarHeldBy = Absent
Verdict(st) == [st EXCEPT !.offerable = Offerable(st)]
Fast == Verdict([id |-> "S1", type |-> "dcfc", kw |-> 100, status |-> "available", vehicle |-> Absent,
  hasFacts |-> TRUE, offerable |-> TRUE, charger |-> "C1", chargerState |-> "Available", chargerFresh |-> TRUE,
  reservationLive |-> FALSE, calendarHeldBy |-> Absent, connector |-> "MULTI", supported |-> {"CCS1", "NACS"}])
Slow == [Fast EXCEPT !.id = "S2", !.type = "l2", !.kw = 50, !.connector = "CCS1", !.supported = {}]
Third == [Slow EXCEPT !.id = "S3", !.connector = "NACS"]
Spoiled == {Verdict([Third EXCEPT !.vehicle = "other"]), Verdict([Third EXCEPT !.status = "maintenance"]),
            Verdict([Third EXCEPT !.calendarHeldBy = "other"]), Verdict([Third EXCEPT !.chargerFresh = FALSE]),
            [Third EXCEPT !.connector = Absent], [Third EXCEPT !.type = "staging", !.kw = 0],
            [Third EXCEPT !.hasFacts = FALSE, !.vehicle = "other"]}

Vehicle(id, soc, inlet) ==
  [id |-> id, state |-> "arrived_at_gate", soc |-> soc, target |-> -1, class |-> "van", inlet |-> inlet,
   inletMaxKw |-> -1, liveProposal |-> Absent, overstays |-> Absent, holdsChargePlace |-> Absent,
   reservedStall |-> Absent, liveBooking |-> Absent]
V1 == Vehicle(1, 500, "CCS1")
V2 == Vehicle(2, 500, "NACS")
V3 == Vehicle(3, 750, "CCS1")
Odd == {[V3 EXCEPT !.soc = -1], [V3 EXCEPT !.soc = 895, !.target = 900], [V3 EXCEPT !.class = "unknown"],
        [V3 EXCEPT !.inlet = "PAD"], [V3 EXCEPT !.inletMaxKw = 50], [V3 EXCEPT !.state = "staged_for_departure"],
        [V3 EXCEPT !.holdsChargePlace = "no", !.overstays = "yes"],
        [V3 EXCEPT !.holdsChargePlace = "no", !.liveBooking = "yes"], [V3 EXCEPT !.liveProposal = "yes"]}
Frames ==
  {[stalls |-> <<Fast, Slow>>, vehicles |-> <<V1, V2>>]}
  \cup {[stalls |-> <<Fast>>, vehicles |-> <<V1, v>>] : v \in Odd \cup {V3}}
  \cup {[stalls |-> <<st>>, vehicles |-> <<V3>>] : st \in Spoiled}
  \cup {[stalls |-> <<st, Fast>>, vehicles |-> <<V2>>] : st \in Spoiled}
  \cup {[stalls |-> <<Fast, Slow>>, vehicles |-> <<V1, V2, V3>>]}
Regimes == {<<>>, <<"min_tardy", "min_flow", "min_peak">>, <<"min_tardy", "min_peak", "min_flow">>}
Option(regime, rejection, most, queue) ==
  [states |-> ServiceableStates, site |-> Site, horizon |-> 5, readyBy |-> [v \in {1} |-> 2], defaultReady |-> 3,
   allowRejection |-> rejection, maxAssets |-> most, priority |-> queue, regime |-> regime,
   wall |-> queue # <<>>, slack |-> IF rejection THEN 0 ELSE 1, startWithin |-> 1]
Options ==
  {Option(r, rej, -1, <<>>) : r \in Regimes, rej \in BOOLEAN}
  \cup {Option(<<>>, FALSE, 1, <<>>), Option(<<>>, FALSE, 1, <<2, 1>>), Option(<<>>, TRUE, -1, <<3>>)}

Row(code, kinds) == [code |-> code, kwh |-> 4, maxKw |-> 100, kinds |-> kinds,
                     curve |-> <<[above |-> 0, accept |-> 100], [above |-> 75, accept |-> 50]>>]
Tables == {<<Row("van", {"dcfc", "l2"}), Row("bus", {"dcfc"})>>, <<Row("van", {"l2"}), Row("van", {"dcfc"})>>,
           <<Row("van", {})>>}

(* The yard of the rolling re-solve: a charger, a wash bay, a service bay. *)
RollSite == [Site EXCEPT !.onPeakFrom = 2, !.onPeakUpto = 9]
Bay(id, kind, gap) == [id |-> id, kind |-> kind, kw |-> 0, gap |-> gap]
Car(id, wash, inspect, ops) ==
  [aid |-> id, cls |-> "van", arrival |-> 0, soc |-> 50, target |-> 100, ready |-> 3, cold |-> id = 1,
   needsWash |-> wash, needsInspect |-> inspect, parallel |-> ops]
RollYard(price) ==
  [site |-> RollSite, horizon |-> 6, menu |-> [tidy |-> 1],
   points |-> <<[id |-> "S1", kind |-> "dcfc", kw |-> 100, gap |-> 1], [id |-> "S2", kind |-> "l2", kw |-> 50, gap |-> 0],
                Bay("W1", "wash_bay", 1), Bay("B1", "service_bay", 0)>>,
   classes |-> [van |-> [kwh |-> 4, maxKw |-> 100, curve |-> FlatCurve, kinds |-> {"dcfc", "l2"}]],
   assets |-> <<Car(1, TRUE, FALSE, {}), Car(2, FALSE, TRUE, {"tidy"})>>,
   weights |-> [tardiness |-> 10, onPeakKwMin |-> 1, peakExcess |-> 1, move |-> 1, churn |-> 5, rejection |-> price]]

Init ==
  /\ \/ /\ frame \in Frames /\ options \in Options /\ stage = "frame" /\ sc = <<>>
        /\ \E given \in Tables : ClassTableIsUsable(given) /\ classTable = ClassTableFromRows(given)
     \/ /\ frame = <<>> /\ options = <<>> /\ classTable = <<>> /\ stage = "rolling"
        /\ sc \in {RollYard(100000), RollYard(50)}
  /\ rule = <<>> /\ plan = <<>> /\ optima = <<>> /\ floor = {} /\ passes = <<>> /\ rows = {}
  /\ clock = 0 /\ blocked = {}
Next ==
  \/ ProposerNext /\ UNCHANGED <<clock, blocked>>
  \/ RollingNext /\ UNCHANGED proposerVars
Spec == Init /\ [][Next]_<<vars, clock, blocked>>

(* A plan made again, after work began or after points went out of service, moves nothing that had *)
(* begun and sends nothing new to a point that is out.                                             *)
RePlanKeepsItsWord == StartedWorkStays /\ BlockedTakesNoNewWork
=============================================================================
