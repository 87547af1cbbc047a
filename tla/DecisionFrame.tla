---------------------------- MODULE DecisionFrame ---------------------------
(***************************************************************************)
(* proposer/forward_proposer.py, first half: how a decision frame of the   *)
(* database becomes a scenario the charging model can solve, and which     *)
(* vehicles are answered without being planned; with the class table of    *)
(* proposer/class_table.py.                                                *)
(*                                                                         *)
(* States of charge and targets are in tenths of a percent; a value the    *)
(* frame does not carry is -1 for a number and Absent for a word, and so   *)
(* is an inlet's limit of zero, which the code reads as no limit.          *)
(***************************************************************************)
EXTENDS ChargeKernel, SequencesExt

Absent == "absent"
Elements(seq) == {seq[i] : i \in DOMAIN seq}

(* What a sequence holds at the given places, in its order.                *)
At(seq, places) ==
  [k \in 1 .. Cardinality(places) |-> seq[CHOOSE i \in places : Cardinality({j \in places : j < i}) = k - 1]]

---------------------------------------------------------------------------
(* Stalls.                                                                 *)
StallIsFree(st) ==
  /\ st.status \in {Absent, "available"}
  /\ IF st.hasFacts THEN st.offerable ELSE st.vehicle = Absent
StallBlockReason(st) ==
  CASE StallIsFree(st) -> "free"
    [] st.vehicle # Absent -> "occupied"
    [] st.status \notin {Absent, "available"} -> "status"
    [] ~st.hasFacts -> "not_free"
    [] st.charger = Absent -> "no_charger"
    [] st.chargerState \notin {Absent, "Available"} -> "charger"
    [] ~st.chargerFresh -> "charger_stale"
    [] st.reservationLive -> "reserved"
    [] st.calendarHeldBy # Absent -> "calendar_held"
    [] OTHER -> "not_offerable"

IsChargeStall(st) == st.type # "staging" /\ st.kw > 0
ChargeStalls(frame) == At(frame.stalls, {i \in DOMAIN frame.stalls : IsChargeStall(frame.stalls[i])})
StallsBlocked(frame) ==
  LET blocked == {st \in Elements(ChargeStalls(frame)) : ~StallIsFree(st)}
  IN [why \in {StallBlockReason(st) : st \in blocked} |->
        Cardinality({st \in blocked : StallBlockReason(st) = why})]

(* Plugs: a Multi stall accepts the list it declares, any other exactly    *)
(* its own connector, and a stall that says nothing accepts nobody.        *)
AcceptedInlets(st) ==
  IF st.connector = Absent THEN {}
  ELSE IF st.connector = "MULTI" THEN st.supported \ {Absent} ELSE {st.connector}

(* The kernel knows one word per point: the kind with the plugs folded in. *)
Capability(kind, inlets) == <<kind, inlets>>
PointByLabel(st, site) ==
  [id |-> st.id, kind |-> Capability(st.type, AcceptedInlets(st)), kw |-> st.kw,
   gap |-> IF Capability(st.type, AcceptedInlets(st)) = <<"dcfc">> THEN site.dcfcCooldown ELSE 0,
   stallType |-> st.type]
Point(st, site) ==
  [id |-> st.id, kind |-> Capability(st.type, AcceptedInlets(st)), kw |-> st.kw,
   gap |-> IF st.type = "dcfc" THEN site.dcfcCooldown ELSE 0, stallType |-> st.type]
Points(frame, site) ==
  LET IsUsable(st) == IsChargeStall(st) /\ StallIsFree(st) /\ AcceptedInlets(st) # {}
      usable == At(frame.stalls, {i \in DOMAIN frame.stalls : IsUsable(frame.stalls[i])})
  IN [i \in DOMAIN usable |-> Point(usable[i], site)]

---------------------------------------------------------------------------
(* Vehicles.                                                               *)
ServiceableStates == {"arrived_at_gate", "staged_awaiting_service", "charging_dcfc", "charging_l2"}
ResolvedTarget(v) == IF v.target = -1 THEN 1000 ELSE v.target
IsServiceable(v, states) ==
  v.state \in states /\ (v.soc = -1 \/ v.soc < ResolvedTarget(v))

(* A key the frame does not carry answers nothing; the charge-place key,   *)
(* where there is one, answers for both older ones.                        *)
HasLiveProposal(v) == v.liveProposal = "yes"
VehicleIsHeld(v) ==
  \/ HasLiveProposal(v)
  \/ v.overstays = "yes"
  \/ IF v.holdsChargePlace # Absent THEN v.holdsChargePlace = "yes"
     ELSE v.reservedStall # Absent \/ v.liveBooking = "yes"
IsPlannable(v, states) == IsServiceable(v, states) /\ ~VehicleIsHeld(v)
VehiclesHeld(frame, states) ==
  Cardinality({v \in Elements(frame.vehicles) : IsServiceable(v, states) /\ VehicleIsHeld(v)})

(* Python's round: to the nearest whole percent, a half to the even one.   *)
Rounded(tenths) ==
  LET down == tenths \div 10
      rest == tenths % 10
  IN IF rest > 5 \/ (rest = 5 /\ down % 2 = 1) THEN down + 1 ELSE down

CapableOf(v, cls, points) == {p.kind : p \in {q \in Elements(points) :
  q.kind[1] \in cls.kinds /\ v.inlet \in q.kind[2]}}
AbstainReason(v, classTable, points) ==
  CASE v.soc = -1 -> "no soc"
    [] Rounded(ResolvedTarget(v)) <= Rounded(v.soc) -> "at target"
    [] v.class \notin DOMAIN classTable -> "no class"
    [] v.inlet = Absent -> "no inlet"
    [] CapableOf(v, classTable[v.class], points) = {} -> "no capable point"
    [] OTHER -> "none"

(* A class per vehicle's own facts: a derated inlet is not its make's.     *)
EffectiveKw(v, cls) == IF v.inletMaxKw = -1 THEN cls.maxKw ELSE Least(cls.maxKw, v.inletMaxKw)
UnitClass(v, classTable) == <<v.class, EffectiveKw(v, classTable[v.class]), v.inlet>>
SynthesizedClass(v, classTable, points) ==
  LET cls == classTable[v.class]
  IN [kwh |-> cls.kwh, maxKw |-> EffectiveKw(v, cls), curve |-> cls.curve,
      kinds |-> CapableOf(v, cls, points)]
Classes(vehicles, classTable, points) ==
  [name \in {UnitClass(vehicles[i], classTable) : i \in DOMAIN vehicles} |->
     LET first == vehicles[Min({i \in DOMAIN vehicles : UnitClass(vehicles[i], classTable) = name})]
     IN SynthesizedClass(first, classTable, points)]

ReadyBy(v, options) ==
  IF v.id \in DOMAIN options.readyBy THEN options.readyBy[v.id] ELSE options.defaultReady
Asset(v, classTable, options) ==
  [aid |-> v.id, cls |-> UnitClass(v, classTable), arrival |-> 0, soc |-> Rounded(v.soc),
   target |-> Rounded(ResolvedTarget(v)), ready |-> ReadyBy(v, options), cold |-> FALSE,
   needsWash |-> FALSE, needsInspect |-> FALSE, parallel |-> {}]

AbstainRow(id, why) == [vehicle |-> id, abstain |-> TRUE, why |-> why, stall |-> NoPoint,
                        stallType |-> Absent, from |-> -1, upto |-> -1, kw |-> -1]

(* frame_to_scenario refuses a frame with nothing to propose on, a DCFC    *)
(* point at a site without a cooldown, and a class without charge kinds.   *)
Refusal(frame, classTable, options) ==
  LET points == Points(frame, options.site)
      ReachesItsClass(v) == /\ v.soc # -1 /\ Rounded(ResolvedTarget(v)) > Rounded(v.soc)
                            /\ v.class \in DOMAIN classTable
  IN CASE \E p \in Elements(points) : p.stallType = "dcfc" /\ p.gap = -1 -> "no cooldown"
       [] points = <<>> /\ DOMAIN StallsBlocked(frame) # {} -> "nothing free"
       [] points = <<>> -> "no points"
       [] \E v \in Elements(frame.vehicles) : /\ IsPlannable(v, options.states)
                                              /\ ReachesItsClass(v)
                                              /\ classTable[v.class].kinds = {} -> "no charge kinds"
       [] OTHER -> "none"

Scenario(frame, classTable, options) ==
  LET points == Points(frame, options.site)
      IsPlanned(v) == IsPlannable(v, options.states) /\ AbstainReason(v, classTable, points) = "none"
      planned == At(frame.vehicles, {i \in DOMAIN frame.vehicles : IsPlanned(frame.vehicles[i])})
  IN [site |-> options.site, horizon |-> options.horizon, points |-> points,
      classes |-> Classes(planned, classTable, points),
      assets |-> [i \in DOMAIN planned |-> Asset(planned[i], classTable, options)],
      menu |-> <<>>,
      weights |-> [tardiness |-> 10, onPeakKwMin |-> 0, peakExcess |-> 0, move |-> 0,
                   churn |-> 0, rejection |-> 100000]]
Abstentions(frame, classTable, options) ==
  LET points == Points(frame, options.site)
      why(v) == AbstainReason(v, classTable, points)
  IN {AbstainRow(v.id, why(v)) :
        v \in {w \in Elements(frame.vehicles) : IsPlannable(w, options.states) /\ why(w) # "none"}}

---------------------------------------------------------------------------
(* The class table, from the rows of the database: any row that lacks a    *)
(* required column, repeats a code, names no kind of point or carries a    *)
(* number nobody can read refuses the whole table.                         *)
RowIsUsable(row) ==
  /\ row.code # Absent
  /\ row.kwh # -1 /\ row.maxKw # -1
  /\ row.kinds # {}
FlatCurve == <<[above |-> 0, accept |-> 100]>>
ClassTableIsUsable(rows) ==
  /\ \A i \in DOMAIN rows : RowIsUsable(rows[i])
  /\ \A i, j \in DOMAIN rows : i # j => rows[i].code # rows[j].code
ClassTableFromRows(rows) ==
  [code \in {rows[i].code : i \in DOMAIN rows} |->
     LET row == CHOOSE r \in Elements(rows) : r.code = code
     IN [kwh |-> row.kwh, maxKw |-> row.maxKw, kinds |-> row.kinds,
         curve |-> IF row.curve = <<>> THEN FlatCurve ELSE row.curve]]
=============================================================================
