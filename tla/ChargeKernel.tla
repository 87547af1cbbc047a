---------------------------- MODULE ChargeKernel ----------------------------
(***************************************************************************)
(* The charging model of solvers/cpsat/model.py: what a plan may be under  *)
(* the constraints build_and_solve states, what each objective mode makes  *)
(* of it, and what a solve within a budget can hand back.                  *)
(*                                                                         *)
(* The search itself is not modelled: a solve that proves optimality       *)
(* returns SOME plan of least objective, one that the budget stops returns *)
(* ANY plan of the model, or none.  A plan is a sequence with one          *)
(* itinerary per asset of the scenario, in the scenario's order.           *)
(***************************************************************************)
EXTENDS Integers, Sequences, FiniteSets, FiniteSetsExt, Functions

Least(a, b) == IF a < b THEN a ELSE b
Most(a, b) == IF a > b THEN a ELSE b
CeilDiv(a, b) == (a + b - 1) \div b

(* What an itinerary carries where there is no bay, and no charge point.   *)
NoBay == [point |-> "none", start |-> -1, move |-> -1]
NoPoint == "none"

---------------------------------------------------------------------------
(* The charge from soc to target, split where the class's acceptance curve *)
(* breaks, by the stretch of the curve; accept is a percentage, and a cold *)
(* pack lengthens the first.                                               *)
ChargeSegments(sc, asset, pointKw) ==
  LET cls == sc.classes[asset.cls]
      curve == cls.curve
      From(i) == IF i = 1 THEN asset.soc ELSE Most(asset.soc, curve[i].above)
      Upto(i) == Least(asset.target, IF i = Len(curve) THEN 100 ELSE curve[i + 1].above)
      Kw(i) == Most(1, (Least(pointKw, cls.maxKw) * curve[i].accept) \div 100)
      Minutes(i) == Most(1, CeilDiv(60 * cls.kwh * (Upto(i) - From(i)), 100 * Kw(i)))
      steps == {i \in 1 .. Len(curve) : Upto(i) > From(i)}
      cold(i) == IF asset.cold /\ i = Min(steps) THEN sc.site.coldPenalty ELSE 0
  IN [i \in steps |-> [kw |-> Kw(i), minutes |-> Minutes(i) + cold(i)]]

MinutesOf(segs) == [k \in DOMAIN segs |-> segs[k].minutes]
MinutesBefore(segs, k) == SumFunctionOnSet(MinutesOf(segs), {j \in DOMAIN segs : j < k})
ChainMinutes(segs) == SumFunction(MinutesOf(segs))

PointOf(sc, id) == CHOOSE p \in {sc.points[i] : i \in DOMAIN sc.points} : p.id = id
PointsOfKind(sc, kinds) == {p \in {sc.points[i] : i \in DOMAIN sc.points} : p.kind \in kinds}

(* The work of an earlier plan that had started by tNow: the model pins it.*)
PinnedWork(asset, plan, tNow) ==
  LET it == plan[CHOOSE i \in DOMAIN plan : plan[i].aid = asset.aid]
  IN (IF it.point # NoPoint /\ it.start < tNow THEN {"charge"} ELSE {})
     \cup (IF it.wash # NoBay /\ it.wash.start < tNow THEN {"wash"} ELSE {})
     \cup (IF it.inspect # NoBay /\ it.inspect.start < tNow THEN {"inspect"} ELSE {})
Pinned(call, asset) ==
  IF call.previous = <<>> THEN {} ELSE PinnedWork(asset, call.previous, call.tNow)
PreviousOf(call, asset) ==
  call.previous[CHOOSE i \in DOMAIN call.previous : call.previous[i].aid = asset.aid]

(* A blocked point takes no new work; work already pinned may stay.        *)
Usable(call, asset, op, candidates) ==
  {p \in candidates : p.id \notin call.blocked \/ op \in Pinned(call, asset)}
ChargeCandidates(sc, call, asset) ==
  {p \in Usable(call, asset, "charge", PointsOfKind(sc, sc.classes[asset.cls].kinds)) :
     ChargeSegments(sc, asset, p.kw) # <<>>}

(* The parallel operations of an asset: any serial order after the start   *)
(* of the stay, possibly outlasting the charge.                            *)
ParallelTimes(sc, asset, from) ==
  LET dur(op) == sc.menu[op]
  IN {t \in [asset.parallel -> from .. sc.horizon] :
        /\ \A op \in asset.parallel : t[op] + dur(op) <= sc.horizon
        /\ \A a, b \in asset.parallel :
             a # b => (t[a] + dur(a) <= t[b] \/ t[b] + dur(b) <= t[a])}
StayEnd(sc, asset, chargeEnd, times) ==
  Max({chargeEnd} \cup {times[op] + sc.menu[op] : op \in asset.parallel})

(* A bay visit: the move to it, then the service, at a usable bay.         *)
BayVisits(sc, call, asset, op, kind, minutes, after) ==
  LET moved == after .. (sc.horizon - sc.site.moveMin)
  IN {b \in [point : {p.id : p \in Usable(call, asset, op, PointsOfKind(sc, {kind}))},
             start : 0 .. (sc.horizon - minutes), move : moved] :
        b.start >= b.move + sc.site.moveMin}
WashVisitsUnpinned(sc, call, asset, after) ==
  IF ~asset.needsWash THEN {NoBay}
  ELSE BayVisits(sc, call, asset, "wash", "wash_bay", sc.site.washMin, after)
WashVisits(sc, call, asset, after) ==
  IF ~asset.needsWash THEN {NoBay}
  ELSE LET free == BayVisits(sc, call, asset, "wash", "wash_bay", sc.site.washMin, after)
       IN IF "wash" \notin Pinned(call, asset) THEN free
          ELSE LET was == PreviousOf(call, asset).wash
               IN {b \in free : b.start = was.start /\ b.point = was.point}
InspectVisitsAnywhere(sc, call, asset, after) ==
  IF ~asset.needsInspect THEN {NoBay}
  ELSE BayVisits(sc, [call EXCEPT !.blocked = {}], asset, "inspect", "service_bay", sc.site.inspectMin, after)
InspectVisits(sc, call, asset, after) ==
  IF ~asset.needsInspect THEN {NoBay}
  ELSE BayVisits(sc, call, asset, "inspect", "service_bay", sc.site.inspectMin, after)

(* Where and when an asset that needs a charge may take it; a pinned one   *)
(* stays where it was.                                                     *)
ChargePlaces(sc, call, asset) ==
  LET free == {[point |-> p.id, start |-> s, minutes |-> ChainMinutes(ChargeSegments(sc, asset, p.kw))]
                 : p \in ChargeCandidates(sc, call, asset), s \in asset.arrival .. sc.horizon}
      fits == {c \in free : c.start + c.minutes <= sc.horizon}
  IN IF "charge" \notin Pinned(call, asset) THEN fits
     ELSE LET was == PreviousOf(call, asset)
          IN {c \in fits : c.point = was.point /\ c.start = was.start}
NeedsCharge(sc, call, asset) == ChargeCandidates(sc, call, asset) # {}

(* Tardiness is a variable bounded below only, so a solve that does not    *)
(* minimise it may report up to call.slack more than the lateness.         *)
ServedItineraries(sc, call, asset) ==
  LET places == IF NeedsCharge(sc, call, asset) THEN ChargePlaces(sc, call, asset)
                ELSE {[point |-> NoPoint, start |-> asset.arrival, minutes |-> 0]}
      Stays(c) == {[stay |-> StayEnd(sc, asset, c.start + c.minutes, t), times |-> t] :
                     t \in ParallelTimes(sc, asset, c.start)}
      Finished(s, w, i) == Max({s.stay}
                               \cup (IF w = NoBay THEN {} ELSE {w.start + sc.site.washMin})
                               \cup (IF i = NoBay THEN {} ELSE {i.start + sc.site.inspectMin}))
      AfterWash(s, w) == IF w = NoBay THEN s.stay ELSE w.start + sc.site.washMin
      Late(f) == Most(0, f - asset.ready)
  IN UNION {UNION {UNION {UNION {
       {[aid |-> asset.aid, served |-> TRUE, point |-> c.point, start |-> c.start,
         chargeEnd |-> c.start + c.minutes, stayEnd |-> s.stay, parallel |-> s.times,
         wash |-> w, inspect |-> i, finish |-> Finished(s, w, i), tardy |-> late]
         : late \in Late(Finished(s, w, i)) ..
                    Least(sc.horizon, Late(Finished(s, w, i)) + call.slack)}
       : i \in InspectVisits(sc, call, asset, AfterWash(s, w))}
       : w \in WashVisits(sc, call, asset, s.stay)}
       : s \in Stays(c)}
       : c \in places}

(* A rejected asset takes nothing, yet its parallel work must still fit    *)
(* the horizon: those intervals are not optional.  Pinned work forbids it. *)
Declined(asset) ==
  [aid |-> asset.aid, served |-> FALSE, point |-> NoPoint, start |-> -1, chargeEnd |-> -1,
   stayEnd |-> -1, parallel |-> <<>>, wash |-> NoBay, inspect |-> NoBay, finish |-> 0, tardy |-> 0]
Itineraries(sc, call, asset) ==
  ServedItineraries(sc, call, asset)
  \cup (IF /\ call.allowRejection
           /\ NeedsCharge(sc, call, asset)
           /\ Pinned(call, asset) \cap {"charge", "wash"} = {}
           /\ asset.aid \notin call.requireServed
           /\ ParallelTimes(sc, asset, asset.arrival) # {}
        THEN {Declined(asset)} ELSE {})

---------------------------------------------------------------------------
(* The shared resources: a point, the yard path, the site's power.         *)
Overlap(a, b) == a.from < b.upto /\ b.from < a.upto
Occupied(sc, it) ==
  (IF it.point = NoPoint THEN {}
   ELSE {[at |-> it.point, from |-> it.start, upto |-> it.stayEnd + PointOf(sc, it.point).gap]})
  \cup (IF it.wash = NoBay THEN {}
        ELSE {[at |-> it.wash.point, from |-> it.wash.start,
               upto |-> it.wash.start + sc.site.washMin + PointOf(sc, it.wash.point).gap]})
  \cup (IF it.inspect = NoBay THEN {}
        ELSE {[at |-> it.inspect.point, from |-> it.inspect.start,
               upto |-> it.inspect.start + sc.site.inspectMin + PointOf(sc, it.inspect.point).gap]})
OneAssetPerPoint(sc, plan) ==
  \A i, j \in DOMAIN plan : i < j =>
    \A a \in Occupied(sc, plan[i]), b \in Occupied(sc, plan[j]) : a.at # b.at \/ ~Overlap(a, b)

KwOf(sc, asset, it, t) ==
  IF it.point = NoPoint \/ t < it.start \/ t >= it.chargeEnd THEN 0
  ELSE LET segs == ChargeSegments(sc, asset, PointOf(sc, it.point).kw)
           IsOn(k) == /\ it.start + MinutesBefore(segs, k) <= t
                      /\ t < it.start + MinutesBefore(segs, k + 1)
       IN SumFunctionOnSet([k \in DOMAIN segs |-> segs[k].kw], {k \in DOMAIN segs : IsOn(k)})
SiteKw(sc, plan, t) == SumFunction([i \in DOMAIN plan |-> KwOf(sc, sc.assets[i], plan[i], t)])
PeakKw(sc, plan) == Max({0} \cup {SiteKw(sc, plan, t) : t \in 0 .. sc.horizon - 1})

MovesAt(sc, it, t) ==
  Cardinality({b \in {"wash", "inspect"} : it[b] # NoBay /\ it[b].move <= t /\ t < it[b].move + sc.site.moveMin})
PathHolds(sc, plan) ==
  \A t \in 0 .. sc.horizon - 1 :
    MapThenSumSet(LAMBDA i : MovesAt(sc, plan[i], t), DOMAIN plan) <= sc.site.pathCapacity

ItinerariesUpto(sc, call) ==
  LET joint[n \in 0 .. Len(sc.assets)] ==
        IF n = 0 THEN {<<>>}
        ELSE LET before == joint[n - 1]
             IN {plan \in {Append(p, it) : p \in before, it \in Itineraries(sc, call, sc.assets[n])} :
                   OneAssetPerPoint(sc, plan)}
  IN joint[Len(sc.assets)]
Plans(sc, call) ==
  {plan \in ItinerariesUpto(sc, call) : PathHolds(sc, plan) /\ PeakKw(sc, plan) <= sc.site.powerCap}

---------------------------------------------------------------------------
(* The figures the passes trade, all over the assets that are served.      *)
TotalTardy(plan) == SumFunction([i \in DOMAIN plan |-> plan[i].tardy])
TotalFlow(plan) == SumFunction([i \in DOMAIN plan |-> plan[i].finish])
ServedIn(plan) == {plan[i].aid : i \in {j \in DOMAIN plan : plan[j].served}}
RejectedIn(plan) == {plan[i].aid : i \in {j \in DOMAIN plan : ~plan[j].served}}

(* The most one rejection could save; a price that does not exceed it is   *)
(* refused before anything is built.                                       *)
OnPeakMinutes(sc, from, upto) ==
  LET lo == Most(0, Least(sc.site.onPeakFrom, sc.horizon))
      hi == Most(0, Least(sc.site.onPeakUpto, sc.horizon))
  IN Most(0, Least(upto, hi) - Most(from, lo))
RejectionSavingCeiling(sc, mode) ==
  IF mode = "min_tardy" \/ mode = "min_flow" THEN sc.horizon
  ELSE IF mode = "min_peak" THEN sc.site.powerCap
  ELSE LET maxKw == Max({0} \cup {sc.points[i].kw : i \in DOMAIN sc.points})
       IN sc.weights.tardiness * sc.horizon
          + sc.weights.onPeakKwMin * maxKw * OnPeakMinutes(sc, 0, sc.horizon)
          + sc.weights.peakExcess * maxKw + sc.weights.move * 2
PriceIsRefused(sc, call, mode) ==
  call.allowRejection /\ sc.weights.rejection <= RejectionSavingCeiling(sc, mode)

OnPeakKwMin(sc, plan) ==
  LET window == {t \in 0 .. sc.horizon - 1 : OnPeakMinutes(sc, t, t + 1) = 1}
  IN MapThenSumSet(LAMBDA t : SiteKw(sc, plan, t), window)
MovesOf(plan) ==
  Cardinality({m \in (DOMAIN plan) \X {"wash", "inspect"} : plan[m[1]][m[2]] # NoBay})
Churned(sc, call, plan) ==
  IF ~call.priceChurn \/ call.previous = <<>> THEN 0
  ELSE Cardinality({i \in DOMAIN plan : \E j \in DOMAIN call.previous :
                      /\ call.previous[j].aid = plan[i].aid
                      /\ \E p \in ChargeCandidates(sc, call, sc.assets[i]) : p.id = call.previous[j].point
                      /\ ~(call.previous[j].start < call.tNow)
                      /\ plan[i].point # call.previous[j].point})
SidePrice(sc, call, plan) ==
  sc.weights.rejection * Cardinality(RejectedIn(plan)) + sc.weights.churn * Churned(sc, call, plan)
Objective(sc, call, mode, plan) ==
  (CASE mode = "min_tardy" -> TotalTardy(plan)
     [] mode = "min_peak" -> PeakKw(sc, plan)
     [] mode = "min_flow" -> TotalFlow(plan)
     [] OTHER -> sc.weights.tardiness * TotalTardy(plan)
                 + sc.weights.peakExcess * Most(0, PeakKw(sc, plan) - sc.site.softTarget)
                 + sc.weights.onPeakKwMin * OnPeakKwMin(sc, plan)
                 + sc.weights.move * MovesOf(plan))
  + SidePrice(sc, call, plan)

(* A ceiling of -1 is one the call does not state.                         *)
Within(value, ceiling) == ceiling = -1 \/ value <= ceiling
Meets(sc, call, mode, plan) ==
  CASE mode = "min_peak" -> Within(TotalTardy(plan), call.maxTardy) /\ Within(TotalFlow(plan), call.maxFlow)
    [] mode = "min_flow" -> Within(TotalTardy(plan), call.maxTardy) /\ Within(PeakKw(sc, plan), call.maxPeak)
    [] OTHER -> TRUE

(* What the solver may answer: a plan with its status, or a status alone.  *)
Answers(sc, call, mode) ==
  LET within == {p \in Plans(sc, call) : Meets(sc, call, mode, p)}
      price == [p \in within |-> Objective(sc, call, mode, p)]
      lowest == Min({price[p] : p \in within})
  IN {[status |-> "FEASIBLE", plan |-> p] : p \in within}
     \cup {[status |-> "OPTIMAL", plan |-> p] : p \in {q \in within : price[q] = lowest}}
     \cup {[status |-> "UNKNOWN", plan |-> <<>>]}
     \cup (IF within = {} THEN {[status |-> "INFEASIBLE", plan |-> <<>>]} ELSE {})

(* A call with nothing carried over from an earlier plan or pass.          *)
FreshCall(allowRejection, slack) ==
  [allowRejection |-> allowRejection, slack |-> slack, previous |-> <<>>, tNow |-> 0, blocked |-> {},
   priceChurn |-> TRUE, requireServed |-> {}, maxTardy |-> -1, maxPeak |-> -1, maxFlow |-> -1]
=============================================================================
