--------------------------- MODULE ForwardProposer --------------------------
(***************************************************************************)
(* propose() of proposer/forward_proposer.py from the frame to its rows:   *)
(* translate, choose the batch, run the passes, write one row per vehicle. *)
(* It writes nothing itself: fire() sends its rows to the door.            *)
(***************************************************************************)
EXTENDS DecisionFrame, ForwardChain

VARIABLES frame,       \* the decision frame
          classTable,  \* class code -> what the class declares
          options,     \* what the caller asked for
          rows         \* the rows so far: abstentions, deferrals, then the plan's
proposerVars == <<frame, classTable, options, rows>>
vars == <<chainVars, proposerVars>>

---------------------------------------------------------------------------
(* The batch: the first maxAssets of the kernel's queue where the caller   *)
(* has it, of the most urgent where not; a vehicle the queue does not name *)
(* is deferred in any case.  options.priority is <<>> when there is none.  *)
Queued(a) == options.priority = <<>> \/ a.aid \in Elements(options.priority)
PlaceInQueue(a) == CHOOSE i \in DOMAIN options.priority : options.priority[i] = a.aid
Precedes(a, b) ==
  IF options.priority # <<>> THEN PlaceInQueue(a) < PlaceInQueue(b)
  ELSE \/ a.ready < b.ready
       \/ a.ready = b.ready /\ a.soc < b.soc
       \/ a.ready = b.ready /\ a.soc = b.soc /\ a.aid < b.aid
InBatch(assets, a) ==
  /\ Queued(a)
  /\ \/ options.maxAssets = -1
     \/ Cardinality({b \in Elements(assets) : Queued(b) /\ Precedes(b, a)}) < options.maxAssets
DeferredInQueue(assets) ==
  {AbstainRow(a.aid, "outside batch") : a \in {b \in Elements(assets) : Queued(b) /\ ~InBatch(assets, b)}}
Deferred(assets) ==
  {AbstainRow(a.aid, IF Queued(a) THEN "outside batch" ELSE "not in queue") :
     a \in {b \in Elements(assets) : ~InBatch(assets, b)}}

(* hour_of_day chooses the regime's chain; without it the two-pass solve.  *)
RuleOf ==
  [modes |-> IF options.regime = <<>> THEN <<"min_tardy", "min_peak">> ELSE options.regime,
   holdsServed |-> options.regime # <<>>, allowRejection |-> options.allowRejection,
   wall |-> options.wall, slack |-> options.slack]

Translate ==
  /\ stage = "frame"
  /\ UNCHANGED <<frame, classTable, options, plan, optima, floor, passes>>
  /\ IF Refusal(frame, classTable, options) # "none"
     THEN stage' = "refused" /\ UNCHANGED <<sc, rule, rows>>
     ELSE LET whole == Scenario(frame, classTable, options)
              batch == At(whole.assets, {i \in DOMAIN whole.assets : InBatch(whole.assets, whole.assets[i])})
          IN /\ sc' = [whole EXCEPT !.assets = batch]
             /\ rule' = RuleOf
             /\ rows' = Abstentions(frame, classTable, options) \cup Deferred(whole.assets)
             /\ stage' = IF batch = <<>> THEN "answered" ELSE "solving"

Solve == Pass /\ UNCHANGED proposerVars

(* One row per asset of the plan: its charge, or why it has none.          *)
PeakOf(segs) == Max({segs[k].kw : k \in DOMAIN segs})
ChargeRow(asset, it) ==
  LET point == PointOf(sc, it.point)
  IN [vehicle |-> it.aid, abstain |-> FALSE, why |-> Absent, stall |-> it.point,
      stallType |-> point.stallType, from |-> it.start, upto |-> it.chargeEnd,
      kw |-> PeakOf(ChargeSegments(sc, asset, point.kw))]
NoChargeWhy(it) == IF it.served THEN "no charge operation" ELSE "no capacity"
PlanRow(asset, it) ==
  IF it.point = NoPoint THEN AbstainRow(it.aid, NoChargeWhy(it)) ELSE ChargeRow(asset, it)

Ship ==
  /\ stage = "solved"
  /\ IF Honours
     THEN /\ rows' = rows \cup {PlanRow(sc.assets[i], plan[i]) : i \in DOMAIN plan}
          /\ stage' = "answered"
     ELSE stage' = "chain error" /\ UNCHANGED rows
  /\ UNCHANGED <<sc, rule, plan, optima, floor, passes, frame, classTable, options>>

ProposerNext == Translate \/ Solve \/ Ship

---------------------------------------------------------------------------
Answered == stage = "answered"

(* What a row offers can be taken where the frame says it is: the stall is *)
(* one both layers accept, the vehicle's plug fits it, neither is asked    *)
(* for more power than it has, the rows on one DCFC are apart by the       *)
(* site's cooldown and on any other do not meet.                           *)
OfferedIsTakeable ==
  Answered =>
    LET offers == {r \in rows : ~r.abstain}
        stall(r) == CHOOSE st \in Elements(frame.stalls) : st.id = r.stall
        vehicle(r) == CHOOSE v \in Elements(frame.vehicles) : v.id = r.vehicle
        gap(st) == IF st.type = "dcfc" THEN options.site.dcfcCooldown ELSE 0
    IN /\ \A r \in offers :
            /\ StallIsFree(stall(r)) /\ r.stallType = stall(r).type
            /\ \/ vehicle(r).inlet = stall(r).connector
               \/ stall(r).connector = "MULTI" /\ vehicle(r).inlet \in stall(r).supported
            /\ r.kw <= stall(r).kw
            /\ vehicle(r).inletMaxKw # -1 => r.kw <= vehicle(r).inletMaxKw
            /\ 0 <= r.from /\ r.from < r.upto /\ r.upto <= options.horizon
       /\ \A r, q \in offers :
            r # q /\ r.stall = q.stall =>
              r.upto + gap(stall(r)) <= q.from \/ q.upto + gap(stall(q)) <= r.from

(* A pass never gives up what an earlier one reached, so the plan that     *)
(* ships honours every ceiling and no car the regime's first pass served   *)
(* is stranded by a later one (ChainError, the served floor of L-20).      *)
NothingHeldIsLost ==
  /\ stage # "chain error"
  /\ plan # <<>> => floor \subseteq ServedIn(plan)

(* A record that says "complete" is the best plan there is: among all the  *)
(* plans serving whom it serves, none is better on the first figure of the *)
(* regime on which the two differ.                                         *)
Figure(mode, p) == Reached(mode, p)
BetterPlan(p, q) ==
  \E i \in DOMAIN rule.modes :
    /\ Figure(rule.modes[i], p) < Figure(rule.modes[i], q)
    /\ \A j \in 1 .. i - 1 : Figure(rule.modes[j], p) = Figure(rule.modes[j], q)
CompleteIsBest ==
  Answered /\ plan # <<>> /\ IsComplete =>
    LET alike == {p \in Plans(sc, [FreshCall(rule.allowRejection, 0) EXCEPT !.requireServed = ServedIn(plan)]) :
                    TRUE}
    IN \A p \in alike : ~BetterPlan(p, plan)

---------------------------------------------------------------------------
(* fire() of bridge/proposer_bridge.py around one propose(): which rows    *)
(* reach the door, the record of the fire, and the statements both become. *)
(* A frame nothing can be proposed on is an empty fire; so is one the      *)
(* solver declines, and one whose chain broke: each raises RuntimeError.   *)
Unproposed == {"refused", "no schedule", "chain error"}
Fired == frame # <<>> /\ stage \in Unproposed \cup {"answered"}

(* The plan is a schedule, the door takes this tick's assignments: a later *)
(* one abstains, and keeps its planned start.                              *)
IsDueNow(r) == r.abstain \/ r.from <= options.startWithin
NotDueRow(r) == [AbstainRow(r.vehicle, "not due") EXCEPT !.from = r.from, !.upto = r.upto]
OnlyDueNow == {IF IsDueNow(r) THEN r ELSE NotDueRow(r) : r \in rows}
NotDueRows == {r \in rows : ~IsDueNow(r)}

SolverRecord ==
  [tardy |-> TotalTardy(plan), peak |-> PeakKw(sc, plan), flow |-> TotalFlow(plan), reached |-> optima,
   retained |-> IsRetained, complete |-> IsComplete, reproducible |-> IsReproducible, rejected |-> RejectedIn(plan)]
CountsOf(result, sent) ==
  [status |-> IF sent = {} THEN "empty" ELSE "proposed",
   planned |-> Cardinality({r \in result : ~r.abstain}) - Cardinality(NotDueRows),
   abstained |-> Cardinality({r \in result : r.abstain}) + Cardinality(NotDueRows),
   deferred |-> Cardinality({r \in result : r.why \in {"outside batch", "not in queue"}}),
   notDue |-> Cardinality(NotDueRows), error |-> FALSE,
   solver |-> IF plan = <<>> THEN <<>> ELSE SolverRecord]
NothingSaid ==
  [status |-> "empty", planned |-> 0, abstained |-> 0, deferred |-> 0, notDue |-> 0, error |-> TRUE, solver |-> <<>>]
SeenIn(given, states) ==
  LET blocked == StallsBlocked(given)
  IN  [chargeStalls |-> Len(ChargeStalls(given)), blocked |-> blocked,
       busy |-> MapThenSumSet(LAMBDA why : blocked[why], DOMAIN blocked), held |-> VehiclesHeld(given, states)]
Merged(said, seen) ==
  [key \in DOMAIN said \cup DOMAIN seen |-> IF key \in DOMAIN said THEN said[key] ELSE seen[key]]
FireResult ==
  LET sent == IF stage = "answered" THEN OnlyDueNow ELSE {}
  IN  [rows |-> sent,
       record |-> Merged(IF stage = "answered" THEN CountsOf(rows, sent) ELSE NothingSaid,
                         SeenIn(frame, options.states))]

---------------------------------------------------------------------------
(* One call for the batch, whatever it holds, or one for each row: by the  *)
(* door an empty fire leaves no trace.                                     *)
DoorCallSql(row) == [to |-> "door", rows |-> {row}]
BatchCallSql(result) == [to |-> "batch", rows |-> result.rows]
EmitSql(result, via) == IF via = "batch" THEN {BatchCallSql(result)} ELSE {DoorCallSql(r) : r \in result.rows}

---------------------------------------------------------------------------
(* bridge/proposer_bridge.py, fire: every vehicle the frame offers is in   *)
(* one row that reaches the door, planned, declined, put off or not due; a *)
(* vehicle that has a place is in none and in the count of those held; who *)
(* is put off is put off for a reason that is true of it; and the numbers  *)
(* published of the fire are those of the rows and of the stalls.          *)
EveryVehicleIsAccounted ==
  Fired =>
    LET fired == FireResult
        record == fired.record
        Named(v) == {r \in fired.rows : r.vehicle = v.id}
        vehicles == Elements(frame.vehicles)
        Unplaced(v) == IsServiceable(v, options.states) /\ ~VehicleIsHeld(v)
        free == {st \in Elements(ChargeStalls(frame)) : StallIsFree(st)}
        calls == EmitSql(fired, "door")
    IN  /\ \A v \in vehicles : Cardinality(Named(v)) = IF Unplaced(v) /\ ~record.error THEN 1 ELSE 0
        /\ record.planned + record.abstained = Cardinality(fired.rows)
        /\ ~record.error => record.planned + record.abstained + record.held
                              = Cardinality({v \in vehicles : IsServiceable(v, options.states)})
        /\ record.busy + Cardinality(free) = record.chargeStalls
        /\ \A r \in fired.rows :
             CASE ~r.abstain -> r.from <= options.startWithin /\ \E st \in free : st.id = r.stall
               [] r.why = "not due" -> options.startWithin < r.from /\ r.vehicle \in ServedIn(plan)
               [] r.why = "no capacity" -> r.vehicle \in record.solver.rejected
               [] r.why = "outside batch" -> options.maxAssets # -1 /\ Len(sc.assets) = options.maxAssets
               [] r.why = "not in queue" -> r.vehicle \notin Elements(options.priority)
               [] OTHER -> TRUE
        /\ \A call \in calls : Cardinality(call.rows) = 1
        /\ UNION {call.rows : call \in calls} = UNION {call.rows : call \in EmitSql(fired, "batch")}
=============================================================================
