----------------------------- MODULE SiteAlpha ------------------------------
(***************************************************************************)
(* The shared site's harness (sites/site_alpha/harness_alpha.py): visits   *)
(* of several tenants drawn from one seeded stream, the failures it can    *)
(* inject, the world that books them on points with outages and closed     *)
(* paths, the four policies, and what a cell reports.                      *)
(*                                                                         *)
(* A yard is the charging model's site, classes (with swap, the minutes    *)
(* of a battery swap) and points (with classes, whom each serves), and     *)
(* [horizon, tenants, blocked, caps, closures, slots]: blocked gives a     *)
(* point's index its outage, caps are <<from, upto, kw>>, closures         *)
(* <<from, upto>>.  Indices stand for the order of the points' names.      *)
(***************************************************************************)
EXTENDS PolicyHarness

(* One draw per visit of every tenant, whether the configuration includes  *)
(* it or not: the stream is the same in all of them.                       *)
Drawn(yard, draws) ==
  LET whose == FlattenSeq([t \in DOMAIN yard.tenants |-> [n \in 1..yard.tenants[t].count |-> <<yard.tenants[t], n>>]])
  IN  [k \in DOMAIN whose |-> [tenant |-> whose[k][1], nth |-> whose[k][2], draw |-> draws[k]]]
VisitOf(yard, shift, d) ==
  LET arrival == d.tenant.from + d.draw.offset
  IN  [aid |-> <<d.tenant.name, d.nth>>, tenant |-> d.tenant.name, cls |-> d.tenant.cls,
       arrival |-> Least(yard.horizon - 60, arrival + shift[d.tenant.name]),
       soc |-> d.draw.soc, target |-> d.tenant.target,
       ready |-> arrival + d.draw.delta + shift[d.tenant.name], cold |-> d.draw.cold,
       refused |-> FALSE, extra |-> 0]
Included(visits, tenants) == SelectSeq(visits, LAMBDA v : v.tenant \in tenants)
GenerateVisits(yard, tenants, shift, draws) ==
  LET drawn == Drawn(yard, draws)
  IN  Included([k \in DOMAIN drawn |-> VisitOf(yard, shift, drawn[k])], tenants)

(* A failure changes the visits or the world; which visits it hits is a    *)
(* draw of the scenario's own stream.                                      *)
Delayed(yard, v, minutes) ==
  [v EXCEPT !.arrival = Least(yard.horizon - 60, @ + minutes), !.ready = @ + minutes]
ApplyScenario(yard, visits, scenario, hit) ==
  LET OnHit(Change(_)) == [k \in DOMAIN visits |-> IF k \in hit THEN Change(visits[k]) ELSE visits[k]]
      same == [visits |-> visits, yard |-> yard]
  IN  CASE scenario = "overstay" -> [same EXCEPT !.visits = OnHit(LAMBDA v : Delayed(yard, v, 45))]
        [] scenario = "work_side_recall_refusal" ->
             [same EXCEPT !.visits = OnHit(LAMBDA v : [Delayed(yard, v, 90) EXCEPT !.refused = TRUE])]
        [] scenario = "immobile_asset" -> [same EXCEPT !.visits = OnHit(LAMBDA v : [v EXCEPT !.extra = 120])]
        [] scenario = "blocked_point" -> [same EXCEPT !.yard.blocked = 1 :> <<0, yard.horizon>>]
        [] scenario = "mid_session_charger_fault" -> [same EXCEPT !.yard.blocked = 1 :> <<1100, yard.horizon>>]
        [] scenario = "swap_dock_jam" -> [same EXCEPT !.yard.blocked = 3 :> <<400, 700>>]
        [] scenario = "zone_power_loss" -> [same EXCEPT !.yard.caps = <<<<1050, 1230, 350>>>>]
        [] scenario = "human_path_crossing" -> [same EXCEPT !.yard.closures = <<<<1100, 1160>>>>]
        [] OTHER -> same

---------------------------------------------------------------------------
(* The world: a swap is a charge without power, an immobile asset holds    *)
(* its point, and a fast charger cools down.                               *)
VisitSegments(yard, v, i) ==
  IF yard.points[i].kind = "swap_dock" THEN <<[kw |-> 0, minutes |-> yard.classes[v.cls].swap]>>
  ELSE ChargeSegments(yard, v, yard.points[i].kw)
HoldMinutes(yard, v, i) == ChainMinutes(VisitSegments(yard, v, i)) + v.extra
Cooldown(yard, i) == IF yard.points[i].kind = "dcfc" THEN yard.site.dcfcCooldown ELSE 0
VisitPoints(yard, v) ==
  {i \in DOMAIN yard.points : /\ yard.points[i].kind \in yard.classes[v.cls].kinds
                              /\ v.cls \in yard.points[i].classes}
WindowOk(yard, i, start, end) ==
  i \in DOMAIN yard.blocked => start >= yard.blocked[i][2] \/ end <= yard.blocked[i][1]
MoveGate(yard, start) ==
  FoldLeft(LAMBDA s, c : IF s - yard.site.moveMin < c[2] /\ c[1] < s THEN c[2] + yard.site.moveMin ELSE s,
           start, yard.closures)
Earliest(yard, book, v, i) ==
  LET t == MoveGate(yard, Most(v.arrival, book.free[i]))
  IN  IF WindowOk(yard, i, t, t + HoldMinutes(yard, v, i)) THEN t ELSE MoveGate(yard, yard.blocked[i][2])

BookVisit(yard, book, v, i, start) ==
  LET end == start + HoldMinutes(yard, v, i)
  IN  [free |-> [book.free EXCEPT ![i] = end + Cooldown(yard, i)],
       taken |-> Append(book.taken, [asset |-> v, at |-> i, start |-> start, end |-> end]),
       clash |-> \/ book.clash
                 \/ start < book.free[i]
                 \/ ~WindowOk(yard, i, start, end)
                 \/ start # MoveGate(yard, start)]
BookVisits(yard, visits, Key(_, _, _)) ==
  FoldLeft(LAMBDA book, v : LET i == BestPoint(VisitPoints(yard, v), LAMBDA p : Key(book, v, p))
                            IN  BookVisit(yard, book, v, i, Earliest(yard, book, v, i)),
           EmptyBook(yard), visits)
PolicyFifo(yard, visits) == BookVisits(yard, visits, LAMBDA book, v, i : Earliest(yard, book, v, i))
PolicyGreedy(yard, visits) ==
  BookVisits(yard, visits, LAMBDA book, v, i : Earliest(yard, book, v, i) + HoldMinutes(yard, v, i))
(* The live cursor's order: by the hour, refused recalls first, then the   *)
(* lowest battery; the preferred kind only orders a list whose least by    *)
(* start and name is then taken.                                           *)
ByUrgency(v, w) ==
  \/ v.arrival \div 60 < w.arrival \div 60
  \/ /\ v.arrival \div 60 = w.arrival \div 60
     /\ \/ v.refused /\ ~w.refused
        \/ v.refused = w.refused /\ v.soc < w.soc
PolicyOttoQAsIs(yard, visits) == PolicyFifo(yard, SortSeq(visits, ByUrgency))

(* What the solver may answer: a point and a slot of five minutes for each *)
(* visit, durations rounded up to whole slots.                             *)
SlotMin == 5
WholeSlotsIn(minutes) == minutes \div SlotMin
SlotsOf(minutes) == CeilDiv(minutes, SlotMin)
IsPlaced(yard, v, task) ==
  /\ task.slot >= SlotsOf(v.arrival)
  /\ task.at \in DOMAIN yard.blocked =>
       task.upto <= yard.blocked[task.at][1] \div SlotMin \/ task.slot >= SlotsOf(yard.blocked[task.at][2])
  /\ \A c \in ToSet(yard.closures) :
       task.slot <= c[1] \div SlotMin \/ task.slot >= SlotsOf(c[2] + yard.site.moveMin)
Tasks(yard, v) ==
  LET Kws(i) == {VisitSegments(yard, v, i)[k].kw : k \in DOMAIN VisitSegments(yard, v, i)}
      At(i) == LET span == SlotsOf(HoldMinutes(yard, v, i))
                   held == SlotsOf(HoldMinutes(yard, v, i) + Cooldown(yard, i))
                   top == Max({0} \cup Kws(i))
               IN  {[at |-> i, slot |-> s, upto |-> s + span, free |-> s + held, kw |-> top] : s \in yard.slots}
  IN  {task \in UNION {At(i) : i \in VisitPoints(yard, v)} : IsPlaced(yard, v, task)}
PowerHolds(pick, among, limit) ==
  \A k \in among :
    LET running == {j \in among : pick[j].slot <= pick[k].slot /\ pick[k].slot < pick[j].upto}
    IN  MapThenSumSet(LAMBDA j : pick[j].kw, running) <= limit
InWindow(pick, cap) ==   \* the window widened to whole slots
  {k \in DOMAIN pick : pick[k].slot < SlotsOf(cap[2]) /\ pick[k].upto > cap[1] \div SlotMin}
SlotAnswers(yard, visits) ==
  LET tasks == [k \in DOMAIN visits |-> Tasks(yard, visits[k])]
      Apart(a, b) == a.at # b.at \/ a.free <= b.slot \/ b.free <= a.slot
      grown[n \in 0..Len(visits)] ==   \* the answers for the first n visits
        IF n = 0 THEN {<<>>}
        ELSE {Append(a, t) : a \in grown[n - 1], t \in tasks[n]}
  IN  {pick \in grown[Len(visits)] :
         /\ \A j, k \in DOMAIN pick : j < k => Apart(pick[j], pick[k])
         /\ PowerHolds(pick, DOMAIN pick, yard.site.powerCap)
         /\ \A c \in ToSet(yard.caps) : PowerHolds(pick, InWindow(pick, c), c[3])}
BookAnswer(yard, visits, pick) ==
  LET order == SortSeq([k \in DOMAIN visits |-> k], LAMBDA j, k : pick[j].slot < pick[k].slot)
  IN  FoldLeft(LAMBDA book, k : BookVisit(yard, book, visits[k], pick[k].at, pick[k].slot * SlotMin),
               EmptyBook(yard), order)

---------------------------------------------------------------------------
(* A cell's report.  The load only rises where a segment starts.           *)
SegmentKw(yard, x, t) ==
  LET segs == VisitSegments(yard, x.asset, x.at)
      on == {k \in DOMAIN segs : /\ x.start + MinutesBefore(segs, k) <= t
                                 /\ t < x.start + MinutesBefore(segs, k + 1)}
  IN  MapThenSumSet(LAMBDA k : segs[k].kw, on)
SiteLoad(yard, book, t) == MapThenSumSet(LAMBDA k : SegmentKw(yard, book.taken[k], t), DOMAIN book.taken)
Edges(yard, book) ==
  LET Segs(x) == VisitSegments(yard, x.asset, x.at)
  IN  UNION {{x.start + MinutesBefore(Segs(x), k) : k \in DOMAIN Segs(x)} \cup {x.start + ChainMinutes(Segs(x))}
               : x \in ToSet(book.taken)}
CapViolation(yard, book) ==   \* kW-minutes over a reduced cap
  LET edges == Edges(yard, book)
      NextEdge(t) == Min({u \in edges : u > t})
      Over(c, t) == Most(0, Least(NextEdge(t), c[2]) - Most(t, c[1])) * Most(0, SiteLoad(yard, book, t) - c[3])
  IN  MapThenSumSet(LAMBDA c : MapThenSumSet(LAMBDA t : Over(c, t), edges \ {Max(edges)}), ToSet(yard.caps))
RunCell(yard, book) ==
  LET Tardy(x) == Most(0, x.end - x.asset.ready)
      waits == SortSeq([k \in DOMAIN book.taken |-> book.taken[k].start - book.taken[k].asset.arrival],
                       LAMBDA a, b : a < b)
  IN  [tardy |-> FoldLeft(LAMBDA n, x : n + Tardy(x), 0, book.taken),
       wait |-> waits[Most(1, (19 * Len(waits) + 10) \div 20)],
       peak |-> Max({0} \cup {SiteLoad(yard, book, t) : t \in Edges(yard, book)}),
       capViolation |-> CapViolation(yard, book), turns |-> Len(book.taken)]
=============================================================================
