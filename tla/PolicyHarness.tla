--------------------------- MODULE PolicyHarness ----------------------------
(***************************************************************************)
(* The comparison of the assignment policies: each books the same assets   *)
(* on the same points (policies/assignment_policy.py, forward.py), and the *)
(* harness routes, scores and draws the load of what was booked            *)
(* (harness.py, cost.py), with the bound no schedule beats.                *)
(*                                                                         *)
(* A scenario is the charging model's (ChargeKernel); every asset of it    *)
(* needs a charge.  A book is [free, taken, clash]: when each point is     *)
(* free again, the charges in the order they were booked, and whether one  *)
(* tripped the assertion against booking a point twice.                    *)
(***************************************************************************)
EXTENDS ChargeKernel, SequencesExt

EmptyBook(sc) == [free |-> [i \in DOMAIN sc.points |-> 0], taken |-> <<>>, clash |-> FALSE]
IndexOf(sc, id) == CHOOSE i \in DOMAIN sc.points : sc.points[i].id = id
ChargePoints(sc, kinds) == {i \in DOMAIN sc.points : sc.points[i].kind \in kinds}
EarliestStart(book, asset, i) == Most(asset.arrival, book.free[i])
ChargeMinutes(sc, asset, i) == ChainMinutes(ChargeSegments(sc, asset, sc.points[i].kw))

(* Booking is the one act: the point is held to the charge's end, and then *)
(* for its turnaround.                                                     *)
BookWithoutTurnaround(sc, book, asset, i, start) ==
  LET end == start + ChargeMinutes(sc, asset, i)
  IN  [free |-> [book.free EXCEPT ![i] = end],
       taken |-> Append(book.taken, [asset |-> asset, at |-> i, start |-> start, end |-> end]),
       clash |-> book.clash \/ start < book.free[i]]
BookCharge(sc, book, asset, i, start) ==
  LET end == start + ChargeMinutes(sc, asset, i)
  IN  [free |-> [book.free EXCEPT ![i] = end + sc.points[i].gap],
       taken |-> Append(book.taken, [asset |-> asset, at |-> i, start |-> start, end |-> end]),
       clash |-> book.clash \/ start < book.free[i]]

(* The least by a key, ties by the order of the points; assets by a key,   *)
(* ties by their names.                                                    *)
BestPoint(candidates, Key(_)) ==
  CHOOSE i \in candidates : \A j \in candidates : Key(i) < Key(j) \/ (Key(i) = Key(j) /\ i <= j)
InOrder(assets, Key(_)) ==
  SetToSortSeq({assets[i] : i \in DOMAIN assets},
               LAMBDA a, b : Key(a) < Key(b) \/ (Key(a) = Key(b) /\ a.aid < b.aid))
BookInTurn(sc, assets, Choice(_, _)) ==
  FoldLeft(LAMBDA book, a : LET i == Choice(book, a)
                            IN  BookCharge(sc, book, a, i, EarliestStart(book, a, i)),
           EmptyBook(sc), assets)

PlugTargetSoc == 55
Fifo(sc) ==
  BookInTurn(sc, InOrder(sc.assets, LAMBDA a : a.arrival),
             LAMBDA book, a : BestPoint(ChargePoints(sc, sc.classes[a.cls].kinds),
                                        LAMBDA i : EarliestStart(book, a, i)))
Greedy(sc) ==
  BookInTurn(sc, InOrder(sc.assets, LAMBDA a : a.arrival),
             LAMBDA book, a : BestPoint(ChargePoints(sc, sc.classes[a.cls].kinds),
                                        LAMBDA i : EarliestStart(book, a, i) + ChargeMinutes(sc, a, i)))
(* The reduction of the live cursor lists the DCFC points first for a low  *)
(* battery, then takes the least of the list by start and point order.     *)
Preferred(sc, asset) ==
  LET Listed(kind) == SelectSeq([n \in DOMAIN sc.points |-> n], LAMBDA i : sc.points[i].kind = kind)
  IN  IF asset.soc < PlugTargetSoc THEN Listed("dcfc") \o Listed("l2") ELSE Listed("l2") \o Listed("dcfc")
OttoQAsIs(sc) ==
  BookInTurn(sc, InOrder(sc.assets, LAMBDA a : a.soc),
             LAMBDA book, a : BestPoint(ToSet(Preferred(sc, a)), LAMBDA i : EarliestStart(book, a, i)))
(* What the solver's plan says, booked in the order of its starts; an      *)
(* asset the plan rejects is booked nowhere.                               *)
FromPlan(sc, plan) ==
  LET ItineraryOf(a) == plan[CHOOSE k \in DOMAIN plan : plan[k].aid = a.aid]
      placed == SelectSeq(sc.assets, LAMBDA a : ItineraryOf(a).point # NoPoint)
  IN  FoldLeft(LAMBDA book, a : BookCharge(sc, book, a, IndexOf(sc, ItineraryOf(a).point), ItineraryOf(a).start),
               EmptyBook(sc), InOrder(placed, LAMBDA a : ItineraryOf(a).start))

---------------------------------------------------------------------------
(* Every policy's charges go through the same bays, first charged first    *)
(* washed and then inspected, each at the bay that is free first.          *)
Visit(sc, free, finish, minutes) ==
  LET bay == CHOOSE b \in DOMAIN free :
               \A c \in DOMAIN free : free[b] < free[c] \/ (free[b] = free[c] /\ b <= c)
      start == Most(finish + sc.site.moveMin, free[bay])
  IN  [free |-> [free EXCEPT ![bay] = start + minutes], finish |-> start + minutes]
Bays(sc, kind) == {i \in DOMAIN sc.points : sc.points[i].kind = kind}
Routed(sc, book) ==
  LET ByEnd == SetToSortSeq(ToSet(book.taken),
                 LAMBDA x, y : x.end < y.end \/ (x.end = y.end /\ x.asset.aid < y.asset.aid))
      Step(r, x) ==
        LET w == IF x.asset.needsWash THEN Visit(sc, r.wash, x.end, sc.site.washMin)
                 ELSE [free |-> r.wash, finish |-> x.end]
            s == IF x.asset.needsInspect THEN Visit(sc, r.inspect, w.finish, sc.site.inspectMin)
                 ELSE [free |-> r.inspect, finish |-> w.finish]
        IN  [wash |-> w.free, inspect |-> s.free,
             done |-> Append(r.done,
               [aid |-> x.asset.aid, wait |-> x.start - x.asset.arrival, finish |-> s.finish,
                tardy |-> Most(0, s.finish - x.asset.ready),
                moves |-> Cardinality({v \in {"needsWash", "needsInspect"} : x.asset[v]})])]
  IN  FoldLeft(Step, [wash |-> [b \in Bays(sc, "wash_bay") |-> 0],
                      inspect |-> [b \in Bays(sc, "service_bay") |-> 0], done |-> <<>>], ByEnd).done

LoadAt(sc, book, t) ==
  MapThenSumSet(LAMBDA k : LET x == book.taken[k]
                           IN  KwOf(sc, x.asset, [point |-> sc.points[x.at].id, start |-> x.start, chargeEnd |-> x.end], t),
                DOMAIN book.taken)
LastEnd(book) == Max({0} \cup {book.taken[k].end : k \in DOMAIN book.taken})
BookedPeakKw(sc, book) == Max({0} \cup {LoadAt(sc, book, t) : t \in 0..LastEnd(book)})
RunPolicy(sc, book) ==
  LET done == Routed(sc, book)
      waits == SortSeq([k \in DOMAIN done |-> done[k].wait], LAMBDA a, b : a < b)
      p95 == Most(1, (19 * Len(waits) + 10) \div 20)
      Total(f) == FoldLeft(LAMBDA n, d : n + d[f], 0, done)
  IN  [assigned |-> Len(done) = Len(sc.assets), tardy |-> Total("tardy"), wait |-> waits[p95],
       peak |-> BookedPeakKw(sc, book), moves |-> Total("moves"),
       turns |-> Cardinality({k \in DOMAIN book.taken : sc.points[book.taken[k].at].kind \in {"dcfc", "l2"}}),
       makespan |-> Max({done[k].finish : k \in DOMAIN done})]

(* The curve a bill is drawn from: the load at each step, zero at the end. *)
SiteLoadCurve(sc, book, step, end) ==
  LET n == CeilDiv(end, step)
  IN  Append([k \in 1..n |-> [from |-> (k - 1) * step, kw |-> LoadAt(sc, book, (k - 1) * step)]],
             [from |-> end, kw |-> 0])

(* The policies no other beats on both axes.                               *)
ParetoWithoutTies(tardy, cost) ==
  {a \in DOMAIN tardy : ~\E b \in DOMAIN tardy : b # a /\ tardy[b] <= tardy[a] /\ cost[b] <= cost[a]}
Pareto(tardy, cost) ==
  {a \in DOMAIN tardy :
     ~\E b \in DOMAIN tardy : /\ b # a /\ tardy[b] <= tardy[a] /\ cost[b] <= cost[a]
                              /\ (tardy[b] < tardy[a] \/ cost[b] < cost[a])}
PairedDelta(metrics, baseline) == [m \in DOMAIN baseline |-> metrics[m] - baseline[m]]

(* The bound on a punctual schedule's peak: whatever must be charged       *)
(* inside a window, over the window.  In kW, rounded down.                 *)
Need(sc, asset) == sc.classes[asset.cls].kwh * (asset.target - asset.soc)   \* hundredths of a kWh
PeakBoundArrivedIn(sc) ==
  LET edges == {sc.assets[k].arrival : k \in DOMAIN sc.assets} \cup {sc.assets[k].ready : k \in DOMAIN sc.assets}
      Inside(s, e) == {k \in DOMAIN sc.assets : s <= sc.assets[k].arrival /\ sc.assets[k].arrival <= e}
      Average(s, e) == (60 * MapThenSumSet(LAMBDA k : Need(sc, sc.assets[k]), Inside(s, e))) \div (100 * (e - s))
  IN  Max({0} \cup {Average(w[1], w[2]) : w \in {v \in edges \X edges : v[1] < v[2]}})
PeakLowerBound(sc) ==
  LET edges == {sc.assets[k].arrival : k \in DOMAIN sc.assets} \cup {sc.assets[k].ready : k \in DOMAIN sc.assets}
      Inside(s, e) == {k \in DOMAIN sc.assets : s <= sc.assets[k].arrival /\ sc.assets[k].ready <= e}
      Average(s, e) == (60 * MapThenSumSet(LAMBDA k : Need(sc, sc.assets[k]), Inside(s, e))) \div (100 * (e - s))
  IN  Max({0} \cup {Average(w[1], w[2]) : w \in {v \in edges \X edges : v[1] < v[2]}})
=============================================================================
