------------------------ MODULE ForwardProposerProofs ------------------------
(***************************************************************************)
(* What the forward proposer promises, for every frame, class table and    *)
(* options, and every scenario a plan is rolled over: a pass gives up      *)
(* nothing an earlier one reached, what a row offers can be taken, every   *)
(* vehicle is accounted for, a plan made again moves nothing that had      *)
(* begun, and a record that says "complete" is of a best plan.             *)
(*                                                                         *)
(* The search is whatever Answers admits: the proofs use of an answer only *)
(* that it is a plan of the model within its call's ceilings and, of one   *)
(* proven optimal, that no such plan costs less.                           *)
(***************************************************************************)
EXTENDS MCForwardProposer, ArithmeticTheorems

-----------------------------------------------------------------------------
(* What At picks from a sequence, it picks from the places, each once. *)
IsPlacing(place, picked, seq, places) ==
  /\ \A k \in DOMAIN picked : place[k] \in places /\ picked[k] = seq[place[k]]
  /\ \A k, l \in DOMAIN picked : place[k] = place[l] => k = l

(* At puts its picks in their order, each once. *)
LEMMA AtPicks ==
  ASSUME NEW seq, NEW places, places \subseteq Nat, IsFiniteSet(places)
  PROVE  /\ DOMAIN At(seq, places) = 1 .. Cardinality(places) /\ Cardinality(places) \in Nat
         /\ \E place : IsPlacing(place, At(seq, places), seq, places)
<1> DEFINE N == Cardinality(places)
           Place(k) == CHOOSE i \in places : Cardinality({j \in places : j < i}) = k - 1
           place == [k \in 1 .. N |-> Place(k)]
<1>1. N \in Nat
  BY FS_CardinalityType
<1>2. At(seq, places) = [k \in 1 .. N |-> seq[Place(k)]]
  BY DEF At
<1>3. ASSUME NEW k \in 1 .. N
      PROVE  Place(k) \in places /\ Cardinality(PlacesBefore(places, Place(k))) = k - 1
  <2>1. \E i \in places : Cardinality(PlacesBefore(places, i)) = k - 1
    <3>1. k - 1 \in Nat /\ k - 1 < N
      BY <1>1
    <3> QED BY <3>1, RankExists
  <2>2. \E i \in places : Cardinality({j \in places : j < i}) = k - 1
    BY <2>1 DEF PlacesBefore
  <2>3. Place(k) \in places /\ Cardinality({j \in places : j < Place(k)}) = k - 1
    BY <2>2
  <2> QED BY <2>3 DEF PlacesBefore
<1> HIDE DEF Place
<1>4. \A k \in 1 .. N : place[k] \in places
  BY <1>3
<1>5. \A k \in 1 .. N : At(seq, places)[k] = seq[place[k]]
  BY <1>2
<1>6. \A k, l \in 1 .. N : place[k] = place[l] => k = l
  <2> SUFFICES ASSUME NEW k \in 1 .. N, NEW l \in 1 .. N, place[k] = place[l] PROVE k = l
    OBVIOUS
  <2>1. k - 1 = l - 1
    BY <1>3
  <2> QED BY <2>1
<1>7. DOMAIN At(seq, places) = 1 .. N
  BY <1>2
<1>8. IsPlacing(place, At(seq, places), seq, places)
  <2> HIDE DEF place
  <2> QED BY <1>4, <1>5, <1>6, <1>7 DEF IsPlacing
<1> QED BY <1>1, <1>7, <1>8

(* The least of a set of numbers is one of them. *)
LEMMA MinIsMember ==
  ASSUME NEW S, S \subseteq Nat, S # {}
  PROVE  Min(S) \in S
<1>1. \E x \in S : \A y \in S : x <= y
  BY LeastNumber
<1> QED BY <1>1 DEF Min

-----------------------------------------------------------------------------
(* The plans: one itinerary for every asset, built up an asset at a time. *)
JointOf(y, call, before, n) ==
  {p \in {Append(q, it) : q \in before, it \in Itineraries(y, call, y.assets[n])} : OneAssetPerPoint(y, p)}
IsJoint(y, call, joint, upto) ==
  joint = [n \in 0 .. upto |-> IF n = 0 THEN {<<>>} ELSE JointOf(y, call, joint[n - 1], n)]

(* ItinerariesUpto is the last of such a family. *)
LEMMA UptoIsChosen ==
  ASSUME NEW y, NEW call
  PROVE  ItinerariesUpto(y, call) = (CHOOSE j : IsJoint(y, call, j, Len(y.assets)))[Len(y.assets)]
BY DEF ItinerariesUpto, IsJoint, JointOf

(* There is one for any number of assets. *)
LEMMA JointExists ==
  ASSUME NEW y, NEW call
  PROVE  \A n \in Nat : \E j : IsJoint(y, call, j, n)
<1> DEFINE Bad == {n \in Nat : ~\E j : IsJoint(y, call, j, n)}
<1> SUFFICES ASSUME Bad # {} PROVE FALSE
  OBVIOUS
<1>1. PICK n \in Bad : \A m \in Bad : n <= m
  BY LeastNumber
<1>2. CASE n = 0
  <2> DEFINE j == [k \in 0 .. 0 |-> {<<>>}]
  <2>1. j = [k \in 0 .. 0 |-> IF k = 0 THEN {<<>>} ELSE JointOf(y, call, j[k - 1], k)]
    <3>1. \A k \in 0 .. 0 : {<<>>} = IF k = 0 THEN {<<>>} ELSE JointOf(y, call, j[k - 1], k)
      OBVIOUS
    <3> QED BY <3>1
  <2>2. IsJoint(y, call, j, n)
    BY <1>2, <2>1 DEF IsJoint
  <2> QED BY <1>1, <2>2
<1>3. CASE n # 0
  <2>1. n - 1 \in Nat /\ n \in Nat /\ n - 1 \notin Bad
    BY <1>1, <1>3
  <2>2. PICK f : IsJoint(y, call, f, n - 1)
    BY <2>1
  <2>3. f = [k \in 0 .. n - 1 |-> IF k = 0 THEN {<<>>} ELSE JointOf(y, call, f[k - 1], k)]
    BY <2>2 DEF IsJoint
  <2> DEFINE j == [k \in 0 .. n |-> IF k = 0 THEN {<<>>} ELSE JointOf(y, call, f[k - 1], k)]
  <2>4. \A k \in 0 .. n - 1 : j[k] = f[k]
    <3> SUFFICES ASSUME NEW k \in 0 .. n - 1 PROVE j[k] = f[k]
      OBVIOUS
    <3>1. k \in 0 .. n
      BY <2>1
    <3>2. f[k] = IF k = 0 THEN {<<>>} ELSE JointOf(y, call, f[k - 1], k)
      BY <2>3
    <3>3. j[k] = IF k = 0 THEN {<<>>} ELSE JointOf(y, call, f[k - 1], k)
      BY <3>1
    <3> QED BY <3>2, <3>3
  <2>5. \A k \in 0 .. n : j[k] = IF k = 0 THEN {<<>>} ELSE JointOf(y, call, j[k - 1], k)
    <3> SUFFICES ASSUME NEW k \in 0 .. n PROVE j[k] = IF k = 0 THEN {<<>>} ELSE JointOf(y, call, j[k - 1], k)
      OBVIOUS
    <3>1. CASE k = 0
      BY <3>1
    <3>2. CASE k # 0
      <4>1. k - 1 \in 0 .. n - 1
        BY <2>1, <3>2
      <4>2. j[k - 1] = f[k - 1]
        BY <2>4, <4>1
      <4>3. j[k] = JointOf(y, call, f[k - 1], k)
        BY <3>2
      <4> HIDE DEF j
      <4> QED BY <3>2, <4>2, <4>3
    <3> QED BY <3>1, <3>2
  <2>6. j = [k \in 0 .. n |-> IF k = 0 THEN {<<>>} ELSE JointOf(y, call, j[k - 1], k)]
    <3>1. j = [k \in 0 .. n |-> j[k]]
      OBVIOUS
    <3> HIDE DEF j
    <3> QED BY <2>5, <3>1
  <2>7. IsJoint(y, call, j, n)
    <3> HIDE DEF j
    <3> QED BY <2>6 DEF IsJoint
  <2> QED BY <1>1, <2>7
<1> QED BY <1>2, <1>3

(* A plan has one itinerary for each asset, which is one of those the model admits for it. *)
HasAssets(y) == DOMAIN y.assets = 1 .. Len(y.assets) /\ Len(y.assets) \in Nat
IsPlanOf(y, call, p) ==
  /\ DOMAIN p = 1 .. Len(y.assets)
  /\ \A i \in DOMAIN p : p[i] \in Itineraries(y, call, y.assets[i])

(* The plans of the kernel are such lists, and where there are assets no two of them share a point. *)
LEMMA PlansAreJoint ==
  ASSUME NEW y, NEW call, HasAssets(y), NEW p \in Plans(y, call)
  PROVE  /\ IsPlanOf(y, call, p)
         /\ Len(y.assets) # 0 => OneAssetPerPoint(y, p)
<1> DEFINE N == Len(y.assets)
           It(n) == Itineraries(y, call, y.assets[n])
           U == UNION {It(n) : n \in 1 .. N}
           j == CHOOSE k : IsJoint(y, call, k, N)
           Good(n) == \A q \in j[n] : q \in Seq(U) /\ Len(q) = n /\ \A i \in 1 .. n : q[i] \in It(i)
           Bad == {n \in 0 .. N : ~Good(n)}
<1>1. N \in Nat
  BY DEF HasAssets
<1>2. IsJoint(y, call, j, N)
  BY <1>1, JointExists
<1>3. \A n \in 0 .. N : j[n] = IF n = 0 THEN {<<>>} ELSE JointOf(y, call, j[n - 1], n)
  <2> HIDE DEF j
  <2>1. j = [n \in 0 .. N |-> IF n = 0 THEN {<<>>} ELSE JointOf(y, call, j[n - 1], n)]
    BY <1>2 DEF IsJoint
  <2> QED BY <2>1
<1> HIDE DEF j
<1>4. Bad = {}
  <2> SUFFICES ASSUME Bad # {} PROVE FALSE
    OBVIOUS
  <2>1. PICK n \in Bad : \A m \in Bad : n <= m
    <3>1. Bad \subseteq Nat
      BY <1>1
    <3> HIDE DEF Bad
    <3> QED BY <3>1, LeastNumber
  <2>2. n \in 0 .. N /\ ~Good(n)
    BY <2>1
  <2>3. CASE n = 0
    <3>1. j[n] = {<<>>}
      BY <1>3, <2>2, <2>3
    <3>2. <<>> \in Seq(U) /\ Len(<<>>) = 0
      OBVIOUS
    <3>3. Good(n)
      BY <2>3, <3>1, <3>2
    <3> QED BY <2>2, <3>3
  <2>4. CASE n # 0
    <3>1. n - 1 \in 0 .. N /\ n \in 1 .. N /\ Good(n - 1)
      <4>1. n - 1 \in 0 .. N /\ n \in 1 .. N /\ ~(n <= n - 1)
        BY <1>1, <2>2, <2>4
      <4>2. n - 1 \notin Bad
        <5> HIDE DEF Bad
        <5> QED BY <2>1, <4>1
      <4> HIDE DEF Good
      <4> QED BY <4>1, <4>2
    <3>2. j[n] = JointOf(y, call, j[n - 1], n)
      BY <1>3, <2>2, <2>4
    <3>3. ASSUME NEW q \in j[n] PROVE q \in Seq(U) /\ Len(q) = n /\ \A i \in 1 .. n : q[i] \in It(i)
      <4>1. PICK r \in j[n - 1], it \in It(n) : q = Append(r, it)
        BY <3>2, <3>3 DEF JointOf
      <4>2. r \in Seq(U) /\ Len(r) = n - 1 /\ \A i \in 1 .. n - 1 : r[i] \in It(i)
        BY <3>1, <4>1
      <4>3. it \in U
        BY <3>1, <4>1
      <4> HIDE DEF It, U, Good, Bad
      <4>4. q \in Seq(U) /\ Len(q) = n /\ q[n] = it /\ \A i \in 1 .. n - 1 : q[i] = r[i]
        BY <3>1, <4>1, <4>2, <4>3
      <4> QED BY <3>1, <4>1, <4>2, <4>4
    <3>4. Good(n)
      BY <3>3
    <3> QED BY <2>2, <3>4
  <2> QED BY <2>3, <2>4
<1>5. p \in j[N]
  <2>1. p \in ItinerariesUpto(y, call)
    BY DEF Plans
  <2> QED BY <2>1, UptoIsChosen DEF j
<1>6. N \in 0 .. N /\ N \notin Bad
  <2>1. N \in 0 .. N
    BY <1>1
  <2> HIDE DEF Bad
  <2> QED BY <1>4, <2>1
<1>7. p \in Seq(U) /\ Len(p) = N /\ \A i \in 1 .. N : p[i] \in It(i)
  BY <1>5, <1>6
<1>8. DOMAIN p = 1 .. N
  <2> HIDE DEF U
  <2> QED BY <1>7
<1>9. IsPlanOf(y, call, p)
  BY <1>7, <1>8 DEF IsPlanOf
<1>10. N # 0 => OneAssetPerPoint(y, p)
  <2> SUFFICES ASSUME N # 0 PROVE OneAssetPerPoint(y, p)
    OBVIOUS
  <2>1. N \in 0 .. N
    BY <1>1
  <2>2. p \in JointOf(y, call, j[N - 1], N)
    BY <1>3, <1>5, <2>1
  <2> HIDE DEF N
  <2> QED BY <2>2 DEF JointOf
<1> QED BY <1>9, <1>10

-----------------------------------------------------------------------------
(* What an itinerary that is served is made of. *)
PlacesFor(y, call, a) ==
  IF NeedsCharge(y, call, a) THEN ChargePlaces(y, call, a)
  ELSE {[point |-> NoPoint, start |-> a.arrival, minutes |-> 0]}
FinishOf(y, stay, w, i) ==
  Max({stay} \cup (IF w = NoBay THEN {} ELSE {w.start + y.site.washMin})
             \cup (IF i = NoBay THEN {} ELSE {i.start + y.site.inspectMin}))
AfterWashOf(y, stay, w) == IF w = NoBay THEN stay ELSE w.start + y.site.washMin
LateBy(a, finish) == Most(0, finish - a.ready)
LateOf(y, call, a, finish) == LateBy(a, finish) .. Least(y.horizon, LateBy(a, finish) + call.slack)
ItineraryOf(y, a, c, t, w, i, late) ==
  LET stay == StayEnd(y, a, c.start + c.minutes, t)
  IN  [aid |-> a.aid, served |-> TRUE, point |-> c.point, start |-> c.start, chargeEnd |-> c.start + c.minutes,
       stayEnd |-> stay, parallel |-> t, wash |-> w, inspect |-> i, finish |-> FinishOf(y, stay, w, i), tardy |-> late]

(* An itinerary that serves its vehicle is a place, parallel work, a wash and an inspection. *)
LEMMA ServedForm ==
  ASSUME NEW y, NEW call, NEW a, NEW it \in ServedItineraries(y, call, a)
  PROVE  \E c \in PlacesFor(y, call, a) : \E t \in ParallelTimes(y, a, c.start) :
         \E w \in WashVisits(y, call, a, StayEnd(y, a, c.start + c.minutes, t)) :
         \E i \in InspectVisits(y, call, a, AfterWashOf(y, StayEnd(y, a, c.start + c.minutes, t), w)) :
         \E late \in LateOf(y, call, a, FinishOf(y, StayEnd(y, a, c.start + c.minutes, t), w, i)) :
           it = ItineraryOf(y, a, c, t, w, i, late)
<1> DEFINE Stayed(c) == {[stay |-> StayEnd(y, a, c.start + c.minutes, t), times |-> t] : t \in ParallelTimes(y, a, c.start)}
           Late(f) == Most(0, f - a.ready)
           Whole(c, s, w, i, late) ==
             [aid |-> a.aid, served |-> TRUE, point |-> c.point, start |-> c.start,
              chargeEnd |-> c.start + c.minutes, stayEnd |-> s.stay, parallel |-> s.times,
              wash |-> w, inspect |-> i, finish |-> FinishOf(y, s.stay, w, i), tardy |-> late]
           ByInspection(c, s, w, i) ==
             {Whole(c, s, w, i, late) : late \in Late(FinishOf(y, s.stay, w, i)) ..
                                          Least(y.horizon, Late(FinishOf(y, s.stay, w, i)) + call.slack)}
           ByWash(c, s, w) == UNION {ByInspection(c, s, w, i) : i \in InspectVisits(y, call, a, AfterWashOf(y, s.stay, w))}
           ByStay(c, s) == UNION {ByWash(c, s, w) : w \in WashVisits(y, call, a, s.stay)}
           ByPlace(c) == UNION {ByStay(c, s) : s \in Stayed(c)}
<1>1. it \in UNION {ByPlace(c) : c \in PlacesFor(y, call, a)}
  BY Zenon DEF ServedItineraries, PlacesFor, FinishOf, AfterWashOf
<1> HIDE DEF ByPlace
<1>2. PICK c \in PlacesFor(y, call, a) : it \in ByPlace(c)
  BY <1>1
<1> USE DEF ByPlace
<1> HIDE DEF ByStay
<1>3. PICK s \in Stayed(c) : it \in ByStay(c, s)
  BY <1>2
<1> USE DEF ByStay
<1> HIDE DEF ByWash
<1>4. PICK w \in WashVisits(y, call, a, s.stay) : it \in ByWash(c, s, w)
  BY <1>3
<1> USE DEF ByWash
<1> HIDE DEF ByInspection
<1>5. PICK i \in InspectVisits(y, call, a, AfterWashOf(y, s.stay, w)) : it \in ByInspection(c, s, w, i)
  BY <1>4
<1> USE DEF ByInspection
<1> HIDE DEF Whole
<1>6. PICK late \in LateOf(y, call, a, FinishOf(y, s.stay, w, i)) : it = Whole(c, s, w, i, late)
  BY <1>5 DEF LateOf, LateBy
<1>7. PICK t \in ParallelTimes(y, a, c.start) : s = [stay |-> StayEnd(y, a, c.start + c.minutes, t), times |-> t]
  BY <1>3
<1>8. s.stay = StayEnd(y, a, c.start + c.minutes, t) /\ s.times = t
  BY <1>7
<1>9. it = ItineraryOf(y, a, c, t, w, i, late)
  BY <1>6, <1>8, Zenon DEF Whole, ItineraryOf
<1>10. /\ w \in WashVisits(y, call, a, StayEnd(y, a, c.start + c.minutes, t))
       /\ i \in InspectVisits(y, call, a, AfterWashOf(y, StayEnd(y, a, c.start + c.minutes, t), w))
       /\ late \in LateOf(y, call, a, FinishOf(y, StayEnd(y, a, c.start + c.minutes, t), w, i))
  BY <1>6, <1>8, Zenon
<1> QED BY <1>9, <1>10, Zenon

-----------------------------------------------------------------------------
(* What the numbers of a scenario are, and that the figures of its plans are numbers. *)
IsClass(cls) == cls.kwh \in Int /\ cls.maxKw \in Nat /\ cls.curve \in Seq([above : Int, accept : 0 .. 100])
IsAssetIn(y, a) ==
  /\ a.soc \in Int /\ a.target \in Int /\ a.arrival \in Nat /\ a.ready \in Int
  /\ IsFiniteSet(a.parallel) /\ \A op \in a.parallel : y.menu[op] \in Int
  /\ IsClass(y.classes[a.cls])
HasPoints(y) ==
  /\ \A i \in DOMAIN y.points : y.points[i].kw \in Nat /\ y.points[i].gap \in Int /\ y.points[i].id # NoPoint
  /\ \A i, j \in DOMAIN y.points : y.points[i].id = y.points[j].id => i = j
IsScenario(y) ==
  /\ y.horizon \in Nat /\ y.site.washMin \in Int /\ y.site.inspectMin \in Int /\ y.site.coldPenalty \in Nat
  /\ HasPoints(y) /\ HasAssets(y)
  /\ \A i \in DOMAIN y.assets : IsAssetIn(y, y.assets[i])
  /\ \A i, j \in DOMAIN y.assets : y.assets[i].aid = y.assets[j].aid => i = j

(* A share of a power, in whole kilowatts, is no more than the power. *)
LEMMA ShareOfPower ==
  \A k \in Nat, r \in 0 .. 100 : (k * r) \div 100 \in Int /\ (k * r) \div 100 <= k
<1> SUFFICES ASSUME NEW k \in Nat, NEW r \in 0 .. 100 PROVE (k * r) \div 100 \in Int /\ (k * r) \div 100 <= k
  OBVIOUS
<1>1. k * r \in Nat /\ k * r <= k * 100
  <2>1. r \in Nat /\ 100 \in Nat /\ r <= 100
    OBVIOUS
  <2> QED BY <2>1, TimesIsMonotone
<1>2. \A m \in Nat : m <= k * 100 => m \div 100 \in Int /\ m \div 100 <= k
  OBVIOUS
<1> QED BY <1>1, <1>2

(* A stretch of the curve draws a power within the point's and the class's, and takes a minute at least. *)
LEMMA SegmentsAreTyped ==
  ASSUME NEW y, NEW a, NEW kw \in Nat, a.soc \in Int, a.target \in Int, IsClass(y.classes[a.cls]), y.site.coldPenalty \in Nat
  PROVE  /\ DOMAIN ChargeSegments(y, a, kw) \subseteq Nat /\ IsFiniteSet(DOMAIN ChargeSegments(y, a, kw))
         /\ \A k \in DOMAIN ChargeSegments(y, a, kw) :
              /\ ChargeSegments(y, a, kw)[k].kw \in Nat
              /\ 1 <= ChargeSegments(y, a, kw)[k].kw
              /\ ChargeSegments(y, a, kw)[k].kw <= Most(1, Least(kw, y.classes[a.cls].maxKw))
              /\ ChargeSegments(y, a, kw)[k].minutes \in Nat /\ 1 <= ChargeSegments(y, a, kw)[k].minutes
<1> DEFINE cls == y.classes[a.cls]
           curve == cls.curve
           From(i) == IF i = 1 THEN a.soc ELSE Most(a.soc, curve[i].above)
           Upto(i) == Least(a.target, IF i = Len(curve) THEN 100 ELSE curve[i + 1].above)
           Kw(i) == Most(1, (Least(kw, cls.maxKw) * curve[i].accept) \div 100)
           Minutes(i) == Most(1, CeilDiv(60 * cls.kwh * (Upto(i) - From(i)), 100 * Kw(i)))
           steps == {i \in 1 .. Len(curve) : Upto(i) > From(i)}
           cold(i) == IF a.cold /\ i = Min(steps) THEN y.site.coldPenalty ELSE 0
           segs == ChargeSegments(y, a, kw)
<1>1. segs = [i \in steps |-> [kw |-> Kw(i), minutes |-> Minutes(i) + cold(i)]]
  BY DEF ChargeSegments
<1>2. /\ curve \in Seq([above : Int, accept : 0 .. 100]) /\ Len(curve) \in Nat /\ DOMAIN curve = 1 .. Len(curve)
      /\ \A i \in 1 .. Len(curve) : curve[i].above \in Int /\ curve[i].accept \in 0 .. 100
  <2> DEFINE R == [above : Int, accept : 0 .. 100]
  <2>1. curve \in Seq(R)
    BY DEF IsClass
  <2>2. \A r \in R : r.above \in Int /\ r.accept \in 0 .. 100
    OBVIOUS
  <2> HIDE DEF R, curve
  <2>3. DOMAIN curve = 1 .. Len(curve) /\ Len(curve) \in Nat /\ \A k \in DOMAIN curve : curve[k] \in R
    BY <2>1, MembersOfSequence
  <2> QED BY <2>1, <2>2, <2>3 DEF R
<1>3. ASSUME NEW i \in steps PROVE Kw(i) \in Nat /\ 1 <= Kw(i) /\ Kw(i) <= Most(1, Least(kw, cls.maxKw))
  <2> DEFINE l == Least(kw, cls.maxKw)
             r == curve[i].accept
             s == (l * r) \div 100
  <2>1. l \in Nat /\ r \in 0 .. 100
    BY <1>2 DEF Least, IsClass
  <2>2. s \in Int /\ s <= l
    <3> HIDE DEF l, r
    <3> QED BY <2>1, ShareOfPower
  <2>3. Kw(i) = Most(1, s)
    OBVIOUS
  <2>4. \A m, n \in Int : m <= n => Most(1, m) \in Nat /\ 1 <= Most(1, m) /\ Most(1, m) <= Most(1, n)
    BY DEF Most
  <2> HIDE DEF cls, curve, From, Upto, Kw, Minutes, steps, cold, segs, s, r, l
  <2>5. l \in Int
    BY <2>1
  <2>6. Most(1, s) \in Nat /\ 1 <= Most(1, s) /\ Most(1, s) <= Most(1, l)
    BY <2>2, <2>4, <2>5
  <2> QED BY <2>3, <2>6, SMTT(30) DEF l
<1>4. ASSUME NEW i \in steps PROVE Minutes(i) \in Nat /\ 1 <= Minutes(i)
  <2>1. Upto(i) - From(i) \in Int
    <3>1. i \in 1 .. Len(curve) /\ (i # Len(curve) => i + 1 \in 1 .. Len(curve))
      <4>1. \A n \in Nat : \A k \in 1 .. n : k # n => k + 1 \in 1 .. n
        BY SMTT(30)
      <4>2. i \in 1 .. Len(curve) /\ Len(curve) \in Nat
        BY <1>2
      <4> HIDE DEF curve
      <4> QED BY <4>1, <4>2
    <3>2. From(i) \in Int
      <4>1. curve[i].above \in Int
        BY <1>2, <3>1
      <4> HIDE DEF curve
      <4> QED BY <4>1, SMTT(30) DEF Most
    <3>3. Upto(i) \in Int
      <4>1. i # Len(curve) => curve[i + 1].above \in Int
        BY <1>2, <3>1
      <4> HIDE DEF curve
      <4> QED BY <4>1, SMTT(30) DEF Least
    <3> HIDE DEF From, Upto
    <3> QED BY <3>2, <3>3
  <2>2. 60 * cls.kwh \in Int
    BY SMTT(30) DEF IsClass
  <2>3. 60 * cls.kwh * (Upto(i) - From(i)) \in Int
    <3>1. \A m, n \in Int : m * n \in Int
      OBVIOUS
    <3> DEFINE m == 60 * cls.kwh
               n == Upto(i) - From(i)
    <3>2. m \in Int /\ n \in Int
      BY <2>1, <2>2
    <3>3. m * n \in Int
      <4> HIDE DEF m, n
      <4> QED BY <3>1, <3>2, SMTT(30)
    <3> QED BY <3>3
  <2> DEFINE e == 60 * cls.kwh * (Upto(i) - From(i))
             g == Kw(i)
  <2>4. e \in Int /\ g \in Nat /\ 1 <= g
    BY <1>3, <2>3
  <2> HIDE DEF e, g
  <2>5. (e + 100 * g - 1) \div (100 * g) \in Int
    <3>1. 100 * g \in Nat /\ 0 < 100 * g
      BY <2>4
    <3>2. \A m, n \in Int : 0 < n => m \div n \in Int
      OBVIOUS
    <3>3. e + 100 * g - 1 \in Int /\ 100 * g \in Int
      BY <2>4
    <3> QED BY <3>1, <3>2, <3>3
  <2>6. CeilDiv(e, 100 * g) \in Int
    BY <2>5 DEF CeilDiv
  <2>7. \A m \in Int : Most(1, m) \in Nat /\ 1 <= Most(1, m)
    BY DEF Most
  <2>8. Minutes(i) = Most(1, CeilDiv(e, 100 * g))
    BY DEF e, g
  <2> HIDE DEF Minutes
  <2> QED BY <2>6, <2>7, <2>8
<1>5. ASSUME NEW i \in steps PROVE Minutes(i) + cold(i) \in Nat /\ 1 <= Minutes(i) + cold(i)
  <2>1. cold(i) \in Nat
    <3> HIDE DEF steps
    <3> QED OBVIOUS
  <2>2. Minutes(i) \in Nat /\ 1 <= Minutes(i)
    BY <1>4
  <2> HIDE DEF Minutes, cold
  <2> QED BY <2>1, <2>2, SMTT(30)
<1>6. steps \subseteq 1 .. Len(curve)
  OBVIOUS
<1>7. steps \subseteq Nat /\ IsFiniteSet(steps)
  <2>1. \A n \in Nat : IsFiniteSet(1 .. n) /\ 1 .. n \subseteq Nat
    BY FS_Interval, SMTT(30)
  <2>2. Len(curve) \in Nat
    BY <1>2
  <2> HIDE DEF steps, curve
  <2>3. IsFiniteSet(1 .. Len(curve)) /\ 1 .. Len(curve) \subseteq Nat
    BY <2>1, <2>2
  <2> QED BY <1>6, <2>3, FS_Subset
<1> HIDE DEF steps, Kw, Minutes, cold, segs
<1>8. DOMAIN segs = steps /\ \A i \in steps : segs[i].kw = Kw(i) /\ segs[i].minutes = Minutes(i) + cold(i)
  BY <1>1
<1>9. /\ DOMAIN segs \subseteq Nat /\ IsFiniteSet(DOMAIN segs)
      /\ \A k \in DOMAIN segs : /\ segs[k].kw \in Nat /\ 1 <= segs[k].kw /\ segs[k].kw <= Most(1, Least(kw, cls.maxKw))
                                /\ segs[k].minutes \in Nat /\ 1 <= segs[k].minutes
  BY <1>3, <1>5, <1>7, <1>8, Zenon
<1> QED BY <1>9 DEF segs

(* Stretches that take a minute each add up to a charge that takes one. *)
LEMMA ChainIsTyped ==
  ASSUME NEW segs, IsFiniteSet(DOMAIN segs),
         \A k \in DOMAIN segs : segs[k].minutes \in Nat /\ 1 <= segs[k].minutes
  PROVE  /\ ChainMinutes(segs) \in Nat
         /\ DOMAIN segs # {} => 1 <= ChainMinutes(segs)
         /\ \A k : MinutesBefore(segs, k) \in Int
<1> DEFINE f == MinutesOf(segs)
           D == DOMAIN segs
<1>1. DOMAIN f = D /\ \A k \in D : f[k] \in Nat /\ f[k] \in Int /\ 1 <= f[k]
  BY DEF MinutesOf
<1>2. ChainMinutes(segs) = SumFunctionOnSet(f, D)
  BY <1>1, Zenon DEF ChainMinutes, SumFunction
<1>3. \A k : MinutesBefore(segs, k) = SumFunctionOnSet(f, {j \in D : j < k})
  BY Zenon DEF MinutesBefore
<1> HIDE DEF f, D
<1>4. IsFiniteSet(D)
  BY DEF D
<1>5. SumFunctionOnSet(f, D) \in Nat /\ \A k \in D : f[k] <= SumFunctionOnSet(f, D)
  BY <1>1, <1>4, SumOfNaturals
<1>6. ASSUME NEW k PROVE SumFunctionOnSet(f, {j \in D : j < k}) \in Int
  <2> DEFINE S == {j \in D : j < k}
  <2>1. S \subseteq D
    OBVIOUS
  <2> HIDE DEF S
  <2>2. IsFiniteSet(S) /\ \A x \in S : f[x] \in Int
    BY <1>1, <1>4, <2>1, FS_Subset
  <2>3. SumFunctionOnSet(f, S) \in Int
    BY <2>2, SumIsInt
  <2> QED BY <2>3 DEF S
<1>7. D # {} => 1 <= SumFunctionOnSet(f, D)
  <2> SUFFICES ASSUME NEW k \in D PROVE 1 <= SumFunctionOnSet(f, D)
    OBVIOUS
  <2>1. f[k] \in Nat /\ 1 <= f[k] /\ f[k] <= SumFunctionOnSet(f, D) /\ SumFunctionOnSet(f, D) \in Nat
    BY <1>1, <1>5
  <2> QED BY <2>1
<1> QED BY <1>2, <1>3, <1>5, <1>6, <1>7 DEF D

(* A charge without a stretch is the empty one. *)
LEMMA NoStretchNoCharge ==
  ASSUME NEW y, NEW a, NEW kw, ChargeSegments(y, a, kw) # <<>>
  PROVE  DOMAIN ChargeSegments(y, a, kw) # {}
<1> SUFFICES ASSUME DOMAIN ChargeSegments(y, a, kw) = {} PROVE ChargeSegments(y, a, kw) = <<>>
  OBVIOUS
<1> DEFINE segs == ChargeSegments(y, a, kw)
<1>1. segs = [i \in DOMAIN segs |-> segs[i]]
  BY DEF ChargeSegments
<1> HIDE DEF segs
<1>2. segs = [i \in {} |-> segs[i]]
  BY <1>1 DEF segs
<1> QED BY <1>2 DEF segs

(* A visit is to a bay of its kind: one in service, or where the work is pinned to. *)
IsBayOf(y, call, a, op, kind, b) ==
  /\ b.start \in Nat
  /\ \E p \in PointsOfKind(y, {kind}) : b.point = p.id /\ (p.id \notin call.blocked \/ op \in Pinned(call, a))

(* The bays the kernel offers a visit are such bays. *)
LEMMA VisitIsToABay ==
  ASSUME NEW y, NEW call, NEW a, NEW op, NEW kind, NEW minutes, NEW after,
         NEW b \in BayVisits(y, call, a, op, kind, minutes, after)
  PROVE  IsBayOf(y, call, a, op, kind, b)
<1> DEFINE A == {p.id : p \in Usable(call, a, op, PointsOfKind(y, {kind}))}
           S == 0 .. (y.horizon - minutes)
           M == after .. (y.horizon - y.site.moveMin)
<1>1. b.start \in Nat /\ b.point \in A
  <2>1. b \in [point : A, start : S, move : M]
    BY DEF BayVisits
  <2>2. \A x \in S : x \in Nat
    OBVIOUS
  <2> HIDE DEF A, S, M
  <2> QED BY <2>1, <2>2
<1>2. PICK p \in Usable(call, a, op, PointsOfKind(y, {kind})) : b.point = p.id
  BY <1>1
<1> QED BY <1>1, <1>2 DEF IsBayOf, Usable

(* So a wash is none, for who needs none, or at such a bay; pinned, it is where and when it was. *)
LEMMA WashForm ==
  ASSUME NEW y, NEW call, NEW a, NEW after, NEW w \in WashVisits(y, call, a, after)
  PROVE  /\ a.needsWash \/ w = NoBay
         /\ a.needsWash => /\ IsBayOf(y, call, a, "wash", "wash_bay", w)
                           /\ "wash" \in Pinned(call, a) => /\ w.start = PreviousOf(call, a).wash.start
                                                            /\ w.point = PreviousOf(call, a).wash.point
<1> DEFINE free == BayVisits(y, call, a, "wash", "wash_bay", y.site.washMin, after)
<1>1. CASE ~a.needsWash
  BY <1>1 DEF WashVisits
<1>2. CASE a.needsWash
  <2>1. w \in free
    BY <1>2, Zenon DEF WashVisits
  <2>2. "wash" \in Pinned(call, a) => w.start = PreviousOf(call, a).wash.start /\ w.point = PreviousOf(call, a).wash.point
    BY <1>2, Zenon DEF WashVisits
  <2> QED BY <1>2, <2>1, <2>2, VisitIsToABay
<1> QED BY <1>1, <1>2

(* So is the bay of an inspection, where there is one. *)
LEMMA InspectForm ==
  ASSUME NEW y, NEW call, NEW a, NEW after, NEW i \in InspectVisits(y, call, a, after)
  PROVE  i = NoBay \/ IsBayOf(y, call, a, "inspect", "service_bay", i)
<1>1. CASE ~a.needsInspect
  BY <1>1 DEF InspectVisits
<1>2. CASE a.needsInspect
  <2>1. i \in BayVisits(y, call, a, "inspect", "service_bay", y.site.inspectMin, after)
    BY <1>2 DEF InspectVisits
  <2> QED BY <2>1, VisitIsToABay
<1> QED BY <1>1, <1>2

(* A charge is at a point that can give it one, in service or where the work is pinned to, within the horizon. *)
IsPlaceOf(y, call, a, c, p) ==
  /\ p \in PointsOfKind(y, y.classes[a.cls].kinds) /\ p.id = c.point
  /\ ChargeSegments(y, a, p.kw) # <<>>
  /\ p.id \notin call.blocked \/ "charge" \in Pinned(call, a)
  /\ c.start \in a.arrival .. y.horizon /\ c.minutes = ChainMinutes(ChargeSegments(y, a, p.kw))
  /\ c.start + c.minutes <= y.horizon

(* A place for a charge is a start at a candidate within the horizon, or no charge where none is needed. *)
LEMMA PlaceForm ==
  ASSUME NEW y, NEW call, NEW a, NEW c \in PlacesFor(y, call, a)
  PROVE  /\ ~NeedsCharge(y, call, a) => c = [point |-> NoPoint, start |-> a.arrival, minutes |-> 0]
         /\ NeedsCharge(y, call, a) =>
              /\ \E p : IsPlaceOf(y, call, a, c, p)
              /\ "charge" \in Pinned(call, a) => /\ c.point = PreviousOf(call, a).point
                                                 /\ c.start = PreviousOf(call, a).start
<1>1. CASE ~NeedsCharge(y, call, a)
  BY <1>1 DEF PlacesFor
<1>2. CASE NeedsCharge(y, call, a)
  <2> DEFINE Of(p, s) == [point |-> p.id, start |-> s, minutes |-> ChainMinutes(ChargeSegments(y, a, p.kw))]
             free == {Of(p, s) : p \in ChargeCandidates(y, call, a), s \in a.arrival .. y.horizon}
             fits == {d \in free : d.start + d.minutes <= y.horizon}
  <2>1. c \in ChargePlaces(y, call, a)
    BY <1>2, Zenon DEF PlacesFor
  <2> DEFINE same == {d \in fits : d.point = PreviousOf(call, a).point /\ d.start = PreviousOf(call, a).start}
  <2>8. ChargePlaces(y, call, a) = IF "charge" \notin Pinned(call, a) THEN fits ELSE same
    BY DEF ChargePlaces
  <2>2. c \in fits
    <3> HIDE DEF fits
    <3> QED BY <2>1, <2>8
  <2>3. "charge" \in Pinned(call, a) => c.point = PreviousOf(call, a).point /\ c.start = PreviousOf(call, a).start
    <3> HIDE DEF fits
    <3> QED BY <2>1, <2>8
  <2>4. PICK p \in ChargeCandidates(y, call, a), s \in a.arrival .. y.horizon : c = Of(p, s)
    BY <2>2
  <2>5. c.point = p.id /\ c.start = s /\ c.minutes = ChainMinutes(ChargeSegments(y, a, p.kw))
    BY <2>4
  <2>6. p \in PointsOfKind(y, y.classes[a.cls].kinds) /\ (p.id \notin call.blocked \/ "charge" \in Pinned(call, a))
        /\ ChargeSegments(y, a, p.kw) # <<>>
    BY DEF ChargeCandidates, Usable
  <2>7. IsPlaceOf(y, call, a, c, p)
    <3>1. c.start + c.minutes <= y.horizon
      <4> HIDE DEF free
      <4> QED BY <2>2
    <3>2. c.start \in a.arrival .. y.horizon
      BY <2>4, <2>5
    <3> QED BY <2>5, <2>6, <3>1, <3>2, Zenon DEF IsPlaceOf
  <2> QED BY <1>2, <2>3, <2>7, Zenon
<1> QED BY <1>1, <1>2

(* When a stay ends, and when a vehicle is done, is a minute, and not before the charge is. *)
LEMMA StayIsTyped ==
  ASSUME NEW y, NEW a, IsAssetIn(y, a), NEW from, NEW t \in ParallelTimes(y, a, from), NEW end \in Int
  PROVE  StayEnd(y, a, end, t) \in Int /\ end <= StayEnd(y, a, end, t)
<1> DEFINE f == [op \in a.parallel |-> t[op] + y.menu[op]]
           S == {end} \cup {t[op] + y.menu[op] : op \in a.parallel}
<1>1. \A op \in a.parallel : f[op] \in Int
  <2>1. t \in [a.parallel -> from .. y.horizon]
    BY DEF ParallelTimes
  <2>2. \A op \in a.parallel : t[op] \in Int
    BY <2>1
  <2> QED BY <2>2 DEF IsAssetIn
<1>2. S = {end} \cup {f[op] : op \in a.parallel}
  OBVIOUS
<1> HIDE DEF f
<1>3. IsFiniteSet({f[op] : op \in a.parallel})
  BY ImageIsFinite DEF IsAssetIn
<1>4. IsFiniteSet({end})
  BY FS_Singleton
<1>5. IsFiniteSet(S) /\ S \subseteq Int /\ S # {} /\ end \in S
  <2>1. IsFiniteSet({end} \cup {f[op] : op \in a.parallel})
    BY <1>3, <1>4, FS_Union
  <2> QED BY <1>1, <1>2, <2>1
<1>6. StayEnd(y, a, end, t) = Max(S)
  BY DEF StayEnd
<1> HIDE DEF S
<1> QED BY <1>5, <1>6, MaxIsGreatest

(* A vehicle is finished at a whole minute. *)
LEMMA FinishIsTyped ==
  ASSUME NEW y, y.site.washMin \in Int, y.site.inspectMin \in Int, NEW stay \in Int, NEW w, NEW i,
         w # NoBay => w.start \in Int, i # NoBay => i.start \in Int
  PROVE  FinishOf(y, stay, w, i) \in Int /\ stay <= FinishOf(y, stay, w, i)
<1> DEFINE A == IF w = NoBay THEN {} ELSE {w.start + y.site.washMin}
           B == IF i = NoBay THEN {} ELSE {i.start + y.site.inspectMin}
           S == {stay} \cup A \cup B
<1>1. \A x : IsFiniteSet({x})
  BY FS_Singleton
<1>2. IsFiniteSet(A) /\ A \subseteq Int
  BY <1>1, FS_EmptySet
<1>3. IsFiniteSet(B) /\ B \subseteq Int
  <2>1. CASE i = NoBay
    <3>1. B = {}
      BY <2>1
    <3> QED BY <3>1, FS_EmptySet
  <2>2. CASE i # NoBay
    <3>1. B = {i.start + y.site.inspectMin} /\ i.start + y.site.inspectMin \in Int
      BY <2>2
    <3> HIDE DEF B
    <3> QED BY <1>1, <3>1
  <2> QED BY <2>1, <2>2
<1>4. FinishOf(y, stay, w, i) = Max(S)
  BY DEF FinishOf
<1> HIDE DEF A, B
<1>5. IsFiniteSet(S) /\ S \subseteq Int /\ S # {} /\ stay \in S
  <2>1. IsFiniteSet({stay} \cup A)
    BY <1>1, <1>2, FS_Union
  <2>2. IsFiniteSet({stay} \cup A \cup B)
    BY <2>1, <1>3, FS_Union
  <2> QED BY <1>2, <1>3, <2>2
<1> HIDE DEF S
<1> QED BY <1>4, <1>5, MaxIsGreatest

(* What an itinerary of the model is: its vehicle declined, where it may be and is not asked for, or served; *)
(* and, charged, at a point that can give the charge, within the horizon and the stay.                      *)
IsChargedAt(y, a, it, p) ==
  /\ p \in PointsOfKind(y, y.classes[a.cls].kinds) /\ p.id = it.point
  /\ ChargeSegments(y, a, p.kw) # <<>>
  /\ it.start \in Nat /\ it.chargeEnd = it.start + ChainMinutes(ChargeSegments(y, a, p.kw))
  /\ it.start < it.chargeEnd /\ it.chargeEnd \in Int /\ it.chargeEnd <= y.horizon
  /\ it.stayEnd \in Int /\ it.chargeEnd <= it.stayEnd
IsItineraryOf(y, call, a, it) ==
  /\ it.aid = a.aid /\ it.tardy \in Nat /\ it.finish \in Nat
  /\ it.served \/ (it = Declined(a) /\ call.allowRejection /\ a.aid \notin call.requireServed)
  /\ it.point # NoPoint => \E p : IsChargedAt(y, a, it, p)

(* Every itinerary of the kernel is such an itinerary. *)
LEMMA ItineraryIsTyped ==
  ASSUME NEW y, IsScenario(y), NEW call, NEW a, IsAssetIn(y, a), NEW it \in Itineraries(y, call, a)
  PROVE  IsItineraryOf(y, call, a, it)
<1>1. CASE it = Declined(a) /\ call.allowRejection /\ a.aid \notin call.requireServed
  BY <1>1 DEF Declined, IsItineraryOf
<1>2. CASE it \in ServedItineraries(y, call, a)
  <2>1. PICK c \in PlacesFor(y, call, a) : \E t \in ParallelTimes(y, a, c.start) :
         \E w \in WashVisits(y, call, a, StayEnd(y, a, c.start + c.minutes, t)) :
         \E i \in InspectVisits(y, call, a, AfterWashOf(y, StayEnd(y, a, c.start + c.minutes, t), w)) :
         \E late \in LateOf(y, call, a, FinishOf(y, StayEnd(y, a, c.start + c.minutes, t), w, i)) : it = ItineraryOf(y, a, c, t, w, i, late)
    BY <1>2, ServedForm
  <2>2. PICK t \in ParallelTimes(y, a, c.start) :
         \E w \in WashVisits(y, call, a, StayEnd(y, a, c.start + c.minutes, t)) :
         \E i \in InspectVisits(y, call, a, AfterWashOf(y, StayEnd(y, a, c.start + c.minutes, t), w)) :
         \E late \in LateOf(y, call, a, FinishOf(y, StayEnd(y, a, c.start + c.minutes, t), w, i)) : it = ItineraryOf(y, a, c, t, w, i, late)
    BY <2>1
  <2> DEFINE end == c.start + c.minutes
             stay == StayEnd(y, a, end, t)
  <2>3. PICK w \in WashVisits(y, call, a, stay) :
         \E i \in InspectVisits(y, call, a, AfterWashOf(y, stay, w)) :
         \E late \in LateOf(y, call, a, FinishOf(y, stay, w, i)) : it = ItineraryOf(y, a, c, t, w, i, late)
    BY <2>2
  <2>4. PICK i \in InspectVisits(y, call, a, AfterWashOf(y, stay, w)) :
         \E late \in LateOf(y, call, a, FinishOf(y, stay, w, i)) : it = ItineraryOf(y, a, c, t, w, i, late)
    BY <2>3
  <2>14. PICK late \in LateOf(y, call, a, FinishOf(y, stay, w, i)) : it = ItineraryOf(y, a, c, t, w, i, late)
    BY <2>4
  <2>5. /\ it.aid = a.aid /\ it.served /\ it.point = c.point /\ it.start = c.start /\ it.chargeEnd = end
        /\ it.stayEnd = stay /\ it.finish = FinishOf(y, stay, w, i) /\ it.tardy = late
    <3> HIDE DEF end, stay
    <3>1. it = [aid |-> a.aid, served |-> TRUE, point |-> c.point, start |-> c.start, chargeEnd |-> end,
                stayEnd |-> stay, parallel |-> t, wash |-> w, inspect |-> i, finish |-> FinishOf(y, stay, w, i), tardy |-> late]
      BY <2>14, Zenon DEF ItineraryOf, end, stay
    <3> QED BY <3>1
  <2>6. ASSUME NEW p, IsPlaceOf(y, call, a, c, p)
        PROVE  c.start \in Nat /\ end \in Int /\ c.start < end /\ end <= y.horizon
    <3>1. PICK n \in DOMAIN y.points : p = y.points[n]
      BY <2>6 DEF IsPlaceOf, PointsOfKind
    <3> DEFINE segs == ChargeSegments(y, a, p.kw)
    <3>2. p.kw \in Nat
      BY <3>1 DEF IsScenario, HasPoints
    <3>3. IsFiniteSet(DOMAIN segs) /\ \A k \in DOMAIN segs : segs[k].minutes \in Nat /\ 1 <= segs[k].minutes
      BY <3>2, SegmentsAreTyped DEF IsAssetIn, IsScenario
    <3>4. DOMAIN segs # {}
      BY <2>6, NoStretchNoCharge DEF IsPlaceOf
    <3> HIDE DEF segs
    <3>5. ChainMinutes(segs) \in Nat /\ 1 <= ChainMinutes(segs)
      BY <3>3, <3>4, ChainIsTyped
    <3>6. c.start \in Nat
      BY <2>6 DEF IsPlaceOf, IsAssetIn, IsScenario
    <3>7. c.minutes = ChainMinutes(segs) /\ c.start + c.minutes <= y.horizon
      BY <2>6, Zenon DEF IsPlaceOf, segs
    <3> QED BY <3>5, <3>6, <3>7
  <2>7. end \in Int
    <3>1. CASE NeedsCharge(y, call, a)
      BY <2>6, <3>1, PlaceForm
    <3>2. CASE ~NeedsCharge(y, call, a)
      <4>1. c.start = a.arrival /\ c.minutes = 0
        BY <3>2, PlaceForm
      <4> QED BY <4>1 DEF IsAssetIn
    <3> QED BY <3>1, <3>2
  <2>8. stay \in Int /\ end <= stay
    <3> HIDE DEF end
    <3> QED BY <2>7, StayIsTyped
  <2>9. (w # NoBay => w.start \in Int) /\ (i # NoBay => i.start \in Int)
    BY WashForm, InspectForm DEF IsBayOf
  <2>12. 0 <= end
    <3>1. CASE NeedsCharge(y, call, a)
      BY <2>6, <3>1, PlaceForm
    <3>2. CASE ~NeedsCharge(y, call, a)
      <4>1. c.start = a.arrival /\ c.minutes = 0
        BY <3>2, PlaceForm
      <4> QED BY <4>1 DEF IsAssetIn
    <3> QED BY <3>1, <3>2
  <2>10. FinishOf(y, stay, w, i) \in Nat
    <3> HIDE DEF stay, end
    <3>1. FinishOf(y, stay, w, i) \in Int /\ stay <= FinishOf(y, stay, w, i)
      BY <2>8, <2>9, FinishIsTyped DEF IsScenario
    <3> QED BY <2>7, <2>8, <2>12, <3>1
  <2>13. late \in Nat
    <3> DEFINE f == FinishOf(y, stay, w, i)
    <3>1. f \in Int /\ a.ready \in Int /\ late \in LateOf(y, call, a, f)
      BY <2>10, <2>14 DEF IsAssetIn
    <3> HIDE DEF f
    <3>2. LateBy(a, f) \in Nat
      BY <3>1 DEF LateBy, Most
    <3> QED BY <3>1, <3>2 DEF LateOf
  <2>11. it.point # NoPoint => \E p : IsChargedAt(y, a, it, p)
    <3> SUFFICES ASSUME it.point # NoPoint PROVE \E p : IsChargedAt(y, a, it, p)
      OBVIOUS
    <3>1. NeedsCharge(y, call, a)
      BY <2>5, PlaceForm
    <3>2. PICK p : IsPlaceOf(y, call, a, c, p)
      BY <3>1, PlaceForm
    <3>3. c.start \in Nat /\ end \in Int /\ c.start < end /\ end <= y.horizon
      BY <2>6, <3>2
    <3>4. /\ p \in PointsOfKind(y, y.classes[a.cls].kinds) /\ p.id = c.point /\ ChargeSegments(y, a, p.kw) # <<>>
          /\ c.minutes = ChainMinutes(ChargeSegments(y, a, p.kw))
      BY <3>2 DEF IsPlaceOf
    <3>5. IsChargedAt(y, a, it, p)
      BY <2>5, <2>8, <3>3, <3>4, Zenon DEF IsChargedAt
    <3> QED BY <3>5
  <2> HIDE DEF stay, end
  <2> QED BY <2>5, <2>10, <2>11, <2>13 DEF IsItineraryOf
<1> QED BY <1>1, <1>2 DEF Itineraries

-----------------------------------------------------------------------------
(* A point's name finds it. *)
LEMMA PointIsFound ==
  ASSUME NEW y, HasPoints(y), NEW n \in DOMAIN y.points
  PROVE  PointOf(y, y.points[n].id) = y.points[n]
<1> DEFINE S == {y.points[i] : i \in DOMAIN y.points}
           P(p) == p.id = y.points[n].id
<1>1. y.points[n] \in S /\ P(y.points[n])
  OBVIOUS
<1>2. \A p \in S : P(p) => p = y.points[n]
  BY DEF HasPoints
<1>3. PointOf(y, y.points[n].id) = CHOOSE p \in S : P(p)
  BY DEF PointOf
<1> HIDE DEF S, P
<1> QED BY <1>1, <1>2, <1>3

(* So the point of a charge is the one its id names. *)
LEMMA ChargedPointIsFound ==
  ASSUME NEW y, HasPoints(y), NEW a, NEW it, NEW p, IsChargedAt(y, a, it, p)
  PROVE  PointOf(y, it.point) = p /\ p.kw \in Nat /\ \E n \in DOMAIN y.points : p = y.points[n]
<1>1. PICK n \in DOMAIN y.points : p = y.points[n]
  BY DEF IsChargedAt, PointsOfKind
<1>2. it.point = y.points[n].id
  BY <1>1 DEF IsChargedAt
<1> QED BY <1>1, <1>2, PointIsFound DEF HasPoints

(* What a vehicle draws in a minute is a number. *)
LEMMA DrawIsTyped ==
  ASSUME NEW y, IsScenario(y), NEW call, NEW a, IsAssetIn(y, a), NEW it \in Itineraries(y, call, a), NEW t
  PROVE  KwOf(y, a, it, t) \in Int
<1>1. CASE it.point = NoPoint \/ t < it.start \/ t >= it.chargeEnd
  BY <1>1 DEF KwOf
<1>2. CASE ~(it.point = NoPoint \/ t < it.start \/ t >= it.chargeEnd)
  <2>1. PICK p : IsChargedAt(y, a, it, p)
    BY <1>2, ItineraryIsTyped DEF IsItineraryOf
  <2>2. PointOf(y, it.point).kw \in Nat
    BY <2>1, ChargedPointIsFound DEF IsScenario
  <2> DEFINE segs == ChargeSegments(y, a, PointOf(y, it.point).kw)
             IsOn(k) == it.start + MinutesBefore(segs, k) <= t /\ t < it.start + MinutesBefore(segs, k + 1)
             f == [k \in DOMAIN segs |-> segs[k].kw]
             S == {k \in DOMAIN segs : IsOn(k)}
  <2>3. KwOf(y, a, it, t) = SumFunctionOnSet(f, S)
    BY <1>2 DEF KwOf
  <2>4. IsFiniteSet(DOMAIN segs) /\ \A k \in DOMAIN segs : segs[k].kw \in Nat
    BY <2>2, SegmentsAreTyped DEF IsScenario, IsAssetIn
  <2> HIDE DEF segs, IsOn
  <2>5. IsFiniteSet(S) /\ \A k \in S : f[k] \in Int
    BY <2>4, FS_Subset
  <2> HIDE DEF f, S
  <2> QED BY <2>3, <2>5, SumIsInt
<1> QED BY <1>1, <1>2

(* So the figures the passes trade are numbers. *)
LEMMA FiguresAreNumbers ==
  ASSUME NEW y, IsScenario(y), NEW call, NEW p \in Plans(y, call)
  PROVE  TotalTardy(p) \in Nat /\ TotalFlow(p) \in Nat /\ PeakKw(y, p) \in Nat
<1>1. /\ DOMAIN p = 1 .. Len(y.assets) /\ Len(y.assets) \in Nat
      /\ \A i \in DOMAIN p : p[i] \in Itineraries(y, call, y.assets[i]) /\ IsAssetIn(y, y.assets[i])
  BY PlansAreJoint DEF IsPlanOf, IsScenario, HasAssets
<1>2. IsFiniteSet(DOMAIN p)
  <2>1. \A n \in Nat : IsFiniteSet(1 .. n)
    BY FS_Interval
  <2> QED BY <1>1, <2>1
<1>3. \A i \in DOMAIN p : p[i].tardy \in Nat /\ p[i].finish \in Nat
  BY <1>1, ItineraryIsTyped DEF IsItineraryOf
<1>4. ASSUME NEW f, DOMAIN f = DOMAIN p, \A i \in DOMAIN p : f[i] \in Int
      PROVE  SumFunction(f) \in Int
  <2>1. SumFunctionOnSet(f, DOMAIN f) \in Int
    BY <1>2, <1>4, SumIsInt
  <2> QED BY <2>1, Zenon DEF SumFunction
<1>9. ASSUME NEW f, DOMAIN f = DOMAIN p, \A i \in DOMAIN p : f[i] \in Nat
      PROVE  SumFunction(f) \in Nat
  <2>1. SumFunctionOnSet(f, DOMAIN f) \in Nat
    BY <1>2, <1>9, SumOfNaturals
  <2> QED BY <2>1, Zenon DEF SumFunction
<1>5. TotalTardy(p) \in Nat
  <2> DEFINE f == [i \in DOMAIN p |-> p[i].tardy]
  <2>1. DOMAIN f = DOMAIN p /\ \A i \in DOMAIN p : f[i] \in Nat
    BY <1>3
  <2>2. TotalTardy(p) = SumFunction(f)
    BY DEF TotalTardy
  <2> HIDE DEF f
  <2> QED BY <1>9, <2>1, <2>2
<1>6. TotalFlow(p) \in Nat
  <2> DEFINE f == [i \in DOMAIN p |-> p[i].finish]
  <2>1. DOMAIN f = DOMAIN p /\ \A i \in DOMAIN p : f[i] \in Nat
    BY <1>3
  <2>2. TotalFlow(p) = SumFunction(f)
    BY DEF TotalFlow
  <2> HIDE DEF f
  <2> QED BY <1>9, <2>1, <2>2
<1>7. ASSUME NEW t PROVE SiteKw(y, p, t) \in Int
  <2> DEFINE f == [i \in DOMAIN p |-> KwOf(y, y.assets[i], p[i], t)]
  <2>1. DOMAIN f = DOMAIN p /\ \A i \in DOMAIN p : f[i] \in Int
    BY <1>1, DrawIsTyped
  <2>2. SiteKw(y, p, t) = SumFunction(f)
    BY DEF SiteKw
  <2> HIDE DEF f
  <2> QED BY <1>4, <2>1, <2>2
<1>8. PeakKw(y, p) \in Nat
  <2> DEFINE H == 0 .. y.horizon - 1
             g == [t \in H |-> SiteKw(y, p, t)]
             S == {0} \cup {SiteKw(y, p, t) : t \in H}
  <2>1. S = {0} \cup {g[t] : t \in H}
    OBVIOUS
  <2>2. IsFiniteSet(H)
    <3>1. \A n \in Nat : n - 1 \in Int
      OBVIOUS
    <3>2. \A m \in Int : IsFiniteSet(0 .. m)
      BY FS_Interval
    <3> QED BY <3>1, <3>2 DEF IsScenario
  <2> HIDE DEF g
  <2>3. IsFiniteSet({g[t] : t \in H})
    BY <2>2, ImageIsFinite
  <2>4. IsFiniteSet(S)
    <3>1. IsFiniteSet({0})
      BY FS_Singleton
    <3>2. IsFiniteSet({0} \cup {g[t] : t \in H})
      BY <2>3, <3>1, FS_Union
    <3> QED BY <2>1, <3>2
  <2>5. S \subseteq Int /\ S # {} /\ 0 \in S
    BY <1>7
  <2>6. PeakKw(y, p) = Max(S)
    BY DEF PeakKw
  <2> HIDE DEF S
  <2>7. Max(S) \in S /\ \A x \in S : x <= Max(S)
    BY <2>4, <2>5, MaxIsGreatest
  <2>8. Max(S) \in Int /\ 0 <= Max(S)
    BY <2>5, <2>7
  <2> QED BY <2>6, <2>8
<1> QED BY <1>5, <1>6, <1>8

-----------------------------------------------------------------------------
(* The chain: its passes are an ordered list without repeats that begins with readiness, *)
(* and each holds what the ones before it reached.                                        *)
Modes == {"min_tardy", "min_peak", "min_flow"}
IsModeList(list) ==
  /\ list \in Seq(Modes) /\ Len(list) # 0 /\ list[1] = "min_tardy"
  /\ \A i, j \in DOMAIN list : list[i] = list[j] => i = j
Statuses == {"FEASIBLE", "OPTIMAL", "UNKNOWN", "INFEASIBLE"}
TraceSet == [mode : Modes, status : Statuses, retained : BOOLEAN, proven : BOOLEAN, reproducible : BOOLEAN]
IsPlan(y, p) == \E call : p \in Plans(y, call)

Chaining ==
  /\ IsScenario(sc) /\ Len(sc.assets) # 0 /\ IsModeList(rule.modes)
  /\ passes \in Seq(TraceSet) /\ Len(passes) <= Len(rule.modes)
  /\ DOMAIN optima = {rule.modes[i] : i \in 1 .. Len(passes)}
  /\ \A m \in DOMAIN optima : optima[m] \in Int /\ (optima[m] = Retained \/ Reached(m, plan) <= optima[m])
  /\ IF Len(passes) = 0 THEN plan = <<>> /\ floor = {} ELSE IsPlan(sc, plan)
  /\ floor \subseteq ServedIn(plan)

(* An answer with a plan is a plan of the model within the ceilings of its call. *)
LEMMA AnswersArePlans ==
  ASSUME NEW y, NEW call, NEW mode, NEW answer \in Answers(y, call, mode), answer.plan # <<>>
  PROVE  answer.plan \in Plans(y, call) /\ Meets(y, call, mode, answer.plan)
<1> DEFINE within == {p \in Plans(y, call) : Meets(y, call, mode, p)}
           price == [p \in within |-> Objective(y, call, mode, p)]
           lowest == Min({price[p] : p \in within})
           best == {q \in within : price[q] = lowest}
           none == IF within = {} THEN {[status |-> "INFEASIBLE", plan |-> <<>>]} ELSE {}
<1>1. answer \in {[status |-> "FEASIBLE", plan |-> p] : p \in within}
                   \cup {[status |-> "OPTIMAL", plan |-> p] : p \in best}
                   \cup {[status |-> "UNKNOWN", plan |-> <<>>]} \cup none
  BY DEF Answers
<1>2. best \subseteq within
  OBVIOUS
<1> HIDE DEF within, best
<1>3. answer.plan \in within
  BY <1>1, <1>2
<1> QED BY <1>3 DEF within

(* Every answer says how it ended. *)
LEMMA AnswersHaveAStatus ==
  ASSUME NEW y, NEW call, NEW mode, NEW answer \in Answers(y, call, mode)
  PROVE  answer.status \in Statuses
<1> DEFINE within == {p \in Plans(y, call) : Meets(y, call, mode, p)}
           price == [p \in within |-> Objective(y, call, mode, p)]
           lowest == Min({price[p] : p \in within})
           best == {q \in within : price[q] = lowest}
           none == IF within = {} THEN {[status |-> "INFEASIBLE", plan |-> <<>>]} ELSE {}
<1>1. answer \in {[status |-> "FEASIBLE", plan |-> p] : p \in within}
                   \cup {[status |-> "OPTIMAL", plan |-> p] : p \in best}
                   \cup {[status |-> "UNKNOWN", plan |-> <<>>]} \cup none
  BY DEF Answers
<1>2. none \subseteq {[status |-> "INFEASIBLE", plan |-> <<>>]}
  OBVIOUS
<1> HIDE DEF within, best, none
<1>3. \/ \E p \in within : answer = [status |-> "FEASIBLE", plan |-> p]
      \/ \E p \in best : answer = [status |-> "OPTIMAL", plan |-> p]
      \/ answer = [status |-> "UNKNOWN", plan |-> <<>>] \/ answer = [status |-> "INFEASIBLE", plan |-> <<>>]
  BY <1>1, <1>2
<1>4. answer.status = "FEASIBLE" \/ answer.status = "OPTIMAL" \/ answer.status = "UNKNOWN" \/ answer.status = "INFEASIBLE"
  BY <1>3
<1> QED BY <1>4 DEF Statuses

(* A list that is added to is longer by one. *)
LEMMA AppendIsLonger ==
  ASSUME NEW S, NEW list \in Seq(S), NEW e \in S
  PROVE  Append(list, e) \in Seq(S) /\ Len(Append(list, e)) = Len(list) + 1
OBVIOUS

(* Every itinerary of a plan is of the asset it stands for. *)
LEMMA PlanIsTyped ==
  ASSUME NEW y, IsScenario(y), NEW call, NEW p \in Plans(y, call)
  PROVE  /\ DOMAIN p = DOMAIN y.assets
         /\ \A i \in DOMAIN p : IsItineraryOf(y, call, y.assets[i], p[i]) /\ p[i].aid = y.assets[i].aid
<1>1. DOMAIN p = DOMAIN y.assets /\ \A i \in DOMAIN p : p[i] \in Itineraries(y, call, y.assets[i])
  BY PlansAreJoint DEF IsPlanOf, IsScenario, HasAssets
<1>2. ASSUME NEW i \in DOMAIN p PROVE IsItineraryOf(y, call, y.assets[i], p[i])
  BY <1>1, ItineraryIsTyped DEF IsScenario
<1> QED BY <1>1, <1>2 DEF IsItineraryOf

(* Who an earlier pass served cannot be declined by a call that asks for them. *)
LEMMA AskedForIsServed ==
  ASSUME NEW y, IsScenario(y), NEW call, NEW other, NEW p \in Plans(y, other), NEW q \in Plans(y, call),
         call.requireServed \subseteq ServedIn(p)
  PROVE  call.requireServed \subseteq ServedIn(q)
<1> SUFFICES ASSUME NEW v \in call.requireServed PROVE v \in ServedIn(q)
  OBVIOUS
<1>1. PICK i \in DOMAIN p : p[i].aid = v
  BY DEF ServedIn
<1>2. i \in DOMAIN y.assets /\ p[i].aid = y.assets[i].aid
  BY PlanIsTyped
<1>3. i \in DOMAIN q /\ IsItineraryOf(y, call, y.assets[i], q[i])
  BY <1>2, PlanIsTyped
<1>4. q[i].aid = v /\ q[i].served
  BY <1>1, <1>2, <1>3 DEF IsItineraryOf
<1>5. i \in DOMAIN q
  BY <1>3
<1> QED BY <1>4, <1>5 DEF ServedIn

(* A figure of a plan is a number. *)
LEMMA ReachedIsNumber ==
  ASSUME IsScenario(sc), NEW p, IsPlan(sc, p), NEW m \in Modes
  PROVE  Reached(m, p) \in Nat
BY FiguresAreNumbers DEF IsPlan, Modes, Reached

(* A plan that replaces the one in hand gives up nothing of it. *)
LEMMA NextPassHolds ==
  ASSUME Chaining, Len(passes) < Len(rule.modes), NEW found \in Plans(sc, CallOf(Mode)), Meets(sc, CallOf(Mode), Mode, found),
         NEW shipped, shipped = IF ShipsHeld(Mode, found) THEN plan ELSE found
  PROVE  /\ Mode \in Modes /\ Mode \notin DOMAIN optima /\ Mode = rule.modes[Len(passes) + 1]
         /\ IsPlan(sc, shipped) /\ shipped # <<>> /\ Reached(Mode, shipped) \in Int
         /\ \A m \in DOMAIN optima : optima[m] = Retained \/ Reached(m, shipped) <= optima[m]
         /\ floor \subseteq ServedIn(shipped)
<1> DEFINE n == Len(passes)
           call == CallOf(Mode)
<1>1. /\ n \in Nat /\ Len(rule.modes) \in Nat /\ n + 1 \in DOMAIN rule.modes /\ Mode = rule.modes[n + 1]
      /\ DOMAIN rule.modes = 1 .. Len(rule.modes)
  <2>1. passes \in Seq(TraceSet) /\ rule.modes \in Seq(Modes)
    BY DEF Chaining, IsModeList
  <2> HIDE DEF n
  <2>2. Len(passes) \in Nat /\ Len(rule.modes) \in Nat /\ DOMAIN rule.modes = 1 .. Len(rule.modes)
    BY <2>1, MembersOfSequence
  <2> QED BY <2>2 DEF Mode, n
<1>2. \A i \in 1 .. Len(rule.modes) : rule.modes[i] \in Modes
  <2>1. rule.modes \in Seq(Modes)
    BY DEF Chaining, IsModeList
  <2> QED BY <2>1, MembersOfSequence
<1>3. Mode \in Modes
  BY <1>1, <1>2
<1>4. ASSUME NEW m \in DOMAIN optima PROVE m \in Modes /\ m # Mode
  <2>1. PICK i \in 1 .. n : m = rule.modes[i]
    BY DEF Chaining
  <2>2. i \in DOMAIN rule.modes /\ i # n + 1
    BY <1>1
  <2> QED BY <1>1, <1>2, <2>1, <2>2 DEF Chaining, IsModeList
<1>5. CASE ShipsHeld(Mode, found)
  <2>1. Mode = "min_flow"
    BY <1>5 DEF ShipsHeld
  <2>2. n # 0
    <3>1. rule.modes[1] = "min_tardy"
      BY DEF Chaining, IsModeList
    <3>2. n = 0 => n + 1 = 1
      BY <1>1
    <3> HIDE DEF n
    <3> QED BY <1>1, <2>1, <3>1, <3>2
  <2>3. IsPlan(sc, plan) /\ shipped = plan
    BY <1>5, <2>2 DEF Chaining
  <2>4. Reached(Mode, shipped) \in Int
    BY <1>3, <2>3, ReachedIsNumber DEF Chaining
  <2>5. plan # <<>>
    BY <2>3, PlansAreJoint DEF IsPlan, IsPlanOf, Chaining, IsScenario, HasAssets
  <2> QED BY <1>1, <1>3, <1>4, <2>3, <2>4, <2>5 DEF Chaining
<1>6. CASE ~ShipsHeld(Mode, found)
  <2>1. shipped = found /\ IsPlan(sc, found)
    BY <1>6 DEF IsPlan
  <2>2. Reached(Mode, shipped) \in Int
    BY <1>3, <2>1, ReachedIsNumber DEF Chaining
  <2>3. found # <<>>
    BY PlansAreJoint DEF IsPlanOf, Chaining, IsScenario, HasAssets
  <2>4. /\ call.maxTardy = HeldBy("min_tardy") /\ call.maxPeak = HeldBy("min_peak") /\ call.maxFlow = HeldBy("min_flow")
        /\ call.requireServed = floor
    BY DEF CallOf, FreshCall
  <2>5. ASSUME NEW m \in DOMAIN optima PROVE optima[m] = Retained \/ Reached(m, found) <= optima[m]
    <3>1. Mode # "min_tardy"
      <4>1. PICK i \in 1 .. n : m = rule.modes[i]
        BY DEF Chaining
      <4>2. 1 \in DOMAIN rule.modes /\ 1 # n + 1
        BY <1>1, <4>1
      <4> QED BY <1>1, <4>2 DEF Chaining, IsModeList
    <3>2. HeldBy(m) = optima[m]
      BY DEF HeldBy
    <3>3. CASE Mode = "min_peak"
      <4>1. Within(TotalTardy(found), HeldBy("min_tardy")) /\ Within(TotalFlow(found), HeldBy("min_flow"))
        BY <2>4, <3>3 DEF Meets
      <4>2. m = "min_tardy" \/ m = "min_flow"
        BY <1>4, <3>3 DEF Modes
      <4> QED BY <3>2, <4>1, <4>2 DEF Within, Reached, Retained
    <3>4. CASE Mode = "min_flow"
      <4>1. Within(TotalTardy(found), HeldBy("min_tardy")) /\ Within(PeakKw(sc, found), HeldBy("min_peak"))
        BY <2>4, <3>4 DEF Meets
      <4>2. m = "min_tardy" \/ m = "min_peak"
        BY <1>4, <3>4 DEF Modes
      <4> QED BY <3>2, <4>1, <4>2 DEF Within, Reached, Retained
    <3> QED BY <1>3, <3>1, <3>3, <3>4 DEF Modes
  <2>6. floor \subseteq ServedIn(found)
    <3>1. CASE n = 0
      BY <3>1 DEF Chaining
    <3>2. CASE n # 0
      <4>1. PICK other : plan \in Plans(sc, other)
        BY <3>2 DEF Chaining, IsPlan
      <4>2. call.requireServed \subseteq ServedIn(plan)
        BY <2>4 DEF Chaining
      <4>3. IsScenario(sc) /\ found \in Plans(sc, call)
        BY DEF Chaining
      <4> HIDE DEF call
      <4>4. call.requireServed \subseteq ServedIn(found)
        BY <4>1, <4>2, <4>3, AskedForIsServed
      <4> QED BY <2>4, <4>4
    <3> QED BY <3>1, <3>2
  <2> QED BY <1>1, <1>3, <1>4, <2>1, <2>2, <2>3, <2>5, <2>6
<1> QED BY <1>5, <1>6

-----------------------------------------------------------------------------
(* A frame, a class table and options as the database, the table's rows and a caller give them: *)
(* whole numbers, identities that are not repeated and can be put in order, an inlet's power     *)
(* stated or not at all, a slack that is not negative, and a batch's size where there is one.    *)
IsList(list) == DOMAIN list = 1 .. Len(list) /\ Len(list) \in Nat
IsGivenFrame(given) ==
  /\ IsList(given.stalls) /\ IsList(given.vehicles)
  /\ \A i \in DOMAIN given.stalls : given.stalls[i].kw \in Int /\ given.stalls[i].id # NoPoint
  /\ \A i, j \in DOMAIN given.stalls : given.stalls[i].id = given.stalls[j].id => i = j
  /\ \A i \in DOMAIN given.vehicles :
       /\ given.vehicles[i].soc \in Int /\ given.vehicles[i].target \in Int /\ given.vehicles[i].id \in Int
       /\ given.vehicles[i].inletMaxKw \in {-1} \cup (Nat \ {0})
  /\ \A i, j \in DOMAIN given.vehicles : given.vehicles[i].id = given.vehicles[j].id => i = j
IsGivenTable(table) == \A code \in DOMAIN table : IsClass(table[code])
IsGivenOptions(asked) ==
  /\ asked.horizon \in Nat /\ asked.site.washMin \in Int /\ asked.site.inspectMin \in Int
  /\ asked.site.coldPenalty \in Nat /\ asked.site.dcfcCooldown \in Int
  /\ asked.site.powerCap \in Int /\ asked.slack \in Nat
  /\ asked.defaultReady \in Int /\ \A v \in DOMAIN asked.readyBy : asked.readyBy[v] \in Int
  /\ asked.regime = <<>> \/ IsModeList(asked.regime)
  /\ asked.maxAssets \in Nat \cup {-1} /\ IsList(asked.priority) /\ asked.startWithin \in Int

(* What a scenario made of them says of a frame: its points are stalls that can be taken, its assets are *)
(* vehicles that need a charge, and an asset's class is what that vehicle can draw, by a plug it has.    *)
IsUsableStall(st) == IsChargeStall(st) /\ StallIsFree(st) /\ AcceptedInlets(st) # {}
IsPlannedIn(v, given, table, asked) ==
  IsPlannable(v, asked.states) /\ AbstainReason(v, table, Points(given, asked.site)) = "none"
ClassSuits(y, v, table) ==
  /\ y.classes[UnitClass(v, table)].maxKw = EffectiveKw(v, table[v.class])
  /\ \A kind \in y.classes[UnitClass(v, table)].kinds : v.inlet \in kind[2]
PointsAreOf(y, given, site) ==
  \A n \in DOMAIN y.points : \E i \in DOMAIN given.stalls :
    y.points[n] = Point(given.stalls[i], site) /\ IsUsableStall(given.stalls[i])
IsDrawnFrom(y, given, table, asked) ==
  /\ y.horizon = asked.horizon
  /\ PointsAreOf(y, given, asked.site)
  /\ \A n \in DOMAIN y.assets : \E j \in DOMAIN given.vehicles :
       /\ y.assets[n] = Asset(given.vehicles[j], table, asked) /\ ClassSuits(y, given.vehicles[j], table)
       /\ given.vehicles[j].class \in DOMAIN table

(* Places that count are finitely many. *)
LEMMA PlacesAreFinite ==
  ASSUME NEW list, IsList(list), NEW S, S \subseteq DOMAIN list
  PROVE  S \subseteq Nat /\ IsFiniteSet(S)
<1>1. \A n \in Nat : IsFiniteSet(1 .. n) /\ 1 .. n \subseteq Nat
  BY FS_Interval
<1>2. IsFiniteSet(DOMAIN list) /\ DOMAIN list \subseteq Nat
  BY <1>1 DEF IsList
<1> QED BY <1>2, FS_Subset

(* What At takes of a list is a list: each of the places counted, once. *)
LEMMA ListPicks ==
  ASSUME NEW list, IsList(list), NEW S, S \subseteq DOMAIN list
  PROVE  /\ IsList(At(list, S)) /\ DOMAIN At(list, S) = 1 .. Cardinality(S)
         /\ \E place : IsPlacing(place, At(list, S), list, S)
<1> DEFINE N == Cardinality(S)
           picked == At(list, S)
           Values == {list[i] : i \in S}
<1>1. S \subseteq Nat /\ IsFiniteSet(S)
  BY PlacesAreFinite
<1>2. DOMAIN picked = 1 .. N /\ N \in Nat
  BY <1>1, AtPicks
<1>3. PICK place : IsPlacing(place, picked, list, S)
  BY <1>1, AtPicks
<1>4. picked = [k \in 1 .. N |-> picked[k]]
  BY DEF At
<1> HIDE DEF picked, N
<1>5. \A k \in 1 .. N : picked[k] \in Values
  BY <1>2, <1>3 DEF IsPlacing
<1> HIDE DEF Values
<1>6. picked \in Seq(Values)
  BY <1>2, <1>4, <1>5
<1>7. IsList(picked)
  BY <1>6, MembersOfSequence DEF IsList
<1> QED BY <1>2, <1>3, <1>7 DEF picked, N

(* The points are the stalls that can be taken, each once. *)
LEMMA PointsAreStalls ==
  ASSUME NEW given, IsGivenFrame(given), NEW site, site.dcfcCooldown \in Int, NEW y, y.points = Points(given, site)
  PROVE  HasPoints(y) /\ PointsAreOf(y, given, site)
<1> DEFINE S == {i \in DOMAIN given.stalls : IsUsableStall(given.stalls[i])}
           usable == At(given.stalls, S)
           N == Cardinality(S)
<1>1. Points(given, site) = [i \in DOMAIN usable |-> Point(usable[i], site)]
  BY DEF Points, IsUsableStall
<1>2. S \subseteq Nat /\ IsFiniteSet(S)
  BY PlacesAreFinite DEF IsGivenFrame
<1>3. S \subseteq DOMAIN given.stalls /\ \A i \in S : IsUsableStall(given.stalls[i])
  OBVIOUS
<1> HIDE DEF S
<1>4. DOMAIN usable = 1 .. N /\ \E place : IsPlacing(place, usable, given.stalls, S)
  BY <1>3, ListPicks DEF IsGivenFrame
<1> HIDE DEF usable, N
<1>5. PICK place : /\ \A k \in 1 .. N : place[k] \in S /\ usable[k] = given.stalls[place[k]]
                   /\ \A k, l \in 1 .. N : place[k] = place[l] => k = l
  BY <1>4 DEF IsPlacing
<1>6. DOMAIN y.points = 1 .. N /\ \A n \in 1 .. N : y.points[n] = Point(given.stalls[place[n]], site)
  BY <1>1, <1>4, <1>5
<1>7. ASSUME NEW n \in 1 .. N
      PROVE  /\ place[n] \in DOMAIN given.stalls /\ IsUsableStall(given.stalls[place[n]])
             /\ y.points[n] = Point(given.stalls[place[n]], site)
             /\ y.points[n].id = given.stalls[place[n]].id /\ y.points[n].kw = given.stalls[place[n]].kw
             /\ y.points[n].gap \in Int /\ y.points[n].kw \in Nat
  <2>1. place[n] \in S
    BY <1>5
  <2>2. given.stalls[place[n]].kw \in Int /\ given.stalls[place[n]].kw > 0
    BY <1>3, <2>1 DEF IsGivenFrame, IsUsableStall, IsChargeStall
  <2>3. y.points[n] = Point(given.stalls[place[n]], site)
    BY <1>6
  <2>4. /\ y.points[n].id = given.stalls[place[n]].id /\ y.points[n].kw = given.stalls[place[n]].kw
        /\ y.points[n].gap = (IF given.stalls[place[n]].type = "dcfc" THEN site.dcfcCooldown ELSE 0)
    BY <2>3 DEF Point
  <2> QED BY <1>3, <2>1, <2>2, <2>3, <2>4
<1>8. \A i, j \in DOMAIN y.points : y.points[i].id = y.points[j].id => i = j
  BY <1>5, <1>6, <1>7 DEF IsGivenFrame
<1>9. \A i \in DOMAIN y.points : y.points[i].kw \in Nat /\ y.points[i].gap \in Int /\ y.points[i].id # NoPoint
  BY <1>6, <1>7 DEF IsGivenFrame
<1>10. PointsAreOf(y, given, site)
  BY <1>6, <1>7 DEF PointsAreOf
<1> QED BY <1>8, <1>9, <1>10 DEF HasPoints

(* A class a vehicle is put in is what that vehicle can draw, by a plug it has, whoever the class was made for. *)
IsInlet(v, table) == v.class \in DOMAIN table /\ v.inletMaxKw \in {-1} \cup (Nat \ {0})

(* The class made for the first vehicle of its name has the kW and the plug of every other. *)
LEMMA ClassIsOfItsVehicle ==
  ASSUME NEW planned, IsList(planned), NEW table, IsGivenTable(table), NEW points,
         \A k \in DOMAIN planned : IsInlet(planned[k], table),
         NEW i \in DOMAIN planned, NEW cls, cls = Classes(planned, table, points)[UnitClass(planned[i], table)]
  PROVE  /\ IsClass(cls) /\ cls.maxKw = EffectiveKw(planned[i], table[planned[i].class])
         /\ \A kind \in cls.kinds : planned[i].inlet \in kind[2]
<1> DEFINE Unit(k) == UnitClass(planned[k], table)
           Alike(name) == {k \in DOMAIN planned : Unit(k) = name}
           Made(name) == SynthesizedClass(planned[Min(Alike(name))], table, points)
<1>1. Classes(planned, table, points) = [name \in {Unit(k) : k \in DOMAIN planned} |-> Made(name)]
  BY DEF Classes
<1>2. cls = Made(Unit(i))
  <2> HIDE DEF Made
  <2> QED BY <1>1
<1>3. PICK k \in DOMAIN planned : k = Min(Alike(Unit(i))) /\ Unit(k) = Unit(i)
  <2>1. Alike(Unit(i)) \subseteq Nat /\ Alike(Unit(i)) # {}
    <3>1. \A n \in Nat : 1 .. n \subseteq Nat
      OBVIOUS
    <3> HIDE DEF Unit
    <3> QED BY <3>1 DEF IsList
  <2>2. Min(Alike(Unit(i))) \in Alike(Unit(i))
    BY <2>1, MinIsMember
  <2> HIDE DEF Unit
  <2> QED BY <2>2
<1> DEFINE v == planned[i]
           u == planned[k]
<1>4. cls = SynthesizedClass(u, table, points)
  BY <1>2, <1>3, Zenon
<1>5. EffectiveKw(u, table[u.class]) = EffectiveKw(v, table[v.class]) /\ u.inlet = v.inlet
  <2>1. <<u.class, EffectiveKw(u, table[u.class]), u.inlet>> = <<v.class, EffectiveKw(v, table[v.class]), v.inlet>>
    BY <1>3, Zenon DEF UnitClass
  <2> DEFINE x == EffectiveKw(u, table[u.class])
             z == EffectiveKw(v, table[v.class])
  <2> HIDE DEF x, z
  <2>2. <<u.class, x, u.inlet>> = <<v.class, z, v.inlet>>
    BY <2>1 DEF x, z
  <2>3. x = z /\ u.inlet = v.inlet
    BY <2>2
  <2> QED BY <2>3 DEF x, z
<1>6. /\ cls.kwh = table[u.class].kwh /\ cls.maxKw = EffectiveKw(u, table[u.class])
      /\ cls.curve = table[u.class].curve /\ cls.kinds = CapableOf(u, table[u.class], points)
  BY <1>4 DEF SynthesizedClass
<1>7. EffectiveKw(u, table[u.class]) \in Nat
  <2>1. table[u.class].maxKw \in Nat /\ u.inletMaxKw \in {-1} \cup (Nat \ {0})
    BY DEF IsInlet, IsGivenTable, IsClass
  <2> QED BY <2>1 DEF EffectiveKw, Least
<1>8. IsClass(cls)
  <2>1. IsClass(table[u.class])
    BY DEF IsInlet, IsGivenTable
  <2> QED BY <1>6, <1>7, <2>1 DEF IsClass
<1>9. \A kind \in cls.kinds : u.inlet \in kind[2]
  BY <1>6 DEF CapableOf
<1> QED BY <1>5, <1>6, <1>8, <1>9

(* A percentage is a whole number. *)
LEMMA RoundedIsInt ==
  ASSUME NEW tenths \in Int
  PROVE  Rounded(tenths) \in Int
<1>1. tenths \div 10 \in Int
  OBVIOUS
<1> QED BY <1>1 DEF Rounded

(* What the translation makes of a frame, whatever batch of it is taken, is a scenario drawn from the frame. *)
LEMMA ScenarioIsDrawn ==
  ASSUME NEW given, IsGivenFrame(given), NEW table, IsGivenTable(table), NEW asked, IsGivenOptions(asked),
         NEW whole, whole = Scenario(given, table, asked),
         NEW S, S \subseteq DOMAIN whole.assets,
         NEW y, y = [whole EXCEPT !.assets = At(whole.assets, S)]
  PROVE  IsScenario(y) /\ IsDrawnFrom(y, given, table, asked) /\ y.assets = At(whole.assets, S)
<1> DEFINE points == Points(given, asked.site)
           P == {i \in DOMAIN given.vehicles : IsPlannedIn(given.vehicles[i], given, table, asked)}
           planned == At(given.vehicles, P)
           classes == Classes(planned, table, points)
           assets == [i \in DOMAIN planned |-> Asset(planned[i], table, asked)]
           weights == [tardiness |-> 10, onPeakKwMin |-> 0, peakExcess |-> 0, move |-> 0, churn |-> 0, rejection |-> 100000]
<1>1. whole = [site |-> asked.site, horizon |-> asked.horizon, points |-> points, classes |-> classes,
               assets |-> assets, menu |-> <<>>, weights |-> weights]
  BY DEF Scenario, IsPlannedIn
<1>2. IsList(planned) /\ \E place : IsPlacing(place, planned, given.vehicles, P)
  BY ListPicks DEF IsGivenFrame
<1> HIDE DEF planned, weights, classes, points, assets
<1>3. /\ whole.assets = assets
      /\ y.site = asked.site /\ y.horizon = asked.horizon /\ y.points = points /\ y.classes = classes
      /\ y.assets = At(assets, S)
  BY <1>1
<1>4. S \subseteq DOMAIN planned
  BY <1>3 DEF assets
<1>5. PICK place : IsPlacing(place, planned, given.vehicles, P)
  BY <1>2
<1>6. ASSUME NEW k \in DOMAIN planned
      PROVE  /\ place[k] \in DOMAIN given.vehicles /\ planned[k] = given.vehicles[place[k]]
             /\ IsInlet(planned[k], table) /\ planned[k].soc \in Int /\ planned[k].target \in Int
  <2>1. place[k] \in P /\ planned[k] = given.vehicles[place[k]]
    BY <1>5 DEF IsPlacing
  <2> DEFINE v == given.vehicles[place[k]]
  <2>2. place[k] \in DOMAIN given.vehicles /\ IsPlannedIn(v, given, table, asked)
    BY <2>1
  <2>3. v.class \in DOMAIN table
    <3>1. AbstainReason(v, table, Points(given, asked.site)) = "none"
      BY <2>2 DEF IsPlannedIn
    <3> HIDE DEF v
    <3> QED BY <3>1 DEF AbstainReason
  <2> QED BY <2>1, <2>2, <2>3 DEF IsGivenFrame, IsInlet
<1>7. IsList(assets)
  <2> DEFINE Values == {assets[i] : i \in DOMAIN planned}
  <2>1. /\ DOMAIN planned = 1 .. Len(planned) /\ Len(planned) \in Nat
        /\ assets = [i \in 1 .. Len(planned) |-> assets[i]]
        /\ \A i \in 1 .. Len(planned) : assets[i] \in Values
    BY <1>2 DEF IsList, assets
  <2> HIDE DEF Values
  <2>2. assets \in Seq(Values)
    BY <2>1
  <2> QED BY <2>2, MembersOfSequence DEF IsList
<1> DEFINE batch == At(assets, S)
<1>8. IsList(batch) /\ \E taken : IsPlacing(taken, batch, assets, S)
  <2>1. S \subseteq DOMAIN assets
    BY <1>4 DEF assets
  <2> QED BY <1>7, <2>1, ListPicks
<1> HIDE DEF batch
<1>9. PICK taken : IsPlacing(taken, batch, assets, S)
  BY <1>8
<1>10. ASSUME NEW n \in DOMAIN batch
       PROVE  /\ taken[n] \in DOMAIN planned
              /\ batch[n] = Asset(planned[taken[n]], table, asked)
  <2>1. taken[n] \in S /\ batch[n] = assets[taken[n]]
    BY <1>9 DEF IsPlacing
  <2> QED BY <1>4, <2>1 DEF assets
<1>11. y.assets = batch
  BY <1>3 DEF batch
<1>12. HasPoints(y) /\ PointsAreOf(y, given, asked.site)
  <2> DEFINE site == asked.site
  <2>1. site.dcfcCooldown \in Int /\ y.points = Points(given, site)
    BY <1>3 DEF IsGivenOptions, points
  <2> HIDE DEF site
  <2>2. HasPoints(y) /\ PointsAreOf(y, given, site)
    BY <2>1, PointsAreStalls
  <2> QED BY <2>2 DEF site
<1>13. ASSUME NEW n \in DOMAIN batch
       PROVE  /\ IsAssetIn(y, batch[n]) /\ batch[n].aid = planned[taken[n]].id
              /\ ClassSuits(y, planned[taken[n]], table)
  <2> DEFINE v == planned[taken[n]]
             cls == classes[UnitClass(v, table)]
  <2>1. taken[n] \in DOMAIN planned /\ batch[n] = Asset(v, table, asked)
    BY <1>10
  <2>2. \A k \in DOMAIN planned : IsInlet(planned[k], table)
    BY <1>6
  <2>3. /\ IsClass(cls) /\ cls.maxKw = EffectiveKw(v, table[v.class])
        /\ \A kind \in cls.kinds : v.inlet \in kind[2]
    <3>1. cls = Classes(planned, table, points)[UnitClass(planned[taken[n]], table)]
      BY DEF classes
    <3> HIDE DEF cls
    <3> QED BY <1>2, <2>1, <2>2, <3>1, ClassIsOfItsVehicle
  <2>4. v.soc \in Int /\ ResolvedTarget(v) \in Int
    BY <1>6, <2>1 DEF ResolvedTarget
  <2>5. Rounded(v.soc) \in Int /\ Rounded(ResolvedTarget(v)) \in Int
    BY <2>4, RoundedIsInt
  <2>6. ReadyBy(v, asked) \in Int
    BY DEF ReadyBy, IsGivenOptions
  <2> HIDE DEF v
  <2>7. /\ batch[n].aid = v.id /\ batch[n].cls = UnitClass(v, table) /\ batch[n].arrival = 0
        /\ batch[n].soc = Rounded(v.soc) /\ batch[n].target = Rounded(ResolvedTarget(v))
        /\ batch[n].ready = ReadyBy(v, asked) /\ batch[n].parallel = {}
    BY <2>1 DEF Asset
  <2>8. y.classes[batch[n].cls] = cls
    BY <1>3, <2>7
  <2>9. IsAssetIn(y, batch[n])
    <3>1. IsFiniteSet({})
      BY FS_EmptySet
    <3> HIDE DEF cls
    <3> QED BY <2>3, <2>5, <2>6, <2>7, <2>8, <3>1 DEF IsAssetIn
  <2>10. ClassSuits(y, v, table)
    BY <1>3, <2>3 DEF ClassSuits
  <2> QED BY <2>7, <2>9, <2>10 DEF v
<1>14. \A i, j \in DOMAIN batch : batch[i].aid = batch[j].aid => i = j
  <2> SUFFICES ASSUME NEW i \in DOMAIN batch, NEW j \in DOMAIN batch, batch[i].aid = batch[j].aid PROVE i = j
    OBVIOUS
  <2>1. planned[taken[i]].id = planned[taken[j]].id /\ taken[i] \in DOMAIN planned /\ taken[j] \in DOMAIN planned
    BY <1>10, <1>13
  <2>2. place[taken[i]] = place[taken[j]]
    BY <1>6, <2>1 DEF IsGivenFrame
  <2>3. taken[i] = taken[j]
    BY <1>5, <2>1, <2>2 DEF IsPlacing
  <2> QED BY <1>9, <2>3 DEF IsPlacing
<1>15. IsScenario(y)
  <2>1. /\ y.horizon \in Nat /\ y.site.washMin \in Int /\ y.site.inspectMin \in Int /\ y.site.coldPenalty \in Nat
    BY <1>3 DEF IsGivenOptions
  <2>2. HasAssets(y)
    BY <1>8, <1>11 DEF HasAssets, IsList
  <2>3. /\ \A i \in DOMAIN y.assets : IsAssetIn(y, y.assets[i])
        /\ \A i, j \in DOMAIN y.assets : y.assets[i].aid = y.assets[j].aid => i = j
    BY <1>11, <1>13, <1>14
  <2> QED BY <1>12, <2>1, <2>2, <2>3 DEF IsScenario
<1>16. IsDrawnFrom(y, given, table, asked)
  <2>1. ASSUME NEW n \in DOMAIN y.assets
        PROVE  \E j \in DOMAIN given.vehicles :
                 /\ y.assets[n] = Asset(given.vehicles[j], table, asked) /\ ClassSuits(y, given.vehicles[j], table)
                 /\ given.vehicles[j].class \in DOMAIN table
    <3> DEFINE j == place[taken[n]]
    <3>1. n \in DOMAIN batch
      BY <1>11
    <3>2. j \in DOMAIN given.vehicles /\ planned[taken[n]] = given.vehicles[j] /\ given.vehicles[j].class \in DOMAIN table
      BY <1>6, <1>10, <3>1 DEF IsInlet
    <3>3. y.assets[n] = Asset(given.vehicles[j], table, asked) /\ ClassSuits(y, given.vehicles[j], table)
      BY <1>10, <1>11, <1>13, <3>1, <3>2
    <3> QED BY <3>2, <3>3
  <2> QED BY <1>3, <1>12, <2>1 DEF IsDrawnFrom
<1> QED BY <1>3, <1>15, <1>16

-----------------------------------------------------------------------------
(* The invariant: while the chain runs, what it holds is a plan of the model within every ceiling *)
(* it has set, and a plan that is rolled over is a plan of the model.                              *)
IsGiven == IsGivenFrame(frame) /\ IsGivenTable(classTable) /\ IsGivenOptions(options)
Untouched == plan = <<>> /\ optima = <<>> /\ floor = {} /\ passes = <<>>
Solving == IsGiven /\ Chaining /\ IsDrawnFrom(sc, frame, classTable, options)
ChainInv ==
  /\ stage = "frame" => IsGiven /\ Untouched
  /\ stage = "solving" => Solving /\ Len(passes) < Len(rule.modes)
  /\ stage = "solved" => Solving /\ plan # <<>>
  /\ stage \in {"rolling", "carried out"} => IsScenario(sc) /\ floor = {}
  /\ NothingHeldIsLost

(* Where a call begins: with any frame, table and options, or with no frame and any scenario to roll over. *)
GivenInit ==
  /\ \/ stage = "frame" /\ IsGiven
     \/ stage = "rolling" /\ IsScenario(sc) /\ frame = <<>>
  /\ Untouched /\ rows = {} /\ clock \in Nat /\ NoPoint \notin blocked
GivenSpec == GivenInit /\ [][Next]_<<vars, clock, blocked>>

(* What is taken of a list is empty when none is taken. *)
LEMMA NoneTakenIsEmpty ==
  ASSUME NEW seq, NEW S, IsList(At(seq, S)), At(seq, S) # <<>>
  PROVE  Len(At(seq, S)) # 0
<1> SUFFICES ASSUME Len(At(seq, S)) = 0 PROVE At(seq, S) = <<>>
  OBVIOUS
<1> DEFINE picked == At(seq, S)
<1>1. picked = [k \in DOMAIN picked |-> picked[k]]
  BY DEF At
<1> HIDE DEF picked
<1>2. DOMAIN picked = {}
  BY DEF picked, IsList
<1>3. picked = [k \in {} |-> picked[k]]
  BY <1>1, <1>2
<1> QED BY <1>3 DEF picked

(* The regime's chain, or the two passes without one. *)
LEMMA RuleIsAList ==
  ASSUME IsGivenOptions(options)
  PROVE  IsModeList(RuleOf.modes)
<1>1. IsModeList(<<"min_tardy", "min_peak">>)
  BY DEF IsModeList, Modes
<1>2. RuleOf.modes = IF options.regime = <<>> THEN <<"min_tardy", "min_peak">> ELSE options.regime
  BY DEF RuleOf
<1> QED BY <1>1, <1>2 DEF IsGivenOptions

(* The frame becomes a scenario, and nothing is held yet. *)
LEMMA TranslateKeeps ==
  ASSUME ChainInv, Translate
  PROVE  ChainInv'
<1>1. IsGiven /\ Untouched /\ stage = "frame"
  BY DEF Translate, ChainInv
<1>2. /\ frame' = frame /\ classTable' = classTable /\ options' = options
      /\ plan' = <<>> /\ optima' = <<>> /\ floor' = {} /\ passes' = <<>>
  BY <1>1 DEF Translate, Untouched
<1>3. IsGiven'
  BY <1>1, <1>2 DEF IsGiven
<1>4. stage' # "chain error" => NothingHeldIsLost'
  BY <1>2 DEF NothingHeldIsLost
<1>5. CASE Refusal(frame, classTable, options) # "none"
  <2>1. stage' = "refused"
    BY <1>5 DEF Translate
  <2> QED BY <1>4, <2>1 DEF ChainInv
<1>6. CASE Refusal(frame, classTable, options) = "none"
  <2> DEFINE whole == Scenario(frame, classTable, options)
             S == {i \in DOMAIN whole.assets : InBatch(whole.assets, whole.assets[i])}
             batch == At(whole.assets, S)
  <2>1. /\ sc' = [whole EXCEPT !.assets = batch] /\ rule' = RuleOf
        /\ stage' = IF batch = <<>> THEN "answered" ELSE "solving"
    BY <1>6 DEF Translate
  <2>2. S \subseteq DOMAIN whole.assets
    OBVIOUS
  <2>3. whole = Scenario(frame, classTable, options) /\ batch = At(whole.assets, S)
    OBVIOUS
  <2> HIDE DEF whole, S, batch
  <2>4. IsGivenFrame(frame) /\ IsGivenTable(classTable) /\ IsGivenOptions(options)
    BY <1>1 DEF IsGiven
  <2>5. ASSUME NEW y, y = [whole EXCEPT !.assets = At(whole.assets, S)]
        PROVE  IsScenario(y) /\ IsDrawnFrom(y, frame, classTable, options) /\ y.assets = At(whole.assets, S)
    BY <2>2, <2>3, <2>4, <2>5, ScenarioIsDrawn
  <2>6. IsScenario(sc') /\ IsDrawnFrom(sc', frame, classTable, options) /\ sc'.assets = batch
    BY <2>1, <2>3, <2>5
  <2>7. CASE batch = <<>>
    <3>1. stage' = "answered"
      BY <2>1, <2>7
    <3> QED BY <1>4, <3>1 DEF ChainInv
  <2>8. CASE batch # <<>>
    <3>1. stage' = "solving"
      BY <2>1, <2>8
    <3>2. Len(sc'.assets) # 0
      <4>1. IsList(batch)
        BY <2>6 DEF IsScenario, HasAssets, IsList
      <4> QED BY <2>6, <2>8, <4>1, NoneTakenIsEmpty DEF batch
    <3>3. IsModeList(rule'.modes)
      BY <1>1, <2>1, RuleIsAList DEF IsGiven
    <3>4. Len(passes') = 0 /\ passes' \in Seq(TraceSet) /\ DOMAIN optima' = {}
      BY <1>2
    <3>5. rule'.modes \in Seq(Modes) /\ Len(rule'.modes) # 0
      BY <3>3 DEF IsModeList
    <3>6. Len(rule'.modes) \in Nat
      BY <3>5
    <3>7. {rule'.modes[i] : i \in 1 .. 0} = {}
      OBVIOUS
    <3>8. Chaining'
      <4>1. /\ IsScenario(sc)' /\ Len(sc.assets)' # 0 /\ IsModeList(rule.modes)'
            /\ floor' = {} /\ plan' = <<>> /\ Len(passes)' = 0 /\ (passes \in Seq(TraceSet))' /\ Len(passes)' <= Len(rule.modes)'
            /\ DOMAIN optima' = {rule'.modes[i] : i \in 1 .. Len(passes)'}
            /\ DOMAIN optima' = {}
        BY <1>2, <2>6, <3>2, <3>3, <3>4, <3>5, <3>6, <3>7
      <4> QED BY <4>1 DEF Chaining
    <3>9. Solving'
      BY <1>2, <1>3, <2>6, <3>8 DEF Solving
    <3>10. Len(passes') < Len(rule'.modes)
      BY <3>4, <3>5, <3>6
    <3> QED BY <1>4, <3>1, <3>9, <3>10 DEF ChainInv
  <2> QED BY <2>7, <2>8
<1> QED BY <1>5, <1>6

(* A pass that is answered ships a plan that holds what the passes before it reached; one that is not *)
(* keeps the plan in hand.                                                                            *)
LEMMA SolveKeeps ==
  ASSUME ChainInv, Solve
  PROVE  ChainInv'
<1> DEFINE n == Len(passes)
<1>1. /\ stage = "solving" /\ Solving /\ Len(passes) < Len(rule.modes)
      /\ sc' = sc /\ rule' = rule /\ frame' = frame /\ classTable' = classTable /\ options' = options
  BY DEF Solve, Pass, ChainInv, proposerVars
<1>2. /\ n \in Nat /\ Len(rule.modes) \in Nat /\ passes \in Seq(TraceSet)
      /\ Mode = rule.modes[n + 1] /\ DOMAIN optima = {rule.modes[i] : i \in 1 .. n}
  <2>1. passes \in Seq(TraceSet) /\ rule.modes \in Seq(Modes) /\ DOMAIN optima = {rule.modes[i] : i \in 1 .. Len(passes)}
    BY <1>1 DEF Solving, Chaining, IsModeList
  <2> QED BY <2>1 DEF Mode
<1>3. IsGiven' /\ IsDrawnFrom(sc', frame', classTable', options')
  BY <1>1 DEF Solving, IsGiven
<1>4. stage' \notin {"frame", "rolling", "carried out", "chain error"} /\ NothingHeldIsLost'
      /\ (stage' = "solving" => Chaining' /\ Len(passes') < Len(rule'.modes))
      /\ (stage' = "solved" => Chaining' /\ plan' # <<>>)
  <2>1. CASE PriceIsRefused(sc, CallOf(Mode), Mode)
    <3>1. stage' = "price refused" /\ plan' = plan /\ floor' = floor
      BY <2>1 DEF Solve, Pass
    <3>2. floor \subseteq ServedIn(plan)
      BY <1>1 DEF Solving, Chaining
    <3> QED BY <3>1, <3>2 DEF NothingHeldIsLost
  <2>2. CASE ~PriceIsRefused(sc, CallOf(Mode), Mode)
    <3>1. PICK answer \in Answers(sc, CallOf(Mode), Mode) :
            IF answer.plan = <<>> THEN PassRetains(answer) ELSE PassSolves(answer)
      BY <2>2 DEF Solve, Pass
    <3>2. ASSUME NEW retained \in {TRUE, FALSE}
          PROVE  Trace(Mode, answer.status, retained) \in TraceSet
      <4>1. Mode \in Modes
        <5>1. rule.modes \in Seq(Modes) /\ n + 1 \in 1 .. Len(rule.modes)
          BY <1>1, <1>2 DEF Solving, Chaining, IsModeList
        <5> QED BY <1>2, <5>1, MembersOfSequence
      <4>2. answer.status \in Statuses
        BY AnswersHaveAStatus
      <4>3. CASE retained = TRUE
        BY <4>1, <4>2, <4>3 DEF Trace, TraceSet
      <4>4. CASE retained = FALSE
        BY <4>1, <4>2, <4>4 DEF Trace, TraceSet
      <4> QED BY <4>3, <4>4
    <3>3. CASE answer.plan = <<>>
      <4>1. PassRetains(answer)
        BY <3>1, <3>3
      <4>2. CASE plan = <<>>
        <5>1. stage' = "no schedule" /\ plan' = <<>>
          BY <4>1, <4>2 DEF PassRetains
        <5> QED BY <5>1 DEF NothingHeldIsLost
      <4>3. CASE plan # <<>>
        <5>1. /\ stage' = "solved" /\ plan' = plan /\ floor' = floor
              /\ optima' = [m \in DOMAIN optima \cup {Mode} |-> IF m = Mode THEN Retained ELSE optima[m]]
              /\ passes' = Append(passes, Trace(Mode, answer.status, TRUE))
          BY <4>1, <4>3 DEF PassRetains
        <5>2. floor' \subseteq ServedIn(plan')
          BY <1>1, <5>1 DEF Solving, Chaining
        <5>3. Chaining'
          <6>1. passes' \in Seq(TraceSet) /\ Len(passes') = n + 1
            <7>1. Trace(Mode, answer.status, TRUE) \in TraceSet
              BY <3>2
            <7> QED BY <1>2, <5>1, <7>1, AppendIsLonger
          <6>2. DOMAIN optima' = {rule.modes[i] : i \in 1 .. n + 1}
            <7>1. DOMAIN optima' = {rule.modes[i] : i \in 1 .. n} \cup {rule.modes[n + 1]}
              BY <1>2, <5>1
            <7>2. \A i : i \in 1 .. n + 1 <=> i \in 1 .. n \/ i = n + 1
              BY <1>2
            <7> HIDE DEF n
            <7> QED BY <7>1, <7>2
          <6>3. ASSUME NEW m \in DOMAIN optima'
                PROVE  optima'[m] \in Int /\ (optima'[m] = Retained \/ Reached(m, plan)' <= optima'[m])
            <7>1. Reached(m, plan)' = Reached(m, plan)
              BY <1>1, <5>1 DEF Reached
            <7>2. CASE m = Mode
              BY <5>1, <7>2 DEF Retained
            <7>3. CASE m # Mode
              <8>1. m \in DOMAIN optima /\ optima'[m] = optima[m]
                BY <5>1, <7>3
              <8> QED BY <1>1, <7>1, <8>1 DEF Solving, Chaining
            <7> QED BY <7>2, <7>3
          <6>4. n # 0
            BY <1>1, <4>3 DEF Solving, Chaining
          <6>5. IsPlan(sc, plan)'
            <7>1. IsPlan(sc, plan)
              BY <1>1, <6>4 DEF Solving, Chaining
            <7> QED BY <1>1, <5>1, <7>1
          <6>6. IsScenario(sc)' /\ (Len(sc.assets) # 0)' /\ IsModeList(rule.modes)'
            BY <1>1 DEF Solving, Chaining
          <6>7. Len(passes)' # 0 /\ Len(passes)' <= Len(rule.modes)'
            BY <1>1, <1>2, <6>1
          <6>8. DOMAIN optima' = {rule'.modes[i] : i \in 1 .. Len(passes')}
            BY <1>1, <6>1, <6>2
          <6> QED BY <5>2, <6>1, <6>3, <6>5, <6>6, <6>7, <6>8 DEF Chaining
        <5> QED BY <4>3, <5>1, <5>2, <5>3 DEF NothingHeldIsLost
      <4> QED BY <4>2, <4>3
    <3>4. CASE answer.plan # <<>>
      <4> DEFINE found == answer.plan
                 shipped == IF ShipsHeld(Mode, found) THEN plan ELSE found
      <4>1. PassSolves(answer)
        BY <3>1, <3>4
      <4>2. found \in Plans(sc, CallOf(Mode)) /\ Meets(sc, CallOf(Mode), Mode, found)
        BY <3>4, AnswersArePlans
      <4>3. /\ plan' = shipped
            /\ optima' = [m \in DOMAIN optima \cup {Mode} |-> IF m = Mode THEN Reached(Mode, shipped) ELSE optima[m]]
            /\ floor' = (IF Mode = "min_tardy" /\ rule.holdsServed /\ rule.allowRejection THEN ServedIn(shipped) ELSE floor)
            /\ passes' = Append(passes, Trace(Mode, answer.status, FALSE))
            /\ stage' = IF Len(passes) + 1 = Len(rule.modes) THEN "solved" ELSE "solving"
        BY <4>1 DEF PassSolves
      <4>4. /\ Mode \in Modes /\ Mode \notin DOMAIN optima
            /\ IsPlan(sc, shipped) /\ shipped # <<>> /\ Reached(Mode, shipped) \in Int
            /\ \A m \in DOMAIN optima : optima[m] = Retained \/ Reached(m, shipped) <= optima[m]
            /\ floor \subseteq ServedIn(shipped)
        <5>1. Chaining
          BY <1>1 DEF Solving
        <5>2. shipped = IF ShipsHeld(Mode, found) THEN plan ELSE found
          OBVIOUS
        <5> HIDE DEF shipped, found
        <5> QED BY <1>1, <4>2, <5>1, <5>2, NextPassHolds
      <4> HIDE DEF shipped, found
      <4>5. floor' \subseteq ServedIn(plan') /\ plan' # <<>>
        BY <4>3, <4>4
      <4>6. Chaining' /\ Len(passes') = n + 1
        <5>1. passes' \in Seq(TraceSet) /\ Len(passes') = n + 1
          <6>1. Trace(Mode, answer.status, FALSE) \in TraceSet
            BY <3>2
          <6> QED BY <1>2, <4>3, <6>1, AppendIsLonger
        <5>2. DOMAIN optima' = {rule.modes[i] : i \in 1 .. n + 1}
          <6>1. DOMAIN optima' = {rule.modes[i] : i \in 1 .. n} \cup {rule.modes[n + 1]}
            BY <1>2, <4>3
          <6>2. \A i : i \in 1 .. n + 1 <=> i \in 1 .. n \/ i = n + 1
            BY <1>2
          <6> HIDE DEF n
          <6> QED BY <6>1, <6>2
        <5>3. ASSUME NEW m \in DOMAIN optima'
              PROVE  optima'[m] \in Int /\ (optima'[m] = Retained \/ Reached(m, plan)' <= optima'[m])
          <6>1. Reached(m, plan)' = Reached(m, shipped)
            BY <1>1, <4>3 DEF Reached
          <6>2. CASE m = Mode
            <7>1. optima'[m] = Reached(Mode, shipped)
              BY <4>3, <6>2
            <7> QED BY <4>4, <6>1, <6>2, <7>1
          <6>3. CASE m # Mode
            <7>1. m \in DOMAIN optima /\ optima'[m] = optima[m]
              BY <4>3, <6>3
            <7>2. optima[m] \in Int
              BY <1>1, <7>1 DEF Solving, Chaining
            <7> QED BY <4>4, <6>1, <7>1, <7>2
          <6> QED BY <6>2, <6>3
        <5>4. IsPlan(sc, plan)'
          BY <1>1, <4>3, <4>4
        <5>5. IsScenario(sc)' /\ (Len(sc.assets) # 0)' /\ IsModeList(rule.modes)'
          BY <1>1 DEF Solving, Chaining
        <5>6. Len(passes)' # 0 /\ Len(passes)' <= Len(rule.modes)'
          BY <1>1, <1>2, <5>1
        <5>7. DOMAIN optima' = {rule'.modes[i] : i \in 1 .. Len(passes')}
          BY <1>1, <5>1, <5>2
        <5> QED BY <4>5, <5>1, <5>3, <5>4, <5>5, <5>6, <5>7 DEF Chaining
      <4>7. stage' = "solving" => Len(passes') < Len(rule'.modes)
        BY <1>1, <1>2, <4>3, <4>6
      <4> QED BY <4>3, <4>5, <4>6, <4>7 DEF NothingHeldIsLost
    <3> QED BY <3>3, <3>4
  <2> QED BY <2>1, <2>2
<1> QED BY <1>3, <1>4 DEF ChainInv, Solving

(* What ships is within every ceiling, so the chain has no error to raise. *)
LEMMA ShipKeeps ==
  ASSUME ChainInv, Ship
  PROVE  ChainInv' /\ stage' = "answered"
<1>1. Solving /\ plan # <<>> /\ NothingHeldIsLost /\ plan' = plan /\ floor' = floor
  BY DEF Ship, ChainInv
<1>2. Honours
  <2>1. ASSUME NEW m \in DOMAIN optima PROVE optima[m] = Retained \/ MeasurePlan[m] <= optima[m]
    <3>1. MeasurePlan[m] = Reached(m, plan)
      BY DEF MeasurePlan
    <3> QED BY <1>1, <3>1 DEF Solving, Chaining
  <2> QED BY <2>1 DEF Honours
<1>3. stage' = "answered"
  BY <1>2 DEF Ship
<1> QED BY <1>1, <1>3 DEF ChainInv, NothingHeldIsLost

(* A re-solve ends carried out, without a schedule or refused, and never answers. *)
LEMMA RollingEnds ==
  ASSUME RollingNext
  PROVE  stage' \in {"rolling", "carried out", "no schedule", "price refused"}
<1>1. CASE Later
  BY <1>1 DEF Later
<1>2. CASE ReSolve
  <2>1. CASE PriceIsRefused(sc, RollCall, "weighted")
    BY <1>2, <2>1 DEF ReSolve
  <2>2. CASE ~PriceIsRefused(sc, RollCall, "weighted")
    <3>1. PICK answer \in Answers(sc, RollCall, "weighted") :
            IF answer.plan # <<>> THEN plan' = answer.plan /\ stage' = "carried out"
            ELSE /\ stage' = IF plan = <<>> THEN "no schedule" ELSE "carried out"
                 /\ UNCHANGED plan
      BY <1>2, <2>2 DEF ReSolve
    <3>2. CASE answer.plan # <<>>
      BY <3>1, <3>2
    <3>3. CASE answer.plan = <<>>
      BY <3>1, <3>3
    <3> QED BY <3>2, <3>3
  <2> QED BY <2>1, <2>2
<1> QED BY <1>1, <1>2 DEF RollingNext

(* A re-solve holds no floor, and leaves the scenario what it is. *)
LEMMA RollingKeeps ==
  ASSUME ChainInv, RollingNext, UNCHANGED proposerVars
  PROVE  ChainInv'
<1>1. stage \in {"rolling", "carried out"} /\ IsScenario(sc) /\ floor = {} /\ sc' = sc /\ floor' = floor
  BY DEF RollingNext, ReSolve, Later, ChainInv
<1>2. stage' \in {"rolling", "carried out", "no schedule", "price refused"}
  BY RollingEnds
<1> QED BY <1>1, <1>2 DEF ChainInv, NothingHeldIsLost

(* The invariant holds of every call. *)
LEMMA ChainStarts ==
  ASSUME GivenInit
  PROVE  ChainInv
<1>1. plan = <<>> /\ floor = {}
  BY DEF GivenInit, Untouched
<1> QED BY <1>1 DEF GivenInit, ChainInv, NothingHeldIsLost, Untouched

(* No step of the chain, of the proposer or of a rolling re-solve breaks it. *)
LEMMA ChainKeeps ==
  ASSUME ChainInv, [Next]_<<vars, clock, blocked>>
  PROVE  ChainInv'
<1>1. CASE Translate
  BY <1>1, TranslateKeeps
<1>2. CASE Solve
  BY <1>2, SolveKeeps
<1>3. CASE Ship
  BY <1>3, ShipKeeps
<1>4. CASE RollingNext /\ UNCHANGED proposerVars
  BY <1>4, RollingKeeps
<1>5. CASE UNCHANGED <<vars, clock, blocked>>
  <2>1. /\ sc' = sc /\ rule' = rule /\ plan' = plan /\ optima' = optima /\ floor' = floor /\ passes' = passes
        /\ stage' = stage /\ frame' = frame /\ classTable' = classTable /\ options' = options
    BY <1>5 DEF vars, chainVars, proposerVars
  <2>2. IsGiven' = IsGiven /\ Untouched' = Untouched /\ NothingHeldIsLost' = NothingHeldIsLost
    BY <2>1 DEF IsGiven, Untouched, NothingHeldIsLost
  <2>3. Chaining' = Chaining
    <3>1. \A m : Reached(m, plan)' = Reached(m, plan)
      BY <2>1 DEF Reached
    <3> QED BY <2>1, <3>1 DEF Chaining
  <2> QED BY <2>1, <2>2, <2>3 DEF ChainInv, Solving
<1> QED BY <1>1, <1>2, <1>3, <1>4, <1>5 DEF Next, ProposerNext

(* No pass of any call gives up what an earlier one reached, whatever the frame, the table and the options. *)
THEOREM NothingIsGivenUp == GivenSpec => []NothingHeldIsLost
<1>1. ChainInv => NothingHeldIsLost
  BY DEF ChainInv
<1> QED BY <1>1, ChainStarts, ChainKeeps, PTL DEF GivenSpec

-----------------------------------------------------------------------------
(* The yards of the run are such frames, tables, options and scenarios. *)
LEMMA TuplesAreLists ==
  /\ \A a : IsList(<<a>>) /\ DOMAIN <<a>> = {1}
  /\ \A a, b : IsList(<<a, b>>) /\ DOMAIN <<a, b>> = {1, 2}
  /\ \A a, b, c : IsList(<<a, b, c>>) /\ DOMAIN <<a, b, c>> = {1, 2, 3}
  /\ \A a, b, c, d : IsList(<<a, b, c, d>>) /\ DOMAIN <<a, b, c, d>> = {1, 2, 3, 4}
<1>1. 1 .. 1 = {1} /\ 1 .. 2 = {1, 2} /\ 1 .. 3 = {1, 2, 3} /\ 1 .. 4 = {1, 2, 3, 4}
  OBVIOUS
<1> QED BY <1>1 DEF IsList

IsStall(st) == st.kw \in Int /\ st.id # NoPoint
IsVehicle(v) == v.soc \in Int /\ v.target \in Int /\ v.id \in Int /\ v.inletMaxKw \in {-1} \cup (Nat \ {0})

(* The stalls of the run's yards, spoiled ones included, are stalls of a frame. *)
LEMMA StallsOfTheRun ==
  /\ IsStall(Fast) /\ Fast.id = "S1" /\ IsStall(Slow) /\ Slow.id = "S2"
  /\ \A st \in Spoiled : IsStall(st) /\ st.id = "S3"
<1> DEFINE fast == [id |-> "S1", type |-> "dcfc", kw |-> 100, status |-> "available", vehicle |-> Absent,
             hasFacts |-> TRUE, offerable |-> TRUE, charger |-> "C1", chargerState |-> "Available", chargerFresh |-> TRUE,
             reservationLive |-> FALSE, calendarHeldBy |-> Absent, connector |-> "MULTI", supported |-> {"CCS1", "NACS"}]
           Named(st, id) == DOMAIN st = DOMAIN fast /\ st.kw \in Int /\ st.id = id
<1>1. \A st : Verdict(st) = [st EXCEPT !.offerable = Offerable(st)]
  BY DEF Verdict
<1>2. DOMAIN fast = {"id", "type", "kw", "status", "vehicle", "hasFacts", "offerable", "charger", "chargerState",
                     "chargerFresh", "reservationLive", "calendarHeldBy", "connector", "supported"}
  OBVIOUS
<1>3. ASSUME NEW st, NEW id, Named(st, id), NEW x
      PROVE  /\ Named([st EXCEPT !.offerable = x], id) /\ Named([st EXCEPT !.type = x], id)
             /\ Named([st EXCEPT !.vehicle = x], id) /\ Named([st EXCEPT !.status = x], id)
             /\ Named([st EXCEPT !.calendarHeldBy = x], id) /\ Named([st EXCEPT !.chargerFresh = x], id)
             /\ Named([st EXCEPT !.connector = x], id) /\ Named([st EXCEPT !.hasFacts = x], id)
             /\ Named([st EXCEPT !.supported = x], id)
             /\ Named([st EXCEPT !.id = x], x)
             /\ x \in Int => Named([st EXCEPT !.kw = x], id)
  BY <1>2, <1>3
<1>4. Named(fast, "S1")
  OBVIOUS
<1> HIDE DEF fast, Named
<1>5. Named(Fast, "S1")
  <2>1. Fast = Verdict(fast)
    BY DEF Fast, fast
  <2>2. Named([fast EXCEPT !.offerable = Offerable(fast)], "S1")
    BY <1>3, <1>4
  <2> QED BY <1>1, <2>1, <2>2
<1>6. Named(Slow, "S2")
  <2> DEFINE a == [Fast EXCEPT !.id = "S2"]
             b == [a EXCEPT !.type = "l2"]
             c == [b EXCEPT !.kw = 50]
             d == [c EXCEPT !.connector = "CCS1"]
             e == [d EXCEPT !.supported = {}]
  <2>1. Slow = e
    BY DEF Slow
  <2>2. Named(b, "S2")
    BY <1>3, <1>5
  <2>3. Named(c, "S2")
    <3> HIDE DEF b
    <3>1. 50 \in Int
      OBVIOUS
    <3> QED BY <1>3, <2>2, <3>1
  <2> HIDE DEF c
  <2> QED BY <1>3, <2>1, <2>3
<1>7. Named(Third, "S3")
  <2> DEFINE a == [Slow EXCEPT !.id = "S3"]
             b == [a EXCEPT !.connector = "NACS"]
  <2>1. Third = b
    BY DEF Third
  <2> QED BY <1>3, <1>6, <2>1
<1>8. ASSUME NEW st \in Spoiled PROVE Named(st, "S3")
  <2>1. Named([Third EXCEPT !.type = "staging", !.kw = 0], "S3")
    <3> DEFINE a == [Third EXCEPT !.type = "staging"]
               b == [a EXCEPT !.kw = 0]
    <3>1. [Third EXCEPT !.type = "staging", !.kw = 0] = b
      OBVIOUS
    <3>2. Named(a, "S3")
      BY <1>3, <1>7
    <3>4. 0 \in Int
      OBVIOUS
    <3> HIDE DEF a
    <3>3. Named(b, "S3")
      BY <1>3, <3>2, <3>4
    <3> QED BY <3>1, <3>3
  <2>2. Named([Third EXCEPT !.hasFacts = FALSE, !.vehicle = "other"], "S3")
    <3> DEFINE a == [Third EXCEPT !.hasFacts = FALSE]
               b == [a EXCEPT !.vehicle = "other"]
    <3>1. [Third EXCEPT !.hasFacts = FALSE, !.vehicle = "other"] = b
      OBVIOUS
    <3> QED BY <1>3, <1>7, <3>1
  <2>3. /\ Named(Verdict([Third EXCEPT !.vehicle = "other"]), "S3")
        /\ Named(Verdict([Third EXCEPT !.status = "maintenance"]), "S3")
        /\ Named(Verdict([Third EXCEPT !.calendarHeldBy = "other"]), "S3")
        /\ Named(Verdict([Third EXCEPT !.chargerFresh = FALSE]), "S3")
        /\ Named([Third EXCEPT !.connector = Absent], "S3")
    BY <1>1, <1>3, <1>7
  <2> QED BY <2>1, <2>2, <2>3 DEF Spoiled
<1> QED BY <1>5, <1>6, <1>7, <1>8 DEF Named, IsStall, NoPoint

(* The vehicles of the run's yards, odd ones included, are vehicles of a frame. *)
LEMMA VehiclesOfTheRun ==
  /\ IsVehicle(V1) /\ V1.id = 1 /\ IsVehicle(V2) /\ V2.id = 2
  /\ \A v \in Odd \cup {V3} : IsVehicle(v) /\ v.id = 3
<1> DEFINE D == {"id", "state", "soc", "target", "class", "inlet", "inletMaxKw", "liveProposal", "overstays",
                 "holdsChargePlace", "reservedStall", "liveBooking"}
           Named(v, id) == DOMAIN v = D /\ IsVehicle(v) /\ v.id = id
<1>1. ASSUME NEW v, NEW id, Named(v, id), NEW x
      PROVE  /\ Named([v EXCEPT !.class = x], id) /\ Named([v EXCEPT !.inlet = x], id)
             /\ Named([v EXCEPT !.state = x], id) /\ Named([v EXCEPT !.holdsChargePlace = x], id)
             /\ Named([v EXCEPT !.overstays = x], id) /\ Named([v EXCEPT !.liveBooking = x], id)
             /\ Named([v EXCEPT !.liveProposal = x], id)
             /\ x \in Nat \ {0} => Named([v EXCEPT !.inletMaxKw = x], id)
  BY <1>1 DEF IsVehicle
<1>2. Named(V1, 1) /\ Named(V2, 2) /\ Named(V3, 3)
  BY DEF V1, V2, V3, Vehicle, IsVehicle
<1> HIDE DEF Named, D
<1>3. -1 \in Int /\ 50 \in Nat \ {0}
  OBVIOUS
<1>11. ASSUME NEW v, NEW id, Named(v, id), NEW x \in Int
       PROVE  Named([v EXCEPT !.soc = x], id) /\ Named([v EXCEPT !.target = x], id)
  BY <1>11 DEF IsVehicle, Named, D
<1>4. Named([V3 EXCEPT !.soc = -1], 3)
  BY <1>2, <1>3, <1>11
<1>5. Named([V3 EXCEPT !.soc = 895, !.target = 900], 3)
  BY DEF V3, Vehicle, IsVehicle, Named, D
<1>6. Named([V3 EXCEPT !.inletMaxKw = 50], 3)
  BY <1>1, <1>2, <1>3
<1>7. Named([V3 EXCEPT !.holdsChargePlace = "no", !.overstays = "yes"], 3)
  <2> DEFINE a == [V3 EXCEPT !.holdsChargePlace = "no"]
  <2>1. [V3 EXCEPT !.holdsChargePlace = "no", !.overstays = "yes"] = [a EXCEPT !.overstays = "yes"]
    OBVIOUS
  <2> QED BY <1>1, <1>2, <2>1
<1>8. Named([V3 EXCEPT !.holdsChargePlace = "no", !.liveBooking = "yes"], 3)
  <2> DEFINE a == [V3 EXCEPT !.holdsChargePlace = "no"]
  <2>1. [V3 EXCEPT !.holdsChargePlace = "no", !.liveBooking = "yes"] = [a EXCEPT !.liveBooking = "yes"]
    OBVIOUS
  <2> QED BY <1>1, <1>2, <2>1
<1>9. /\ Named([V3 EXCEPT !.class = "unknown"], 3) /\ Named([V3 EXCEPT !.inlet = "PAD"], 3)
      /\ Named([V3 EXCEPT !.state = "staged_for_departure"], 3) /\ Named([V3 EXCEPT !.liveProposal = "yes"], 3)
  BY <1>1, <1>2
<1>10. \A v \in Odd : Named(v, 3)
  BY <1>4, <1>5, <1>6, <1>7, <1>8, <1>9 DEF Odd
<1> QED BY <1>2, <1>10 DEF Named

(* So every frame of the run is one the theorems are about. *)
LEMMA FramesOfTheRun == \A given \in Frames : IsGivenFrame(given)
<1> DEFINE Sound(given) ==
             /\ IsList(given.stalls) /\ IsList(given.vehicles)
             /\ \A i \in DOMAIN given.stalls : IsStall(given.stalls[i])
             /\ \A i \in DOMAIN given.vehicles : IsVehicle(given.vehicles[i])
             /\ \A i, j \in DOMAIN given.stalls : given.stalls[i].id = given.stalls[j].id => i = j
             /\ \A i, j \in DOMAIN given.vehicles : given.vehicles[i].id = given.vehicles[j].id => i = j
<1>1. \A given : Sound(given) => IsGivenFrame(given)
  BY DEF IsGivenFrame, IsStall, IsVehicle
<1>7. IsVehicle(V3) /\ V3.id = 3
  BY VehiclesOfTheRun
<1>2. Sound([stalls |-> <<Fast, Slow>>, vehicles |-> <<V1, V2>>])
  BY TuplesAreLists, StallsOfTheRun, VehiclesOfTheRun
<1>3. \A v \in Odd \cup {V3} : Sound([stalls |-> <<Fast>>, vehicles |-> <<V1, v>>])
  BY TuplesAreLists, StallsOfTheRun, VehiclesOfTheRun
<1>4. ASSUME NEW st \in Spoiled PROVE Sound([stalls |-> <<st>>, vehicles |-> <<V3>>])
  <2>1. IsStall(st) /\ IsList(<<st>>) /\ DOMAIN <<st>> = {1} /\ IsList(<<V3>>) /\ DOMAIN <<V3>> = {1}
    BY StallsOfTheRun, TuplesAreLists
  <2> QED BY <1>7, <2>1
<1>5. \A st \in Spoiled : Sound([stalls |-> <<st, Fast>>, vehicles |-> <<V2>>])
  BY TuplesAreLists, StallsOfTheRun, VehiclesOfTheRun
<1>6. Sound([stalls |-> <<Fast, Slow>>, vehicles |-> <<V1, V2, V3>>])
  BY TuplesAreLists, StallsOfTheRun, VehiclesOfTheRun
<1> HIDE DEF Sound
<1> QED BY <1>1, <1>2, <1>3, <1>4, <1>5, <1>6 DEF Frames

(* So is every class table of the run. *)
LEMMA TablesOfTheRun == \A given \in Tables : IsGivenTable(ClassTableFromRows(given))
<1> DEFINE Steps == [above : Int, accept : 0 .. 100]
           curve == <<[above |-> 0, accept |-> 100], [above |-> 75, accept |-> 50]>>
           IsRow(row) == row.kwh = 4 /\ row.maxKw = 100 /\ row.curve = curve
<1>1. curve \in Seq(Steps) /\ FlatCurve \in Seq(Steps)
  BY DEF FlatCurve
<1>2. \A code, kinds : IsRow(Row(code, kinds))
  BY DEF Row
<1>3. \A given \in Tables : \A i \in DOMAIN given : IsRow(given[i])
  <2> HIDE DEF IsRow
  <2>1. \A a : DOMAIN <<a>> = {1}
    BY TuplesAreLists
  <2>2. \A a, b : DOMAIN <<a, b>> = {1, 2}
    BY TuplesAreLists
  <2> QED BY <1>2, <2>1, <2>2 DEF Tables
<1>4. ASSUME NEW given \in Tables, NEW code \in DOMAIN ClassTableFromRows(given)
      PROVE  IsClass(ClassTableFromRows(given)[code])
  <2> DEFINE row == CHOOSE r \in Elements(given) : r.code = code
             cls == [kwh |-> row.kwh, maxKw |-> row.maxKw, kinds |-> row.kinds,
                     curve |-> IF row.curve = <<>> THEN FlatCurve ELSE row.curve]
  <2>1. code \in {given[i].code : i \in DOMAIN given} /\ ClassTableFromRows(given)[code] = cls
    BY <1>4 DEF ClassTableFromRows
  <2>2. \E r \in Elements(given) : r.code = code
    BY <2>1 DEF Elements
  <2>3. row \in Elements(given)
    BY <2>2
  <2> HIDE DEF row
  <2>4. IsRow(row)
    BY <1>3, <2>3 DEF Elements
  <2>5. cls.kwh = 4 /\ cls.maxKw = 100 /\ cls.curve \in Seq(Steps)
    <3> HIDE DEF curve, Steps
    <3> QED BY <1>1, <2>4
  <2> HIDE DEF cls
  <2> QED BY <2>1, <2>5 DEF IsClass
<1> QED BY <1>4 DEF IsGivenTable

(* So are the options of its callers. *)
LEMMA OptionsOfTheRun == \A asked \in Options : IsGivenOptions(asked)
<1>1. \A r \in Regimes : r = <<>> \/ IsModeList(r)
  <2>1. IsModeList(<<"min_tardy", "min_flow", "min_peak">>) /\ IsModeList(<<"min_tardy", "min_peak", "min_flow">>)
    BY DEF IsModeList, Modes
  <2> QED BY <2>1 DEF Regimes
<1>2. ASSUME NEW regime, regime = <<>> \/ IsModeList(regime), NEW rejection \in BOOLEAN, NEW most \in {-1, 1}, NEW queue, IsList(queue)
      PROVE  IsGivenOptions(Option(regime, rejection, most, queue))
  <2> DEFINE asked == Option(regime, rejection, most, queue)
  <2>1. /\ asked.horizon = 5 /\ asked.site = Site /\ asked.defaultReady = 3 /\ asked.regime = regime
        /\ asked.readyBy = [v \in {1} |-> 2] /\ asked.maxAssets = most /\ asked.priority = queue /\ asked.startWithin = 1
        /\ asked.slack = IF rejection THEN 0 ELSE 1
    BY DEF Option
  <2>2. Site.washMin = 1 /\ Site.inspectMin = 1 /\ Site.coldPenalty = 1 /\ Site.dcfcCooldown = 1 /\ Site.powerCap = 120
    BY DEF Site
  <2>3. \A v \in DOMAIN asked.readyBy : asked.readyBy[v] \in Int
    BY <2>1
  <2> HIDE DEF asked
  <2>4. IsGivenOptions(asked)
    BY <1>2, <2>1, <2>2, <2>3 DEF IsGivenOptions
  <2> QED BY <2>4 DEF asked
<1>6. IsList(<<>>) /\ IsList(<<2, 1>>) /\ IsList(<<3>>)
  BY TuplesAreLists DEF IsList
<1>3. \A r \in Regimes : \A rej \in BOOLEAN : IsGivenOptions(Option(r, rej, -1, <<>>))
  BY <1>1, <1>2, <1>6
<1>4. /\ \A rejection \in BOOLEAN : IsGivenOptions(Option(<<>>, rejection, 1, <<>>)) /\ IsGivenOptions(Option(<<>>, rejection, 1, <<2, 1>>))
      /\ \A rejection \in BOOLEAN : IsGivenOptions(Option(<<>>, rejection, -1, <<3>>))
  BY <1>2, <1>6
<1>5. ASSUME NEW asked \in Options PROVE IsGivenOptions(asked)
  <2> DEFINE Open == {Option(r, rej, -1, <<>>) : r \in Regimes, rej \in BOOLEAN}
  <2>1. CASE asked \in Open
    BY <1>3, <2>1
  <2>2. CASE asked = Option(<<>>, FALSE, 1, <<>>)
    BY <1>4, <2>2, Zenon
  <2>3. CASE asked = Option(<<>>, FALSE, 1, <<2, 1>>)
    BY <1>4, <2>3, Zenon
  <2>4. CASE asked = Option(<<>>, TRUE, -1, <<3>>)
    BY <1>4, <2>4, Zenon
  <2>5. Options = Open \cup {Option(<<>>, FALSE, 1, <<>>), Option(<<>>, FALSE, 1, <<2, 1>>), Option(<<>>, TRUE, -1, <<3>>)}
    BY DEF Options
  <2> HIDE DEF Open
  <2> QED BY <2>1, <2>2, <2>3, <2>4, <2>5
<1> QED BY <1>5

(* And the yard that is rolled over is a scenario, at any price of rejection. *)
LEMMA YardOfTheRun == \A price : IsScenario(RollYard(price))
<1> SUFFICES ASSUME NEW price PROVE IsScenario(RollYard(price))
  OBVIOUS
<1> DEFINE y == RollYard(price)
           one == [id |-> "S1", kind |-> "dcfc", kw |-> 100, gap |-> 1]
           two == [id |-> "S2", kind |-> "l2", kw |-> 50, gap |-> 0]
           wash == Bay("W1", "wash_bay", 1)
           service == Bay("B1", "service_bay", 0)
           first == Car(1, TRUE, FALSE, {})
           second == Car(2, FALSE, TRUE, {"tidy"})
           cls == [kwh |-> 4, maxKw |-> 100, curve |-> FlatCurve, kinds |-> {"dcfc", "l2"}]
<1>1. /\ y.site = RollSite /\ y.horizon = 6 /\ y.menu = [tidy |-> 1] /\ y.points = <<one, two, wash, service>>
      /\ y.classes = [van |-> cls] /\ y.assets = <<first, second>>
  BY DEF RollYard
<1>2. RollSite.washMin = 1 /\ RollSite.inspectMin = 1 /\ RollSite.coldPenalty = 1
  BY DEF RollSite, Site
<1>3. HasPoints(y)
  <2>1. /\ one.kw \in Nat /\ one.gap \in Int /\ one.id = "S1" /\ two.kw \in Nat /\ two.gap \in Int /\ two.id = "S2"
        /\ wash.kw \in Nat /\ wash.gap \in Int /\ wash.id = "W1" /\ service.kw \in Nat /\ service.gap \in Int /\ service.id = "B1"
    BY DEF Bay
  <2> HIDE DEF one, two, wash, service, y
  <2>2. DOMAIN y.points = {1, 2, 3, 4}
    BY <1>1, TuplesAreLists
  <2> QED BY <1>1, <2>1, <2>2 DEF HasPoints, NoPoint
<1>4. IsClass(cls)
  BY DEF IsClass, FlatCurve
<1>5. /\ first.aid = 1 /\ first.cls = "van" /\ first.arrival = 0 /\ first.soc = 50 /\ first.target = 100 /\ first.ready = 3
      /\ first.parallel = {}
      /\ second.aid = 2 /\ second.cls = "van" /\ second.arrival = 0 /\ second.soc = 50 /\ second.target = 100 /\ second.ready = 3
      /\ second.parallel = {"tidy"}
  BY DEF Car
<1>6. IsFiniteSet({}) /\ IsFiniteSet({"tidy"})
  BY FS_EmptySet, FS_Singleton
<1> HIDE DEF one, two, wash, service, first, second, cls
<1>7. y.classes["van"] = cls /\ y.menu["tidy"] = 1
  BY <1>1
<1> HIDE DEF y
<1>8. IsAssetIn(y, first) /\ IsAssetIn(y, second)
  BY <1>4, <1>5, <1>6, <1>7 DEF IsAssetIn
<1>9. DOMAIN y.assets = {1, 2} /\ IsList(y.assets) /\ y.assets[1] = first /\ y.assets[2] = second
  BY <1>1, TuplesAreLists
<1>10. HasAssets(y)
  BY <1>9 DEF HasAssets, IsList
<1> QED BY <1>1, <1>2, <1>3, <1>5, <1>8, <1>9, <1>10 DEF IsScenario, y

(* So the run starts where a call may. *)
LEMMA RunIsGiven ==
  ASSUME Init
  PROVE  GivenInit
<1>1. Untouched /\ rows = {} /\ clock \in Nat /\ NoPoint \notin blocked
  BY DEF Init, Untouched
<1>2. CASE frame \in Frames /\ options \in Options /\ stage = "frame" /\ \E given \in Tables : classTable = ClassTableFromRows(given)
  <2>1. IsGivenFrame(frame) /\ IsGivenOptions(options)
    BY <1>2, FramesOfTheRun, OptionsOfTheRun
  <2>2. IsGivenTable(classTable)
    BY <1>2, TablesOfTheRun
  <2> QED BY <1>1, <1>2, <2>1, <2>2 DEF GivenInit, IsGiven
<1>3. CASE stage = "rolling" /\ frame = <<>> /\ sc \in {RollYard(100000), RollYard(50)}
  BY <1>1, <1>3, YardOfTheRun DEF GivenInit
<1> QED BY <1>2, <1>3 DEF Init

(* No pass of any call gives up what an earlier one reached, and the run's calls are such calls. *)
THEOREM NothingIsGivenUpInTheRun == Spec => []NothingHeldIsLost
<1>1. Init => GivenInit
  BY RunIsGiven
<1> QED BY <1>1, NothingIsGivenUp, PTL DEF Spec, GivenSpec

-----------------------------------------------------------------------------
(* The work of an itinerary: a charge at a candidate and visits to bays, in service or pinned; *)
(* pinned, where and when it was.                                                               *)
IsWorkOf(y, call, a, it) ==
  /\ it.point # NoPoint => \E p \in ChargeCandidates(y, call, a) : p.id = it.point
  /\ NeedsCharge(y, call, a) /\ "charge" \in Pinned(call, a) =>
       it.point = PreviousOf(call, a).point /\ it.start = PreviousOf(call, a).start
  /\ it.wash # NoBay => a.needsWash /\ IsBayOf(y, call, a, "wash", "wash_bay", it.wash)
  /\ a.needsWash /\ "wash" \in Pinned(call, a) =>
       it.wash.point = PreviousOf(call, a).wash.point /\ it.wash.start = PreviousOf(call, a).wash.start
  /\ it.inspect # NoBay => IsBayOf(y, call, a, "inspect", "service_bay", it.inspect)

(* That is what the work of a vehicle that is served is. *)
LEMMA ServedWork ==
  ASSUME NEW y, NEW call, NEW a, NEW it \in ServedItineraries(y, call, a)
  PROVE  IsWorkOf(y, call, a, it)
<1>1. PICK c \in PlacesFor(y, call, a) : \E t \in ParallelTimes(y, a, c.start) :
       \E w \in WashVisits(y, call, a, StayEnd(y, a, c.start + c.minutes, t)) :
       \E i \in InspectVisits(y, call, a, AfterWashOf(y, StayEnd(y, a, c.start + c.minutes, t), w)) :
       \E late \in LateOf(y, call, a, FinishOf(y, StayEnd(y, a, c.start + c.minutes, t), w, i)) : it = ItineraryOf(y, a, c, t, w, i, late)
  BY ServedForm
<1>2. PICK t \in ParallelTimes(y, a, c.start) :
       \E w \in WashVisits(y, call, a, StayEnd(y, a, c.start + c.minutes, t)) :
       \E i \in InspectVisits(y, call, a, AfterWashOf(y, StayEnd(y, a, c.start + c.minutes, t), w)) :
       \E late \in LateOf(y, call, a, FinishOf(y, StayEnd(y, a, c.start + c.minutes, t), w, i)) : it = ItineraryOf(y, a, c, t, w, i, late)
  BY <1>1
<1> DEFINE stay == StayEnd(y, a, c.start + c.minutes, t)
<1>3. PICK w \in WashVisits(y, call, a, stay) :
       \E i \in InspectVisits(y, call, a, AfterWashOf(y, stay, w)) :
       \E late \in LateOf(y, call, a, FinishOf(y, stay, w, i)) : it = ItineraryOf(y, a, c, t, w, i, late)
  BY <1>2
<1>4. PICK i \in InspectVisits(y, call, a, AfterWashOf(y, stay, w)) :
       \E late \in LateOf(y, call, a, FinishOf(y, stay, w, i)) : it = ItineraryOf(y, a, c, t, w, i, late)
  BY <1>3
<1>11. PICK late \in LateOf(y, call, a, FinishOf(y, stay, w, i)) : it = ItineraryOf(y, a, c, t, w, i, late)
  BY <1>4
<1>5. it.point = c.point /\ it.start = c.start /\ it.wash = w /\ it.inspect = i
  <2> DEFINE end == c.start + c.minutes
             f == FinishOf(y, stay, w, i)
  <2>1. it = [aid |-> a.aid, served |-> TRUE, point |-> c.point, start |-> c.start, chargeEnd |-> end,
              stayEnd |-> stay, parallel |-> t, wash |-> w, inspect |-> i, finish |-> f, tardy |-> late]
    BY <1>11, Zenon DEF ItineraryOf
  <2> HIDE DEF stay, end, f
  <2> QED BY <2>1
<1>6. it.point # NoPoint => \E p \in ChargeCandidates(y, call, a) : p.id = it.point
  <2> SUFFICES ASSUME it.point # NoPoint PROVE \E p \in ChargeCandidates(y, call, a) : p.id = it.point
    OBVIOUS
  <2>1. NeedsCharge(y, call, a)
    BY <1>5, PlaceForm
  <2>2. PICK p : IsPlaceOf(y, call, a, c, p)
    BY <2>1, PlaceForm
  <2>3. p \in ChargeCandidates(y, call, a) /\ p.id = it.point
    BY <1>5, <2>2 DEF IsPlaceOf, ChargeCandidates, Usable
  <2> QED BY <2>3
<1>7. NeedsCharge(y, call, a) /\ "charge" \in Pinned(call, a) =>
        it.point = PreviousOf(call, a).point /\ it.start = PreviousOf(call, a).start
  BY <1>5, PlaceForm
<1>8. it.wash # NoBay => a.needsWash /\ IsBayOf(y, call, a, "wash", "wash_bay", it.wash)
  BY <1>5, WashForm
<1>9. a.needsWash /\ "wash" \in Pinned(call, a) =>
        it.wash.point = PreviousOf(call, a).wash.point /\ it.wash.start = PreviousOf(call, a).wash.start
  BY <1>5, WashForm
<1>10. it.inspect # NoBay => IsBayOf(y, call, a, "inspect", "service_bay", it.inspect)
  BY <1>5, InspectForm
<1> QED BY <1>6, <1>7, <1>8, <1>9, <1>10 DEF IsWorkOf

(* A vehicle of the plan in hand is found in it by its name. *)
LEMMA EarlierIsFound ==
  ASSUME NEW y, IsScenario(y), NEW old, NEW p \in Plans(y, old), NEW call, call.previous = p, NEW i \in DOMAIN p
  PROVE  /\ PreviousOf(call, y.assets[i]) = p[i]
         /\ "charge" \in Pinned(call, y.assets[i]) <=> p[i].point # NoPoint /\ p[i].start < call.tNow
         /\ "wash" \in Pinned(call, y.assets[i]) <=> p[i].wash # NoBay /\ p[i].wash.start < call.tNow
         /\ "inspect" \in Pinned(call, y.assets[i]) <=> p[i].inspect # NoBay /\ p[i].inspect.start < call.tNow
<1> DEFINE a == y.assets[i]
           P(k) == p[k].aid = a.aid
<1>1. DOMAIN p = DOMAIN y.assets /\ \A k \in DOMAIN p : p[k].aid = y.assets[k].aid
  BY PlanIsTyped
<1>2. i \in DOMAIN p /\ P(i) /\ \A k \in DOMAIN p : P(k) => k = i
  BY <1>1 DEF IsScenario
<1> HIDE DEF P
<1>3. (CHOOSE k \in DOMAIN p : P(k)) = i
  BY <1>2
<1> USE DEF P
<1>4. PreviousOf(call, a) = p[i]
  BY <1>3 DEF PreviousOf
<1>5. p # <<>>
  <2>1. DOMAIN <<>> = {}
    OBVIOUS
  <2> QED BY <2>1
<1>6. Pinned(call, a) = (IF p[i].point # NoPoint /\ p[i].start < call.tNow THEN {"charge"} ELSE {})
                        \cup (IF p[i].wash # NoBay /\ p[i].wash.start < call.tNow THEN {"wash"} ELSE {})
                        \cup (IF p[i].inspect # NoBay /\ p[i].inspect.start < call.tNow THEN {"inspect"} ELSE {})
  BY <1>3, <1>5 DEF Pinned, PinnedWork
<1> QED BY <1>4, <1>6

(* So a plan made again keeps what had begun, and what it sends to a point that is out had begun there. *)
KeepsWord(p, q, i, t, out) ==
  /\ \A op \in {"charge", "wash"} : StartedBy(p[i], op, t) => PlaceOf(q[i], op) = PlaceOf(p[i], op)
  /\ \A op \in {"charge", "wash", "inspect"} : PlaceOf(q[i], op)[1] \in out => StartedBy(p[i], op, t)

(* Every plan the kernel makes again keeps that word. *)
LEMMA PlanMadeAgain ==
  ASSUME NEW y, IsScenario(y), NEW old, NEW p \in Plans(y, old),
         NEW call, call.previous = p, NoPoint \notin call.blocked, NEW q \in Plans(y, call), NEW i \in DOMAIN p
  PROVE  KeepsWord(p, q, i, call.tNow, call.blocked)
<1> DEFINE a == y.assets[i]
           t == call.tNow
<1>1. i \in DOMAIN q /\ p[i] \in Itineraries(y, old, a) /\ q[i] \in Itineraries(y, call, a)
  BY PlansAreJoint DEF IsPlanOf, IsScenario
<1>2. /\ PreviousOf(call, a) = p[i]
      /\ "charge" \in Pinned(call, a) <=> p[i].point # NoPoint /\ p[i].start < t
      /\ "wash" \in Pinned(call, a) <=> p[i].wash # NoBay /\ p[i].wash.start < t
      /\ "inspect" \in Pinned(call, a) <=> p[i].inspect # NoBay /\ p[i].inspect.start < t
  BY EarlierIsFound
<1>3. /\ p[i].point # NoPoint => \E place \in ChargeCandidates(y, old, a) : place.id = p[i].point
      /\ p[i].wash # NoBay => a.needsWash /\ p[i].wash.point # NoPoint
      /\ p[i].inspect # NoBay => p[i].inspect.point # NoPoint
  <2>1. CASE p[i] \in ServedItineraries(y, old, a)
    <3>1. IsWorkOf(y, old, a, p[i])
      BY <2>1, ServedWork
    <3>2. \A op, kind, b : IsBayOf(y, old, a, op, kind, b) => b.point # NoPoint
      BY DEF IsBayOf, PointsOfKind, IsScenario, HasPoints
    <3> QED BY <3>1, <3>2 DEF IsWorkOf
  <2>2. CASE p[i] = Declined(a)
    BY <2>2 DEF Declined
  <2> QED BY <1>1, <2>1, <2>2 DEF Itineraries
<1>4. \A it : /\ PlaceOf(it, "charge") = <<it.point, it.start>>
              /\ PlaceOf(it, "wash") = <<it.wash.point, it.wash.start>>
              /\ PlaceOf(it, "inspect") = <<it.inspect.point, it.inspect.start>>
  BY DEF PlaceOf
<1>10. \A it : /\ PlaceOf(it, "charge")[1] = it.point /\ PlaceOf(it, "charge")[2] = it.start
               /\ PlaceOf(it, "wash")[1] = it.wash.point /\ PlaceOf(it, "wash")[2] = it.wash.start
               /\ PlaceOf(it, "inspect")[1] = it.inspect.point /\ PlaceOf(it, "inspect")[2] = it.inspect.start
  BY DEF PlaceOf
<1>5. /\ StartedBy(p[i], "charge", t) <=> p[i].point # NoPoint /\ p[i].start < t
      /\ StartedBy(p[i], "wash", t) <=> p[i].wash.point # NoPoint /\ p[i].wash.start < t
      /\ StartedBy(p[i], "inspect", t) <=> p[i].inspect.point # NoPoint /\ p[i].inspect.start < t
  BY <1>10 DEF StartedBy
<1>6. NoBay.point = NoPoint
  BY DEF NoBay, NoPoint
<1>7. /\ StartedBy(p[i], "charge", t) <=> "charge" \in Pinned(call, a)
      /\ StartedBy(p[i], "wash", t) <=> "wash" \in Pinned(call, a)
      /\ StartedBy(p[i], "inspect", t) <=> "inspect" \in Pinned(call, a)
  BY <1>2, <1>3, <1>5, <1>6
<1>8. CASE q[i] \in ServedItineraries(y, call, a)
  <2>1. IsWorkOf(y, call, a, q[i])
    BY <1>8, ServedWork
  <2>2. "charge" \in Pinned(call, a) => NeedsCharge(y, call, a)
    <3> SUFFICES ASSUME "charge" \in Pinned(call, a) PROVE NeedsCharge(y, call, a)
      OBVIOUS
    <3>1. PICK place \in ChargeCandidates(y, old, a) : place.id = p[i].point
      BY <1>2, <1>3
    <3>2. place \in ChargeCandidates(y, call, a)
      BY DEF ChargeCandidates, Usable
    <3> QED BY <3>2 DEF NeedsCharge
  <2>3. "wash" \in Pinned(call, a) => a.needsWash
    BY <1>2, <1>3
  <2>4. ASSUME NEW op \in {"charge", "wash"}, StartedBy(p[i], op, t) PROVE PlaceOf(q[i], op) = PlaceOf(p[i], op)
    <3>1. CASE op = "charge"
      <4>1. "charge" \in Pinned(call, a)
        BY <1>7, <2>4, <3>1
      <4>2. q[i].point = p[i].point /\ q[i].start = p[i].start
        BY <1>2, <2>1, <2>2, <4>1 DEF IsWorkOf
      <4>3. PlaceOf(q[i], "charge") = PlaceOf(p[i], "charge")
        BY <1>4, <4>2
      <4> QED BY <3>1, <4>3
    <3>2. CASE op = "wash"
      <4>1. "wash" \in Pinned(call, a)
        BY <1>7, <2>4, <3>2
      <4>2. q[i].wash.point = p[i].wash.point /\ q[i].wash.start = p[i].wash.start
        BY <1>2, <2>1, <2>3, <4>1 DEF IsWorkOf
      <4>3. PlaceOf(q[i], "wash") = PlaceOf(p[i], "wash")
        BY <1>4, <4>2
      <4> QED BY <3>2, <4>3
    <3> QED BY <3>1, <3>2
  <2>5. q[i].point \in call.blocked => "charge" \in Pinned(call, a)
    BY <2>1 DEF IsWorkOf, ChargeCandidates, Usable
  <2>6. q[i].wash.point \in call.blocked => "wash" \in Pinned(call, a)
    BY <1>6, <2>1 DEF IsWorkOf, IsBayOf
  <2>7. q[i].inspect.point \in call.blocked => "inspect" \in Pinned(call, a)
    BY <1>6, <2>1 DEF IsWorkOf, IsBayOf
  <2>8. ASSUME NEW op \in {"charge", "wash", "inspect"}, PlaceOf(q[i], op)[1] \in call.blocked PROVE StartedBy(p[i], op, t)
    <3>1. CASE op = "charge"
      BY <1>7, <1>10, <2>5, <2>8, <3>1
    <3>2. CASE op = "wash"
      BY <1>7, <1>10, <2>6, <2>8, <3>2
    <3>3. CASE op = "inspect"
      BY <1>7, <1>10, <2>7, <2>8, <3>3
    <3> QED BY <3>1, <3>2, <3>3
  <2> QED BY <2>4, <2>8 DEF KeepsWord
<1>9. CASE q[i] = Declined(a) /\ Pinned(call, a) \cap {"charge", "wash"} = {}
  <2>1. q[i].point = NoPoint /\ q[i].wash.point = NoPoint /\ q[i].inspect.point = NoPoint
    BY <1>6, <1>9 DEF Declined
  <2>2. ASSUME NEW op \in {"charge", "wash", "inspect"} PROVE PlaceOf(q[i], op)[1] \notin call.blocked
    <3>1. PlaceOf(q[i], "charge")[1] = NoPoint
      BY <1>10, <2>1
    <3>2. PlaceOf(q[i], "wash")[1] = NoPoint
      BY <1>10, <2>1
    <3>3. PlaceOf(q[i], "inspect")[1] = NoPoint
      BY <1>10, <2>1
    <3> QED BY <3>1, <3>2, <3>3
  <2>3. \A op \in {"charge", "wash"} : ~StartedBy(p[i], op, t)
    BY <1>7, <1>9
  <2> QED BY <2>2, <2>3 DEF KeepsWord
<1> QED BY <1>1, <1>8, <1>9 DEF Itineraries

(* Between the solves: the plan in hand is a plan of the model, and no name of a point out is that of none. *)
RollInv ==
  stage \in {"rolling", "carried out"} =>
    IsScenario(sc) /\ (plan = <<>> \/ IsPlan(sc, plan)) /\ NoPoint \notin blocked

(* A plan that is rolled over stays a plan of the model, and a point out of service stays a point. *)
LEMMA RollKeeps ==
  ASSUME RollInv, [Next]_<<vars, clock, blocked>>
  PROVE  RollInv'
<1>1. CASE Translate \/ Solve \/ Ship
  <2>1. stage' \notin {"rolling", "carried out"}
    <3>1. CASE Translate
      BY <3>1 DEF Translate
    <3>2. CASE Solve
      BY <3>2 DEF Solve, Pass, PassSolves, PassRetains
    <3>3. CASE Ship
      BY <3>3 DEF Ship
    <3> QED BY <1>1, <3>1, <3>2, <3>3
  <2> QED BY <2>1 DEF RollInv
<1>2. CASE RollingNext
  <2>1. CASE Later
    <3>1. IsScenario(sc) /\ (plan = <<>> \/ IsPlan(sc, plan)) /\ sc' = sc /\ plan' = plan
      BY <2>1 DEF Later, RollInv
    <3>2. blocked' \subseteq {sc.points[i].id : i \in DOMAIN sc.points}
      BY <2>1 DEF Later
    <3>3. NoPoint \notin blocked'
      BY <3>1, <3>2 DEF IsScenario, HasPoints
    <3>4. IsScenario(sc)' /\ (plan = <<>> \/ IsPlan(sc, plan))'
      BY <3>1
    <3> QED BY <3>3, <3>4 DEF RollInv
  <2>2. CASE ReSolve
    <3>1. IsScenario(sc) /\ (plan = <<>> \/ IsPlan(sc, plan)) /\ NoPoint \notin blocked /\ sc' = sc /\ blocked' = blocked
      BY <2>2 DEF ReSolve, RollInv
    <3>2. CASE plan' = plan
      <4>1. (plan = <<>> \/ IsPlan(sc, plan))'
        BY <3>1, <3>2
      <4> QED BY <3>1, <4>1 DEF RollInv
    <3>3. CASE plan' # plan
      <4>1. \E answer \in Answers(sc, RollCall, "weighted") : answer.plan # <<>> /\ plan' = answer.plan
        BY <2>2, <3>3 DEF ReSolve
      <4>2. PICK answer \in Answers(sc, RollCall, "weighted") : answer.plan # <<>> /\ plan' = answer.plan
        BY <4>1
      <4>3. plan' \in Plans(sc, RollCall)
        BY <4>2, AnswersArePlans
      <4>4. IsPlan(sc, plan)'
        BY <3>1, <4>3 DEF IsPlan
      <4> QED BY <3>1, <4>4 DEF RollInv
    <3> QED BY <3>2, <3>3
  <2> QED BY <1>2, <2>1, <2>2 DEF RollingNext
<1>3. CASE UNCHANGED <<vars, clock, blocked>>
  <2>1. sc' = sc /\ plan' = plan /\ stage' = stage /\ blocked' = blocked
    BY <1>3 DEF vars, chainVars
  <2> QED BY <2>1 DEF RollInv
<1> QED BY <1>1, <1>2, <1>3 DEF Next, ProposerNext

(* A re-solve keeps its word: work that has begun stays, and a point that is out takes no new work. *)
LEMMA ReSolveKeepsItsWord ==
  ASSUME RollInv, [Next]_<<vars, clock, blocked>>
  PROVE  /\ [ReSolved => Stays("charge") /\ Stays("wash")]_rollVars
         /\ [ReSolved /\ plan' # plan =>
               \A i \in DOMAIN plan', op \in {"charge", "wash", "inspect"} :
                 PlaceOf(plan'[i], op)[1] \in blocked =>
                   /\ StartedBy(plan[i], op, clock)
                   /\ op # "inspect" => PlaceOf(plan'[i], op) = PlaceOf(plan[i], op)]_rollVars
<1> SUFFICES ASSUME ReSolved
             PROVE  /\ Stays("charge") /\ Stays("wash")
                    /\ plan' # plan =>
                         \A i \in DOMAIN plan', op \in {"charge", "wash", "inspect"} :
                           PlaceOf(plan'[i], op)[1] \in blocked =>
                             /\ StartedBy(plan[i], op, clock)
                             /\ op # "inspect" => PlaceOf(plan'[i], op) = PlaceOf(plan[i], op)
  OBVIOUS
<1>1. stage = "rolling" /\ stage' = "carried out" /\ plan # <<>>
  BY DEF ReSolved
<1>2. IsScenario(sc) /\ IsPlan(sc, plan) /\ NoPoint \notin blocked
  BY <1>1 DEF RollInv
<1>3. CASE plan' = plan
  <2>1. Stays("charge") /\ Stays("wash")
    BY <1>3 DEF Stays
  <2> QED BY <1>3, <2>1
<1>4. CASE plan' # plan
  <2>1. ReSolve
    <3>1. ~Translate /\ ~Solve /\ ~Ship
      BY <1>1 DEF Translate, Solve, Pass, Ship
    <3>2. ~Later
      BY <1>1 DEF Later
    <3>3. ~UNCHANGED <<vars, clock, blocked>>
      BY <1>4 DEF vars, chainVars
    <3> QED BY <3>1, <3>2, <3>3 DEF Next, ProposerNext, RollingNext
  <2>2. PICK answer \in Answers(sc, RollCall, "weighted") : answer.plan # <<>> /\ plan' = answer.plan
    BY <1>4, <2>1 DEF ReSolve
  <2>3. plan' \in Plans(sc, RollCall)
    BY <2>2, AnswersArePlans
  <2>4. PICK old : plan \in Plans(sc, old)
    BY <1>2 DEF IsPlan
  <2>5. RollCall.previous = plan /\ RollCall.tNow = clock /\ RollCall.blocked = blocked
    BY DEF RollCall, FreshCall
  <2>6. DOMAIN plan = DOMAIN plan'
    BY <1>2, <2>3, <2>4, PlanIsTyped
  <2>7. ASSUME NEW i \in DOMAIN plan PROVE KeepsWord(plan, plan', i, clock, blocked)
    <3>1. \A q \in Plans(sc, RollCall) : KeepsWord(plan, q, i, RollCall.tNow, RollCall.blocked)
      BY <1>2, <2>4, <2>5, PlanMadeAgain
    <3> QED BY <2>3, <2>5, <3>1
  <2>8. Stays("charge") /\ Stays("wash")
    BY <2>7 DEF Stays, KeepsWord
  <2>9. ASSUME NEW i \in DOMAIN plan', NEW op \in {"charge", "wash", "inspect"}, PlaceOf(plan'[i], op)[1] \in blocked
        PROVE  StartedBy(plan[i], op, clock) /\ (op # "inspect" => PlaceOf(plan'[i], op) = PlaceOf(plan[i], op))
    <3>1. KeepsWord(plan, plan', i, clock, blocked)
      BY <2>6, <2>7
    <3>2. StartedBy(plan[i], op, clock)
      BY <2>9, <3>1 DEF KeepsWord
    <3>3. op # "inspect" => op \in {"charge", "wash"}
      OBVIOUS
    <3> QED BY <3>1, <3>2, <3>3 DEF KeepsWord
  <2> QED BY <2>8, <2>9
<1> QED BY <1>3, <1>4

(* However a scenario's points come and go and the clock runs, a plan made again keeps its word. *)
THEOREM WordIsKept == GivenSpec => RePlanKeepsItsWord
<1>1. GivenInit => RollInv
  BY DEF GivenInit, RollInv, Untouched
<1>2. RollInv /\ [Next]_<<vars, clock, blocked>> => RollInv'
  BY RollKeeps
<1>3. RollInv /\ [Next]_<<vars, clock, blocked>> =>
        /\ [ReSolved => Stays("charge") /\ Stays("wash")]_rollVars
        /\ [ReSolved /\ plan' # plan =>
              \A i \in DOMAIN plan', op \in {"charge", "wash", "inspect"} :
                PlaceOf(plan'[i], op)[1] \in blocked =>
                  /\ StartedBy(plan[i], op, clock)
                  /\ op # "inspect" => PlaceOf(plan'[i], op) = PlaceOf(plan[i], op)]_rollVars
  BY ReSolveKeepsItsWord
<1> QED BY <1>1, <1>2, <1>3, PTL DEF GivenSpec, RePlanKeepsItsWord, StartedWorkStays, BlockedTakesNoNewWork

(* A plan made again in the run's yard keeps its word, since that yard is such a scenario. *)
THEOREM WordIsKeptInTheRun == Spec => RePlanKeepsItsWord
<1>1. Init => GivenInit
  BY RunIsGiven
<1> QED BY <1>1, WordIsKept, PTL DEF Spec, GivenSpec

-----------------------------------------------------------------------------
(* What an offer says, of the stall and of the vehicle it names. *)
GapOf(asked, st) == IF st.type = "dcfc" THEN asked.site.dcfcCooldown ELSE 0
IsTakeable(r, st, v, asked) ==
  /\ StallIsFree(st) /\ r.stallType = st.type
  /\ \/ v.inlet = st.connector
     \/ st.connector = "MULTI" /\ v.inlet \in st.supported
  /\ r.kw <= st.kw
  /\ v.inletMaxKw # -1 => r.kw <= v.inletMaxKw
  /\ 0 <= r.from /\ r.from < r.upto /\ r.upto <= asked.horizon
StallNamed(given, r) == CHOOSE st \in Elements(given.stalls) : st.id = r.stall
VehicleNamed(given, r) == CHOOSE v \in Elements(given.vehicles) : v.id = r.vehicle
AreApart(r, q, g, h) == r.upto + g <= q.from \/ q.upto + h <= r.from
OffersAreTakeable(offers, given, asked) ==
  /\ \A r \in offers : IsTakeable(r, StallNamed(given, r), VehicleNamed(given, r), asked)
  /\ \A r, q \in offers :
       r # q /\ r.stall = q.stall =>
         AreApart(r, q, GapOf(asked, StallNamed(given, r)), GapOf(asked, StallNamed(given, q)))

(* A name of the frame finds its stall, and its vehicle. *)
LEMMA NamesAreFound ==
  ASSUME NEW given, IsGivenFrame(given), NEW r
  PROVE  /\ \A k \in DOMAIN given.stalls : r.stall = given.stalls[k].id => StallNamed(given, r) = given.stalls[k]
         /\ \A j \in DOMAIN given.vehicles : r.vehicle = given.vehicles[j].id => VehicleNamed(given, r) = given.vehicles[j]
<1>1. ASSUME NEW k \in DOMAIN given.stalls, r.stall = given.stalls[k].id
      PROVE  StallNamed(given, r) = given.stalls[k]
  <2> DEFINE S == Elements(given.stalls)
             P(st) == st.id = r.stall
  <2>1. given.stalls[k] \in S /\ P(given.stalls[k]) /\ \A st \in S : P(st) => st = given.stalls[k]
    BY <1>1 DEF Elements, IsGivenFrame
  <2>2. StallNamed(given, r) = CHOOSE st \in S : P(st)
    BY DEF StallNamed
  <2> HIDE DEF S, P
  <2> QED BY <2>1, <2>2
<1>2. ASSUME NEW j \in DOMAIN given.vehicles, r.vehicle = given.vehicles[j].id
      PROVE  VehicleNamed(given, r) = given.vehicles[j]
  <2> DEFINE S == Elements(given.vehicles)
             P(v) == v.id = r.vehicle
  <2>1. given.vehicles[j] \in S /\ P(given.vehicles[j]) /\ \A v \in S : P(v) => v = given.vehicles[j]
    BY <1>2 DEF Elements, IsGivenFrame
  <2>2. VehicleNamed(given, r) = CHOOSE v \in S : P(v)
    BY DEF VehicleNamed
  <2> HIDE DEF S, P
  <2> QED BY <2>1, <2>2
<1> QED BY <1>1, <1>2

(* The power a row names is within the point's and within the vehicle's. *)
LEMMA PeakIsWithin ==
  ASSUME NEW y, NEW a, NEW kw \in Nat, 1 <= kw, a.soc \in Int, a.target \in Int, IsClass(y.classes[a.cls]),
         y.site.coldPenalty \in Nat, ChargeSegments(y, a, kw) # <<>>
  PROVE  /\ PeakOf(ChargeSegments(y, a, kw)) \in Int /\ PeakOf(ChargeSegments(y, a, kw)) <= kw
         /\ \A most \in Nat \ {0} : y.classes[a.cls].maxKw <= most => PeakOf(ChargeSegments(y, a, kw)) <= most
<1> DEFINE segs == ChargeSegments(y, a, kw)
           f == [k \in DOMAIN segs |-> segs[k].kw]
           S == {segs[k].kw : k \in DOMAIN segs}
           maxKw == y.classes[a.cls].maxKw
<1>1. IsFiniteSet(DOMAIN segs) /\ \A k \in DOMAIN segs : segs[k].kw \in Nat /\ segs[k].kw <= Most(1, Least(kw, maxKw))
  BY SegmentsAreTyped
<1>2. DOMAIN segs # {}
  BY NoStretchNoCharge
<1>3. maxKw \in Nat
  BY DEF IsClass
<1> HIDE DEF segs, maxKw
<1>4. S = {f[k] : k \in DOMAIN segs}
  OBVIOUS
<1> HIDE DEF f
<1>5. IsFiniteSet(S)
  BY <1>1, <1>4, ImageIsFinite
<1>6. S \subseteq Int /\ S # {}
  BY <1>1, <1>2
<1> HIDE DEF S
<1>7. Max(S) \in S
  BY <1>5, <1>6, MaxIsGreatest
<1>8. PICK k \in DOMAIN segs : Max(S) = segs[k].kw
  BY <1>7 DEF S
<1>9. PeakOf(segs) = Max(S)
  BY DEF PeakOf, S
<1> DEFINE x == Max(S)
<1>10. x \in Nat /\ x <= Most(1, Least(kw, maxKw))
  BY <1>1, <1>8
<1> HIDE DEF x
<1>11. x <= kw /\ \A most \in Nat \ {0} : maxKw <= most => x <= most
  BY <1>3, <1>10 DEF Most, Least
<1> QED BY <1>9, <1>10, <1>11 DEF x, segs, maxKw

(* A charge of the plan, as its row, is one its stall and its vehicle can take. *)
RowStands(r, i, k, j) ==
  /\ r.stall = frame.stalls[k].id /\ r.vehicle = frame.vehicles[j].id /\ IsUsableStall(frame.stalls[k])
  /\ IsTakeable(r, frame.stalls[k], frame.vehicles[j], options)
  /\ r.stall = plan[i].point /\ r.from = plan[i].start /\ r.upto = plan[i].chargeEnd
  /\ PointOf(sc, plan[i].point).gap = GapOf(options, frame.stalls[k])
  /\ plan[i].start \in Int /\ plan[i].chargeEnd \in Int /\ plan[i].stayEnd \in Int /\ plan[i].chargeEnd <= plan[i].stayEnd

(* Every charge of a plan of the model stands as a row. *)
LEMMA ChargeRowStands ==
  ASSUME Solving, NEW call, plan \in Plans(sc, call), NEW i \in DOMAIN plan, plan[i].point # NoPoint
  PROVE  \E k \in DOMAIN frame.stalls : \E j \in DOMAIN frame.vehicles : RowStands(ChargeRow(sc.assets[i], plan[i]), i, k, j)
<1> DEFINE a == sc.assets[i]
           it == plan[i]
           r == ChargeRow(a, it)
<1>1. IsScenario(sc) /\ IsDrawnFrom(sc, frame, classTable, options) /\ IsGivenFrame(frame) /\ IsGivenTable(classTable)
  BY DEF Solving, Chaining, IsGiven
<1>2. i \in DOMAIN sc.assets /\ IsItineraryOf(sc, call, a, it) /\ it.aid = a.aid
  BY <1>1, PlanIsTyped
<1>3. PICK p : IsChargedAt(sc, a, it, p)
  BY <1>2 DEF IsItineraryOf
<1>4. PointOf(sc, it.point) = p /\ p.kw \in Nat
  BY <1>1, <1>3, ChargedPointIsFound DEF IsScenario
<1>5. PICK n \in DOMAIN sc.points : p = sc.points[n]
  BY <1>3 DEF IsChargedAt, PointsOfKind
<1>6. PICK k \in DOMAIN frame.stalls : p = Point(frame.stalls[k], options.site) /\ IsUsableStall(frame.stalls[k])
  BY <1>1, <1>5 DEF IsDrawnFrom, PointsAreOf
<1>7. PICK j \in DOMAIN frame.vehicles :
        /\ a = Asset(frame.vehicles[j], classTable, options) /\ ClassSuits(sc, frame.vehicles[j], classTable)
        /\ frame.vehicles[j].class \in DOMAIN classTable
  BY <1>1, <1>2 DEF IsDrawnFrom
<1> DEFINE st == frame.stalls[k]
           v == frame.vehicles[j]
           segs == ChargeSegments(sc, a, p.kw)
<1>8. /\ p.id = st.id /\ p.kind = <<st.type, AcceptedInlets(st)>> /\ p.kw = st.kw /\ p.stallType = st.type
      /\ p.gap = GapOf(options, st)
  BY <1>6 DEF Point, Capability, GapOf
<1>9. a.aid = v.id /\ a.cls = UnitClass(v, classTable)
  BY <1>7 DEF Asset
<1>10. /\ r.vehicle = it.aid /\ r.stall = it.point /\ r.stallType = p.stallType /\ r.from = it.start /\ r.upto = it.chargeEnd
       /\ r.kw = PeakOf(segs)
  <2> HIDE DEF a, it
  <2>1. r = [vehicle |-> it.aid, abstain |-> FALSE, why |-> Absent, stall |-> it.point,
             stallType |-> p.stallType, from |-> it.start, upto |-> it.chargeEnd, kw |-> PeakOf(segs)]
    BY <1>4, Zenon DEF ChargeRow
  <2> HIDE DEF r, segs
  <2> QED BY <2>1
<1>11. /\ it.point = st.id /\ p.kind \in sc.classes[a.cls].kinds /\ segs # <<>>
       /\ it.start \in Nat /\ it.chargeEnd \in Int /\ it.start < it.chargeEnd /\ it.chargeEnd <= sc.horizon
       /\ it.stayEnd \in Int /\ it.chargeEnd <= it.stayEnd
  <2> HIDE DEF a, it, st
  <2> QED BY <1>3, <1>8 DEF IsChargedAt, PointsOfKind, segs
<1>12. /\ StallIsFree(st) /\ st.kw > 0 /\ v.inlet \in AcceptedInlets(st)
  <2>1. v.inlet \in p.kind[2]
    BY <1>7, <1>9, <1>11 DEF ClassSuits
  <2>2. p.kind[2] = AcceptedInlets(st)
    BY <1>8
  <2> QED BY <1>6, <2>1, <2>2 DEF IsUsableStall, IsChargeStall
<1>13. v.inlet = st.connector \/ (st.connector = "MULTI" /\ v.inlet \in st.supported)
  BY <1>12 DEF AcceptedInlets
<1>14. /\ sc.horizon = options.horizon
       /\ sc.classes[a.cls].maxKw = EffectiveKw(v, classTable[v.class])
  BY <1>1, <1>7, <1>9 DEF IsDrawnFrom, ClassSuits
<1>15. r.kw \in Int /\ r.kw <= st.kw /\ (v.inletMaxKw # -1 => r.kw <= v.inletMaxKw)
  <2>1. IsAssetIn(sc, a) /\ sc.site.coldPenalty \in Nat
    BY <1>1, <1>2 DEF IsScenario
  <2>2. a.soc \in Int /\ a.target \in Int /\ IsClass(sc.classes[a.cls])
    BY <2>1 DEF IsAssetIn
  <2>3. p.kw \in Nat /\ 1 <= p.kw
    BY <1>4, <1>8, <1>12
  <2>4. /\ PeakOf(segs) \in Int /\ PeakOf(segs) <= p.kw
        /\ \A most \in Nat \ {0} : sc.classes[a.cls].maxKw <= most => PeakOf(segs) <= most
    <3> HIDE DEF a
    <3> QED BY <1>11, <2>1, <2>2, <2>3, PeakIsWithin DEF segs
  <2>5. v.inletMaxKw \in {-1} \cup (Nat \ {0}) /\ classTable[v.class].maxKw \in Nat
    BY <1>1, <1>7 DEF IsGivenFrame, IsGivenTable, IsClass
  <2>6. v.inletMaxKw # -1 => v.inletMaxKw \in Nat \ {0} /\ sc.classes[a.cls].maxKw <= v.inletMaxKw
    <3>1. \A m \in Nat : \A l \in Nat : Least(m, l) <= l
      BY DEF Least
    <3> QED BY <1>14, <2>5, <3>1 DEF EffectiveKw
  <2> HIDE DEF a, v, st, r, segs
  <2> QED BY <1>8, <1>10, <2>4, <2>6
<1>16. IsTakeable(r, st, v, options)
  <2>1. 0 <= r.from /\ r.from < r.upto /\ r.upto <= options.horizon
    <3> HIDE DEF a, v, st, r, segs, it
    <3> QED BY <1>10, <1>11, <1>14
  <2>2. r.stallType = st.type
    BY <1>8, <1>10
  <2> HIDE DEF a, v, st, r, segs, it
  <2> QED BY <1>12, <1>13, <1>15, <2>1, <2>2 DEF IsTakeable
<1>17. /\ r.stall = st.id /\ r.vehicle = v.id /\ PointOf(sc, it.point).gap = GapOf(options, st)
       /\ it.start \in Int
  <2> HIDE DEF a, v, st, r, segs, it
  <2> QED BY <1>2, <1>4, <1>8, <1>9, <1>10, <1>11
<1>18. RowStands(r, i, k, j)
  <2>1. IsUsableStall(st)
    BY <1>6
  <2> HIDE DEF r
  <2> QED BY <1>10, <1>11, <1>16, <1>17, <2>1 DEF RowStands
<1> QED BY <1>18

(* Two charges of a plan at one point are apart by its gap. *)
LEMMA ChargesAreApart ==
  ASSUME IsScenario(sc), NEW call, plan \in Plans(sc, call), NEW i \in DOMAIN plan, NEW j \in DOMAIN plan, i < j,
         plan[i].point # NoPoint, plan[i].point = plan[j].point, NEW g \in Int, PointOf(sc, plan[i].point).gap = g,
         plan[i].start \in Int, plan[i].chargeEnd \in Int, plan[i].stayEnd \in Int, plan[i].chargeEnd <= plan[i].stayEnd,
         plan[j].start \in Int, plan[j].chargeEnd \in Int, plan[j].stayEnd \in Int, plan[j].chargeEnd <= plan[j].stayEnd
  PROVE  plan[i].chargeEnd + g <= plan[j].start \/ plan[j].chargeEnd + g <= plan[i].start
<1>1. DOMAIN plan = 1 .. Len(sc.assets) /\ Len(sc.assets) \in Nat
  BY PlansAreJoint DEF IsPlanOf, IsScenario, HasAssets
<1>2. OneAssetPerPoint(sc, plan)
  <2>1. Len(sc.assets) # 0
    BY <1>1
  <2> QED BY <2>1, PlansAreJoint DEF IsScenario
<1> DEFINE a == [at |-> plan[i].point, from |-> plan[i].start, upto |-> plan[i].stayEnd + PointOf(sc, plan[i].point).gap]
           b == [at |-> plan[j].point, from |-> plan[j].start, upto |-> plan[j].stayEnd + PointOf(sc, plan[j].point).gap]
<1>3. a \in Occupied(sc, plan[i])
  BY DEF Occupied
<1>4. b \in Occupied(sc, plan[j])
  BY DEF Occupied
<1>5. a.at = b.at /\ a.from = plan[i].start /\ b.from = plan[j].start /\ a.upto = plan[i].stayEnd + g /\ b.upto = plan[j].stayEnd + g
  OBVIOUS
<1> HIDE DEF a, b
<1>6. a.at # b.at \/ ~Overlap(a, b)
  BY <1>2, <1>3, <1>4 DEF OneAssetPerPoint
<1>7. ~(plan[i].start < plan[j].stayEnd + g /\ plan[j].start < plan[i].stayEnd + g)
  BY <1>5, <1>6 DEF Overlap
<1> QED BY <1>7

(* So the rows of a plan are offers that can be taken, each apart from the others at its stall. *)
LEMMA RowsOfAPlan ==
  ASSUME Solving, NEW call, plan \in Plans(sc, call),
         NEW offers, offers \subseteq {ChargeRow(sc.assets[i], plan[i]) : i \in {k \in DOMAIN plan : plan[k].point # NoPoint}}
  PROVE  OffersAreTakeable(offers, frame, options)
<1> DEFINE Offer(i) == ChargeRow(sc.assets[i], plan[i])
           charged == {k \in DOMAIN plan : plan[k].point # NoPoint}
<1>1. IsScenario(sc) /\ IsGivenFrame(frame) /\ IsGivenOptions(options)
  BY DEF Solving, Chaining, IsGiven
<1>2. ASSUME NEW i \in charged
      PROVE  \E k \in DOMAIN frame.stalls : \E j \in DOMAIN frame.vehicles :
               /\ RowStands(Offer(i), i, k, j)
               /\ StallNamed(frame, Offer(i)) = frame.stalls[k] /\ VehicleNamed(frame, Offer(i)) = frame.vehicles[j]
  <2>1. PICK k \in DOMAIN frame.stalls : \E j \in DOMAIN frame.vehicles : RowStands(Offer(i), i, k, j)
    BY ChargeRowStands
  <2>2. PICK j \in DOMAIN frame.vehicles : RowStands(Offer(i), i, k, j)
    BY <2>1
  <2> HIDE DEF Offer
  <2>3. Offer(i).stall = frame.stalls[k].id /\ Offer(i).vehicle = frame.vehicles[j].id
    BY <2>2 DEF RowStands
  <2>4. StallNamed(frame, Offer(i)) = frame.stalls[k] /\ VehicleNamed(frame, Offer(i)) = frame.vehicles[j]
    BY <1>1, <2>3, NamesAreFound
  <2> QED BY <2>2, <2>4
<1>3. \A r \in offers : \E i \in charged : r = Offer(i)
  OBVIOUS
<1>4. charged \subseteq DOMAIN plan /\ \A i \in charged : plan[i].point # NoPoint
  OBVIOUS
<1>5. DOMAIN plan \subseteq Nat
  <2>1. DOMAIN plan = 1 .. Len(sc.assets) /\ Len(sc.assets) \in Nat
    BY <1>1, PlansAreJoint DEF IsPlanOf, IsScenario, HasAssets
  <2> QED BY <2>1
<1> HIDE DEF Offer, charged
<1>6. ASSUME NEW r \in offers
      PROVE  IsTakeable(r, StallNamed(frame, r), VehicleNamed(frame, r), options)
  BY <1>2, <1>3 DEF RowStands
<1>7. ASSUME NEW r \in offers, NEW q \in offers, r # q, r.stall = q.stall
      PROVE  AreApart(r, q, GapOf(options, StallNamed(frame, r)), GapOf(options, StallNamed(frame, q)))
  <2>1. PICK i \in charged : r = Offer(i)
    BY <1>3
  <2>2. PICK j \in charged : q = Offer(j)
    BY <1>3
  <2> DEFINE g == GapOf(options, StallNamed(frame, r))
             h == GapOf(options, StallNamed(frame, q))
  <2>3. /\ r.stall = plan[i].point /\ r.from = plan[i].start /\ r.upto = plan[i].chargeEnd
        /\ PointOf(sc, plan[i].point).gap = g
        /\ plan[i].start \in Int /\ plan[i].chargeEnd \in Int /\ plan[i].stayEnd \in Int /\ plan[i].chargeEnd <= plan[i].stayEnd
    BY <1>2, <2>1 DEF RowStands
  <2>4. /\ q.stall = plan[j].point /\ q.from = plan[j].start /\ q.upto = plan[j].chargeEnd
        /\ PointOf(sc, plan[j].point).gap = h
        /\ plan[j].start \in Int /\ plan[j].chargeEnd \in Int /\ plan[j].stayEnd \in Int /\ plan[j].chargeEnd <= plan[j].stayEnd
    BY <1>2, <2>2 DEF RowStands
  <2>5. i \in DOMAIN plan /\ j \in DOMAIN plan /\ i \in Nat /\ j \in Nat /\ i # j /\ plan[i].point # NoPoint /\ plan[j].point # NoPoint
    BY <1>4, <1>5, <1>7, <2>1, <2>2
  <2>6. g = h /\ g \in Int /\ plan[i].point = plan[j].point
    <3>1. g \in Int
      BY <1>1 DEF GapOf, IsGivenOptions
    <3> QED BY <1>7, <2>3, <2>4, <3>1
  <2> HIDE DEF g, h
  <2>7. CASE i < j
    <3>1. plan[i].chargeEnd + g <= plan[j].start \/ plan[j].chargeEnd + g <= plan[i].start
      BY <1>1, <2>3, <2>4, <2>5, <2>6, <2>7, ChargesAreApart
    <3> QED BY <2>3, <2>4, <2>6, <3>1 DEF AreApart, g, h
  <2>8. CASE j < i
    <3>1. plan[j].chargeEnd + g <= plan[i].start \/ plan[i].chargeEnd + g <= plan[j].start
      BY <1>1, <2>3, <2>4, <2>5, <2>6, <2>8, ChargesAreApart
    <3> QED BY <2>3, <2>4, <2>6, <3>1 DEF AreApart, g, h
  <2> QED BY <2>5, <2>7, <2>8
<1> QED BY <1>6, <1>7 DEF OffersAreTakeable

(* Until the plan ships, the rows are abstentions; once it has, what they offer can be taken. *)
RowsInv ==
  /\ stage = "frame" => rows = {}
  /\ stage \in {"solving", "solved"} => \A r \in rows : r.abstain = TRUE
  /\ OfferedIsTakeable

(* The property, in the terms of the lemmas. *)
LEMMA OfferedForm ==
  OfferedIsTakeable <=> (Answered => OffersAreTakeable({r \in rows : ~r.abstain}, frame, options))
BY Zenon DEF OfferedIsTakeable, OffersAreTakeable, IsTakeable, AreApart, StallNamed, VehicleNamed, GapOf

(* The same of the state a step leads to. *)
LEMMA OfferedFormNext ==
  OfferedIsTakeable' <=> (Answered' => OffersAreTakeable({r \in rows' : ~r.abstain}, frame', options'))
BY Zenon DEF OfferedIsTakeable, OffersAreTakeable, IsTakeable, AreApart, StallNamed, VehicleNamed, GapOf

(* Nothing offered, nothing that cannot be taken. *)
LEMMA AbstentionsOfferNothing ==
  ASSUME \A r \in rows' : r.abstain = TRUE
  PROVE  OfferedIsTakeable'
<1>1. {r \in rows' : ~r.abstain} = {}
  OBVIOUS
<1>2. OffersAreTakeable({}, frame', options')
  BY DEF OffersAreTakeable
<1> QED BY <1>1, <1>2, OfferedFormNext

(* The frame's rows are abstentions and deferrals. *)
LEMMA TranslateWritesAbstentions ==
  ASSUME RowsInv, Translate
  PROVE  RowsInv'
<1>1. rows = {} /\ stage = "frame"
  BY DEF Translate, RowsInv
<1>2. \A r \in rows' : r.abstain = TRUE
  <2>1. CASE Refusal(frame, classTable, options) # "none"
    BY <1>1, <2>1 DEF Translate
  <2>2. CASE Refusal(frame, classTable, options) = "none"
    <3> DEFINE assets == Scenario(frame, classTable, options).assets
    <3>1. rows' = Abstentions(frame, classTable, options) \cup Deferred(assets)
      BY <2>2 DEF Translate
    <3>2. \A id, why : AbstainRow(id, why).abstain = TRUE
      BY DEF AbstainRow
    <3>3. \A r \in Abstentions(frame, classTable, options) : r.abstain = TRUE
      BY <3>2 DEF Abstentions
    <3> HIDE DEF assets
    <3>4. \A r \in Deferred(assets) : r.abstain = TRUE
      BY <3>2 DEF Deferred
    <3> QED BY <3>1, <3>3, <3>4
  <2> QED BY <2>1, <2>2
<1>3. OfferedIsTakeable'
  BY <1>2, AbstentionsOfferNothing
<1>4. stage' # "frame"
  BY DEF Translate
<1> QED BY <1>2, <1>3, <1>4 DEF RowsInv

(* A pass does not answer. *)
LEMMA SolveGoesOn ==
  ASSUME Solve
  PROVE  stage' # "frame" /\ stage' # "answered"
<1>1. CASE PriceIsRefused(sc, CallOf(Mode), Mode)
  BY <1>1 DEF Solve, Pass
<1>2. CASE ~PriceIsRefused(sc, CallOf(Mode), Mode)
  <2>1. PICK answer \in Answers(sc, CallOf(Mode), Mode) :
          IF answer.plan = <<>> THEN PassRetains(answer) ELSE PassSolves(answer)
    BY <1>2 DEF Solve, Pass
  <2>2. CASE PassRetains(answer)
    BY <2>2 DEF PassRetains
  <2>3. CASE PassSolves(answer)
    BY <2>3 DEF PassSolves
  <2> QED BY <2>1, <2>2, <2>3
<1> QED BY <1>1, <1>2

(* A pass writes no row. *)
LEMMA SolveWritesNoRow ==
  ASSUME RowsInv, Solve
  PROVE  RowsInv'
<1>1. stage = "solving" /\ rows' = rows
  BY DEF Solve, Pass, proposerVars
<1>2. stage' # "frame" /\ stage' # "answered"
  BY SolveGoesOn
<1>3. \A r \in rows' : r.abstain = TRUE
  BY <1>1 DEF RowsInv
<1> QED BY <1>2, <1>3, AbstentionsOfferNothing DEF RowsInv

(* What ships offers the charges of a plan of the model, and no more. *)
LEMMA ShipOffersThePlan ==
  ASSUME ChainInv, RowsInv, Ship
  PROVE  RowsInv'
<1>1. Solving /\ plan # <<>> /\ stage = "solved" /\ \A r \in rows : r.abstain = TRUE
  BY DEF Ship, ChainInv, RowsInv
<1>2. stage' = "answered"
  BY ShipKeeps
<1>3. /\ rows' = rows \cup {PlanRow(sc.assets[i], plan[i]) : i \in DOMAIN plan}
      /\ frame' = frame /\ options' = options
  BY <1>2 DEF Ship
<1>4. PICK call : plan \in Plans(sc, call)
  BY <1>1 DEF Solving, Chaining, IsPlan
<1> DEFINE offers == {r \in rows' : ~r.abstain}
<1>5. offers \subseteq {ChargeRow(sc.assets[i], plan[i]) : i \in {k \in DOMAIN plan : plan[k].point # NoPoint}}
  <2>1. ASSUME NEW r \in offers
        PROVE  \E i \in DOMAIN plan : plan[i].point # NoPoint /\ r = ChargeRow(sc.assets[i], plan[i])
    <3>1. PICK i \in DOMAIN plan : r = PlanRow(sc.assets[i], plan[i])
      BY <1>1, <1>3
    <3>2. ~r.abstain
      OBVIOUS
    <3>3. plan[i].point # NoPoint
      <4> SUFFICES ASSUME plan[i].point = NoPoint PROVE FALSE
        OBVIOUS
      <4>1. r = AbstainRow(plan[i].aid, NoChargeWhy(plan[i]))
        BY <3>1 DEF PlanRow
      <4>2. r.abstain = TRUE
        BY <4>1 DEF AbstainRow
      <4> QED BY <3>2, <4>2
    <3> QED BY <3>1, <3>3 DEF PlanRow
  <2> QED BY <2>1
<1> HIDE DEF offers
<1>6. OffersAreTakeable(offers, frame, options)
  BY <1>1, <1>4, <1>5, RowsOfAPlan
<1>7. OffersAreTakeable(offers, frame', options')
  BY <1>3, <1>6
<1>8. OfferedIsTakeable'
  BY <1>7, OfferedFormNext DEF offers
<1> QED BY <1>2, <1>8 DEF RowsInv

(* A plan rolled over writes no row either. *)
LEMMA RowsKeep ==
  ASSUME ChainInv, RowsInv, [Next]_<<vars, clock, blocked>>
  PROVE  RowsInv'
<1>1. CASE Translate
  BY <1>1, TranslateWritesAbstentions
<1>2. CASE Solve
  BY <1>2, SolveWritesNoRow
<1>3. CASE Ship
  BY <1>3, ShipOffersThePlan
<1>4. CASE RollingNext /\ UNCHANGED proposerVars
  <2>1. stage' \in {"rolling", "carried out", "no schedule", "price refused"}
    BY <1>4, RollingEnds
  <2>2. ~Answered'
    BY <2>1 DEF Answered
  <2> QED BY <2>1, <2>2 DEF RowsInv, OfferedIsTakeable
<1>5. CASE UNCHANGED <<vars, clock, blocked>>
  <2>1. stage' = stage /\ rows' = rows /\ frame' = frame /\ options' = options
    BY <1>5 DEF vars, chainVars, proposerVars
  <2>2. OfferedIsTakeable' <=> OfferedIsTakeable
    BY <2>1, OfferedForm, OfferedFormNext DEF Answered
  <2> QED BY <2>1, <2>2 DEF RowsInv
<1> QED BY <1>1, <1>2, <1>3, <1>4, <1>5 DEF Next, ProposerNext

(* Whatever the frame, the table and the options, a stall that is offered can be taken by the vehicle it *)
(* is offered to, and the offers at one stall are apart.                                                  *)
THEOREM OffersCanBeTaken == GivenSpec => []OfferedIsTakeable
<1>1. GivenInit => RowsInv
  BY DEF GivenInit, RowsInv, OfferedIsTakeable, Answered
<1>2. RowsInv => OfferedIsTakeable
  BY DEF RowsInv
<1> QED BY <1>1, <1>2, ChainStarts, ChainKeeps, RowsKeep, PTL DEF GivenSpec

(* The run's frames, tables and options are such. *)
THEOREM OffersCanBeTakenInTheRun == Spec => []OfferedIsTakeable
<1>1. Init => GivenInit
  BY RunIsGiven
<1> QED BY <1>1, OffersCanBeTaken, PTL DEF Spec, GivenSpec

-----------------------------------------------------------------------------
(* Who is accounted for. The vehicles and the stalls of a frame are told apart by their identities. *)
LEMMA KnownByIdentity ==
  ASSUME NEW given, IsGivenFrame(given)
  PROVE  /\ \A v, w \in Elements(given.vehicles) : v.id = w.id => v = w
         /\ \A x, z \in Elements(given.stalls) : x.id = z.id => x = z
BY DEF IsGivenFrame, Elements

(* As many numbers count up to one. *)
LEMMA UpToCount == \A n \in Nat : IsFiniteSet(1 .. n) /\ Cardinality(1 .. n) = n
BY FS_Interval

(* What a list holds is finite, and as much as the list is long where nothing is repeated. *)
LEMMA CountOfList ==
  ASSUME NEW list, IsList(list)
  PROVE  /\ IsFiniteSet(Elements(list))
         /\ (\A i, j \in DOMAIN list : list[i] = list[j] => i = j) => Cardinality(Elements(list)) = Len(list)
<1>1. Len(list) \in Nat /\ IsFiniteSet(DOMAIN list) /\ Cardinality(DOMAIN list) = Len(list)
  BY UpToCount DEF IsList
<1>2. IsFiniteSet({list[i] : i \in DOMAIN list})
  BY <1>1, ImageIsFinite
<1>3. (\A i, j \in DOMAIN list : list[i] = list[j] => i = j) => Cardinality({list[i] : i \in DOMAIN list}) = Len(list)
  BY <1>1, CountByName
<1> QED BY <1>2, <1>3 DEF Elements

(* What At takes of a list is everything at the places given, and nothing else. *)
LEMMA AtTakesAll ==
  ASSUME NEW list, IsList(list), NEW S, S \subseteq DOMAIN list
  PROVE  /\ IsList(At(list, S)) /\ Len(At(list, S)) = Cardinality(S)
         /\ Elements(At(list, S)) = {list[i] : i \in S}
         /\ (\A i, j \in S : list[i] = list[j] => i = j) =>
              \A k, l \in DOMAIN At(list, S) : At(list, S)[k] = At(list, S)[l] => k = l
<1> DEFINE picked == At(list, S)
           N == Cardinality(S)
<1>1. IsList(picked) /\ DOMAIN picked = 1 .. N /\ \E place : IsPlacing(place, picked, list, S)
  BY ListPicks
<1>2. PICK place : IsPlacing(place, picked, list, S)
  BY <1>1
<1>3. IsFiniteSet(S)
  BY PlacesAreFinite
<1>4. N \in Nat
  BY <1>3, FS_CardinalityType
<1> HIDE DEF picked
<1> DEFINE g == [k \in 1 .. N |-> place[k]]
<1>5. g \in Injection(1 .. N, S)
  BY <1>1, <1>2 DEF IsPlacing, Injection, IsInjective
<1>6. Cardinality(1 .. N) = N
  BY <1>4, UpToCount
<1>7. g \in Surjection(1 .. N, S)
  <2> HIDE DEF g
  <2> QED BY <1>3, <1>5, <1>6, FS_Injection
<1>8. \A i \in S : \E k \in 1 .. N : place[k] = i
  BY <1>7 DEF Surjection
<1>9. Elements(picked) = {list[i] : i \in S}
  <2>1. \A k \in DOMAIN picked : picked[k] \in {list[i] : i \in S}
    BY <1>2 DEF IsPlacing
  <2>2. \A i \in S : \E k \in DOMAIN picked : picked[k] = list[i]
    BY <1>1, <1>2, <1>8 DEF IsPlacing
  <2> QED BY <2>1, <2>2 DEF Elements
<1>10. Len(picked) = N
  <2>1. Len(picked) \in Nat /\ 1 .. Len(picked) = 1 .. N
    BY <1>1 DEF IsList
  <2> HIDE DEF N
  <2>2. Cardinality(1 .. Len(picked)) = Len(picked) /\ Cardinality(1 .. N) = N
    BY <1>4, <2>1, UpToCount
  <2> QED BY <2>1, <2>2
<1>11. (\A i, j \in S : list[i] = list[j] => i = j) => \A k, l \in DOMAIN picked : picked[k] = picked[l] => k = l
  BY <1>2 DEF IsPlacing
<1> QED BY <1>1, <1>9, <1>10, <1>11 DEF picked

(* The charge stalls that are free and those that are not, by reason, are all of them. *)
LEMMA StallsAddUp ==
  ASSUME NEW given, IsGivenFrame(given), NEW states
  PROVE  SeenIn(given, states).busy + Cardinality({st \in Elements(ChargeStalls(given)) : StallIsFree(st)})
           = SeenIn(given, states).chargeStalls
<1> DEFINE S == {i \in DOMAIN given.stalls : IsChargeStall(given.stalls[i])}
           list == At(given.stalls, S)
           all == Elements(list)
           free == {st \in all : StallIsFree(st)}
           taken == {st \in all : ~StallIsFree(st)}
           reason == [st \in taken |-> StallBlockReason(st)]
           K == {StallBlockReason(st) : st \in taken}
           count == [why \in K |-> Cardinality({st \in taken : StallBlockReason(st) = why})]
<1>1. ChargeStalls(given) = list /\ StallsBlocked(given) = count
  BY DEF ChargeStalls, StallsBlocked
<1>2. SeenIn(given, states).chargeStalls = Len(list) /\ SeenIn(given, states).busy = SumFunctionOnSet(count, K)
  <2>1. /\ SeenIn(given, states).chargeStalls = Len(ChargeStalls(given))
        /\ SeenIn(given, states).busy = MapThenSumSet(LAMBDA why : StallsBlocked(given)[why], DOMAIN StallsBlocked(given))
    BY DEF SeenIn
  <2>2. SeenIn(given, states).busy = SumFunctionOnSet(StallsBlocked(given), DOMAIN StallsBlocked(given))
    BY <2>1, SumsAreOne
  <2>3. DOMAIN count = K
    OBVIOUS
  <2> HIDE DEF count, list, K
  <2> QED BY <1>1, <2>1, <2>2, <2>3
<1>3. IsFiniteSet(all) /\ Cardinality(all) = Len(list)
  <2>1. IsList(given.stalls) /\ S \subseteq DOMAIN given.stalls /\ \A i, j \in S : given.stalls[i] = given.stalls[j] => i = j
    BY DEF IsGivenFrame
  <2> HIDE DEF S
  <2>2. IsList(list) /\ \A k, l \in DOMAIN list : list[k] = list[l] => k = l
    BY <2>1, AtTakesAll
  <2> HIDE DEF list
  <2> QED BY <2>2, CountOfList
<1> HIDE DEF list, all
<1>4. IsFiniteSet(taken) /\ Cardinality(free) + Cardinality(taken) = Cardinality(all)
  <2>1. free \cup taken = all /\ free \cap taken = {}
    OBVIOUS
  <2> HIDE DEF free, taken
  <2> QED BY <1>3, <2>1, CountInParts
<1>5. SumFunctionOnSet(count, K) = Cardinality(taken)
  <2>1. \A st \in taken : reason[st] = StallBlockReason(st)
    OBVIOUS
  <2> HIDE DEF taken, reason
  <2>2. \A why : OfKind(taken, reason, why) = {st \in taken : StallBlockReason(st) = why}
    BY <2>1 DEF OfKind
  <2>3. K = KindsOf(taken, reason)
    BY <2>1 DEF KindsOf
  <2>4. \A why \in K : count[why] = Cardinality(OfKind(taken, reason, why))
    BY <2>2
  <2> HIDE DEF K, count
  <2> QED BY <1>4, <2>3, <2>4, CountByKind
<1>6. Cardinality(free) \in Nat /\ Cardinality(taken) \in Nat
  BY <1>3, FS_Subset, FS_CardinalityType
<1>7. Elements(ChargeStalls(given)) = all
  BY <1>1 DEF all
<1> HIDE DEF taken, count, K
<1> QED BY <1>2, <1>3, <1>4, <1>5, <1>6, <1>7

(* The assets made of a frame are those of the vehicles that are planned, each once. *)
PlannedOf(given, table, asked) == {v \in Elements(given.vehicles) : IsPlannedIn(v, given, table, asked)}
AssetsOf(given, table, asked) == {Asset(v, table, asked) : v \in PlannedOf(given, table, asked)}
LEMMA AssetsOfFrame ==
  ASSUME NEW given, IsGivenFrame(given), NEW table, NEW asked, IsGivenOptions(asked),
         NEW assets, assets = Scenario(given, table, asked).assets
  PROVE  /\ IsList(assets)
         /\ Elements(assets) = AssetsOf(given, table, asked)
         /\ \A a \in Elements(assets) : a.aid \in Int /\ a.soc \in Int /\ a.ready \in Int
         /\ \A i, j \in DOMAIN assets : assets[i].aid = assets[j].aid => i = j
<1> DEFINE P == {i \in DOMAIN given.vehicles : IsPlannedIn(given.vehicles[i], given, table, asked)}
           planned == At(given.vehicles, P)
<1>1. assets = [i \in DOMAIN planned |-> Asset(planned[i], table, asked)]
  BY DEF Scenario, IsPlannedIn
<1>2. IsList(given.vehicles) /\ P \subseteq DOMAIN given.vehicles
  BY DEF IsGivenFrame
<1>3. \A i, j \in P : given.vehicles[i] = given.vehicles[j] => i = j
  BY DEF IsGivenFrame
<1>4. /\ IsList(planned) /\ Elements(planned) = {given.vehicles[i] : i \in P}
      /\ \A k, l \in DOMAIN planned : planned[k] = planned[l] => k = l
  <2> HIDE DEF P
  <2> QED BY <1>2, <1>3, AtTakesAll
<1>5. Elements(planned) = PlannedOf(given, table, asked)
  BY <1>4 DEF PlannedOf, Elements
<1> HIDE DEF planned, P
<1>6. IsList(assets) /\ DOMAIN assets = DOMAIN planned
  <2> DEFINE Values == {assets[i] : i \in DOMAIN planned}
  <2>1. /\ DOMAIN planned = 1 .. Len(planned) /\ Len(planned) \in Nat
        /\ assets = [i \in 1 .. Len(planned) |-> assets[i]] /\ DOMAIN assets = DOMAIN planned
        /\ \A i \in 1 .. Len(planned) : assets[i] \in Values
    BY <1>1, <1>4 DEF IsList
  <2> HIDE DEF Values
  <2>2. assets \in Seq(Values)
    BY <2>1
  <2> QED BY <2>1, <2>2, MembersOfSequence DEF IsList
<1>7. Elements(assets) = AssetsOf(given, table, asked)
  <2>1. Elements(assets) = {Asset(v, table, asked) : v \in Elements(planned)}
    BY <1>1, <1>6 DEF Elements
  <2> QED BY <1>5, <2>1 DEF AssetsOf
<1>8. ASSUME NEW v \in PlannedOf(given, table, asked)
      PROVE  /\ Asset(v, table, asked).aid = v.id /\ v.id \in Int
             /\ Asset(v, table, asked).soc \in Int /\ Asset(v, table, asked).ready \in Int
  <2>1. v.id \in Int /\ v.soc \in Int
    BY DEF PlannedOf, Elements, IsGivenFrame
  <2>2. Rounded(v.soc) \in Int /\ ReadyBy(v, asked) \in Int
    BY <2>1, RoundedIsInt DEF ReadyBy, IsGivenOptions
  <2>3. /\ Asset(v, table, asked).aid = v.id /\ Asset(v, table, asked).soc = Rounded(v.soc)
        /\ Asset(v, table, asked).ready = ReadyBy(v, asked)
    BY DEF Asset
  <2> QED BY <2>1, <2>2, <2>3
<1>9. ASSUME NEW i \in DOMAIN assets, NEW j \in DOMAIN assets, assets[i].aid = assets[j].aid PROVE i = j
  <2>1. planned[i] \in PlannedOf(given, table, asked) /\ planned[j] \in PlannedOf(given, table, asked)
    BY <1>5, <1>6 DEF Elements
  <2>2. assets[i] = Asset(planned[i], table, asked) /\ assets[j] = Asset(planned[j], table, asked)
    BY <1>1, <1>6
  <2>3. planned[i].id = planned[j].id
    BY <1>8, <1>9, <2>1, <2>2
  <2>4. planned[i] = planned[j]
    BY <2>1, <2>3, KnownByIdentity DEF PlannedOf
  <2> QED BY <1>4, <1>6, <2>4
<1>10. ASSUME NEW a \in Elements(assets) PROVE a.aid \in Int /\ a.soc \in Int /\ a.ready \in Int
  <2>1. PICK v \in PlannedOf(given, table, asked) : a = Asset(v, table, asked)
    BY <1>7 DEF AssetsOf
  <2> QED BY <1>8, <2>1
<1> QED BY <1>5, <1>6, <1>7, <1>9, <1>10

(* The queue is a line: the kernel's own order where it is given, the most urgent first where not. *)
QueueOf(assets) == {a \in Elements(assets) : Queued(a)}
InQueueBefore(assets) == {p \in QueueOf(assets) \X QueueOf(assets) : Precedes(p[1], p[2])}
LEMMA QueueIsALine ==
  ASSUME IsGivenOptions(options), NEW assets,
         \A a \in Elements(assets) : a.aid \in Int /\ a.soc \in Int /\ a.ready \in Int,
         \A a, b \in Elements(assets) : a.aid = b.aid => a = b
  PROVE  IsLine(InQueueBefore(assets), QueueOf(assets))
<1> DEFINE S == QueueOf(assets)
           R == InQueueBefore(assets)
<1>1. \A a, b \in S : <<a, b>> \in R <=> Precedes(a, b)
  BY DEF InQueueBefore
<1>2. \A a \in S : a \in Elements(assets) /\ a.aid \in Int /\ a.soc \in Int /\ a.ready \in Int /\ Queued(a)
  BY DEF QueueOf
<1>3. \A a, b \in S : a.aid = b.aid => a = b
  BY <1>2
<1>4. CASE options.priority = <<>>
  <2>1. \A a, b \in S :
          Precedes(a, b) <=> (\/ a.ready < b.ready
                              \/ a.ready = b.ready /\ a.soc < b.soc
                              \/ a.ready = b.ready /\ a.soc = b.soc /\ a.aid < b.aid)
    BY <1>4 DEF Precedes
  <2> HIDE DEF S, R
  <2>2. \A a, b \in S : a # b => <<a, b>> \in R \/ <<b, a>> \in R
    <3> SUFFICES ASSUME NEW a \in S, NEW b \in S, a # b PROVE Precedes(a, b) \/ Precedes(b, a)
      BY <1>1
    <3>1. a.aid # b.aid
      BY <1>3
    <3> QED BY <1>2, <2>1, <3>1
  <2>3. \A a, b, c \in S : <<a, b>> \in R /\ <<b, c>> \in R => <<a, c>> \in R
    <3> SUFFICES ASSUME NEW a \in S, NEW b \in S, NEW c \in S, Precedes(a, b), Precedes(b, c) PROVE Precedes(a, c)
      BY <1>1
    <3> QED BY <1>2, <2>1
  <2>4. \A a \in S : <<a, a>> \notin R
    BY <1>1, <1>2, <2>1
  <2> QED BY <2>2, <2>3, <2>4 DEF IsLine, S, R
<1>5. CASE options.priority # <<>>
  <2>1. ASSUME NEW a \in S
        PROVE  PlaceInQueue(a) \in Int /\ PlaceInQueue(a) \in DOMAIN options.priority /\ options.priority[PlaceInQueue(a)] = a.aid
    <3>1. \E i \in DOMAIN options.priority : options.priority[i] = a.aid
      BY <1>2, <1>5 DEF Queued, Elements
    <3>2. PlaceInQueue(a) \in DOMAIN options.priority /\ options.priority[PlaceInQueue(a)] = a.aid
      BY <3>1 DEF PlaceInQueue
    <3>3. DOMAIN options.priority \subseteq Int
      BY DEF IsGivenOptions, IsList
    <3> QED BY <3>2, <3>3
  <2>2. \A a, b \in S : Precedes(a, b) <=> PlaceInQueue(a) < PlaceInQueue(b)
    BY <1>5 DEF Precedes
  <2> HIDE DEF S, R
  <2>3. \A a, b \in S : a # b => <<a, b>> \in R \/ <<b, a>> \in R
    <3> SUFFICES ASSUME NEW a \in S, NEW b \in S, a # b PROVE Precedes(a, b) \/ Precedes(b, a)
      BY <1>1
    <3>1. PlaceInQueue(a) # PlaceInQueue(b)
      BY <1>3, <2>1
    <3> QED BY <2>1, <2>2, <3>1
  <2>4. \A a, b, c \in S : <<a, b>> \in R /\ <<b, c>> \in R => <<a, c>> \in R
    BY <1>1, <2>1, <2>2
  <2>5. \A a \in S : <<a, a>> \notin R
    BY <1>1, <2>1, <2>2
  <2> QED BY <2>3, <2>4, <2>5 DEF IsLine, S, R
<1> QED BY <1>4, <1>5

(* So a vehicle of the queue is put off only where the batch is full. *)
LEMMA BatchIsFull ==
  ASSUME IsGivenOptions(options), NEW assets, IsList(assets),
         \A a \in Elements(assets) : a.aid \in Int /\ a.soc \in Int /\ a.ready \in Int,
         \A i, j \in DOMAIN assets : assets[i].aid = assets[j].aid => i = j,
         NEW z \in Elements(assets), Queued(z), ~InBatch(assets, z)
  PROVE  /\ options.maxAssets # -1
         /\ Cardinality({i \in DOMAIN assets : InBatch(assets, assets[i])}) = options.maxAssets
<1> DEFINE S == QueueOf(assets)
           R == InQueueBefore(assets)
           m == options.maxAssets
           Ahead(a) == {b \in Elements(assets) : Queued(b) /\ Precedes(b, a)}
           places == {i \in DOMAIN assets : InBatch(assets, assets[i])}
           first == {a \in S : Cardinality(Before(R, S, a)) < m}
<1>1. m \in Nat /\ m # -1
  BY DEF InBatch, IsGivenOptions
<1>2. \A a \in Elements(assets) : InBatch(assets, a) <=> Queued(a) /\ Cardinality(Ahead(a)) < m
  BY <1>1 DEF InBatch
<1>3. \A a \in S : Ahead(a) = Before(R, S, a)
  <2> SUFFICES ASSUME NEW a \in S PROVE Ahead(a) = Before(R, S, a)
    OBVIOUS
  <2>1. \A b : b \in Before(R, S, a) <=> b \in S /\ Precedes(b, a)
    BY DEF Before, InQueueBefore
  <2>2. \A b : b \in Ahead(a) <=> b \in S /\ Precedes(b, a)
    BY DEF QueueOf
  <2> QED BY <2>1, <2>2
<1>4. IsFiniteSet(S)
  <2>1. IsFiniteSet(Elements(assets))
    BY CountOfList
  <2> QED BY <2>1, FS_Subset DEF QueueOf
<1>5. IsLine(R, S)
  <2>1. \A a, b \in Elements(assets) : a.aid = b.aid => a = b
    BY DEF Elements
  <2> QED BY <2>1, QueueIsALine
<1>6. z \in S /\ ~(Cardinality(Before(R, S, z)) < m)
  BY <1>2, <1>3 DEF QueueOf
<1>7. Cardinality(first) = m
  <2> HIDE DEF S, R, m
  <2> QED BY <1>1, <1>4, <1>5, <1>6, FirstInLine
<1>8. first = {assets[i] : i \in places}
  <2>1. \A a : a \in first <=> a \in Elements(assets) /\ InBatch(assets, a)
    <3> HIDE DEF R, m, Ahead
    <3>1. \A a : a \in S <=> a \in Elements(assets) /\ Queued(a)
      BY DEF QueueOf
    <3> HIDE DEF S
    <3> QED BY <1>2, <1>3, <3>1
  <2> HIDE DEF first
  <2> QED BY <2>1 DEF Elements
<1>9. IsFiniteSet(places)
  BY PlacesAreFinite
<1>10. Cardinality({assets[i] : i \in places}) = Cardinality(places)
  <2>1. \A i, j \in places : assets[i] = assets[j] => i = j
    OBVIOUS
  <2> HIDE DEF places
  <2> QED BY <1>9, <2>1, CountByName
<1> QED BY <1>1, <1>7, <1>8, <1>10

(* The rows name every vehicle of a set, each in one row. *)
NameOnce(rs, ids) == {r.vehicle : r \in rs} = ids /\ \A r, q \in rs : r.vehicle = q.vehicle => r = q
LEMMA CountOfRows ==
  ASSUME NEW ids, IsFiniteSet(ids), NEW rs, NameOnce(rs, ids)
  PROVE  IsFiniteSet(rs) /\ Cardinality(rs) = Cardinality(ids)
<1> DEFINE f == [id \in ids |-> CHOOSE r \in rs : r.vehicle = id]
<1>1. \A id \in ids : f[id] \in rs /\ f[id].vehicle = id
  <2> SUFFICES ASSUME NEW id \in ids PROVE f[id] \in rs /\ f[id].vehicle = id
    OBVIOUS
  <2>1. \E r \in rs : r.vehicle = id
    BY DEF NameOnce
  <2>2. f[id] = CHOOSE r \in rs : r.vehicle = id
    OBVIOUS
  <2> HIDE DEF f
  <2> QED BY <2>1, <2>2
<1> HIDE DEF f
<1>2. rs = {f[id] : id \in ids}
  <2>1. \A r \in rs : r.vehicle \in ids /\ f[r.vehicle] = r
    BY <1>1 DEF NameOnce
  <2> QED BY <1>1, <2>1
<1>3. IsFiniteSet({f[id] : id \in ids}) /\ Cardinality({f[id] : id \in ids}) = Cardinality(ids)
  BY <1>1, CountByName
<1> QED BY <1>2, <1>3

(* Whom the rows are to name: the vehicles that can be planned, less those of the batch until it is planned. *)
WaitingIn(given, asked) == {v \in Elements(given.vehicles) : IsPlannable(v, asked.states)}
WaitingIds(given, asked) == {v.id : v \in WaitingIn(given, asked)}
AssetIds(y) == {a.aid : a \in Elements(y.assets)}

(* A row written before the plan says true of why its vehicle is not in it. *)
IsPutOff(r, asked, y) ==
  /\ r.abstain = TRUE /\ r.why \notin {"no capacity", "not due"}
  /\ r.why = "outside batch" => asked.maxAssets # -1 /\ Len(y.assets) = asked.maxAssets
  /\ r.why = "not in queue" => r.vehicle \notin Elements(asked.priority)
(* One written from the plan offers a free stall, or says true of why it offers none. *)
IsFreeStall(given, id) == \E st \in Elements(ChargeStalls(given)) : StallIsFree(st) /\ st.id = id
IsPlannedRow(r, p, given) ==
  \/ r.abstain = TRUE /\ r.why = "no capacity" /\ p # <<>> /\ r.vehicle \in RejectedIn(p)
  \/ r.abstain = TRUE /\ r.why = "no charge operation"
  \/ r.abstain = FALSE /\ r.why = Absent /\ r.from \in Int /\ r.vehicle \in ServedIn(p) /\ IsFreeStall(given, r.stall)

(* The invariant: the rows so far name each vehicle that is not in the batch, and those of an answer all. *)
AccountInv ==
  /\ frame # <<>> => IsGiven
  /\ stage \in {"solving", "solved"} =>
       /\ AssetIds(sc) \subseteq WaitingIds(frame, options)
       /\ NameOnce(rows, WaitingIds(frame, options) \ AssetIds(sc))
       /\ \A r \in rows : IsPutOff(r, options, sc)
  /\ stage = "answered" =>
       /\ NameOnce(rows, WaitingIds(frame, options))
       /\ \A r \in rows : IsPutOff(r, options, sc) \/ IsPlannedRow(r, plan, frame)

(* The fields of an abstention. *)
LEMMA AbstainFields ==
  \A id, why : /\ AbstainRow(id, why).vehicle = id /\ AbstainRow(id, why).abstain = TRUE
               /\ AbstainRow(id, why).why = why
BY DEF AbstainRow

(* What the frame itself answers, and what the batch leaves, name whoever is not in the batch. *)
LEMMA TranslateAccounts ==
  ASSUME RowsInv, AccountInv, IsGiven, Translate, Refusal(frame, classTable, options) = "none"
  PROVE  /\ AssetIds(sc)' \subseteq WaitingIds(frame, options)
         /\ NameOnce(rows', WaitingIds(frame, options) \ AssetIds(sc)')
         /\ \A r \in rows' : IsPutOff(r, options, sc')
         /\ stage' = "answered" => AssetIds(sc)' = {}
<1> DEFINE whole == Scenario(frame, classTable, options)
           assets == whole.assets
           S == {i \in DOMAIN assets : InBatch(assets, assets[i])}
           batch == At(assets, S)
           why(v) == AbstainReason(v, classTable, Points(frame, options.site))
           Y == PlannedOf(frame, classTable, options)
           X == {v \in WaitingIn(frame, options) : why(v) # "none"}
           A(v) == Asset(v, classTable, options)
           out == {v \in Y : ~InBatch(assets, A(v))}
           W(a) == IF Queued(a) THEN "outside batch" ELSE "not in queue"
           RowAt(v) == IF v \in X THEN AbstainRow(v.id, why(v)) ELSE AbstainRow(v.id, W(A(v)))
<1>1. /\ sc' = [whole EXCEPT !.assets = batch] /\ options' = options /\ frame' = frame
      /\ rows' = Abstentions(frame, classTable, options) \cup Deferred(assets)
      /\ stage' = IF batch = <<>> THEN "answered" ELSE "solving"
  BY DEF Translate
<1>2. IsGivenFrame(frame) /\ IsGivenOptions(options)
  BY DEF IsGiven
<1>3. /\ IsList(assets) /\ Elements(assets) = {A(v) : v \in Y}
      /\ \A a \in Elements(assets) : a.aid \in Int /\ a.soc \in Int /\ a.ready \in Int
      /\ \A i, j \in DOMAIN assets : assets[i].aid = assets[j].aid => i = j
  <2>1. assets = Scenario(frame, classTable, options).assets /\ AssetsOf(frame, classTable, options) = {A(v) : v \in Y}
    BY DEF AssetsOf
  <2> HIDE DEF assets, A, Y
  <2> QED BY <1>2, <2>1, AssetsOfFrame
<1>4. sc'.assets = batch
  <2>1. "assets" \in DOMAIN whole
    BY DEF Scenario
  <2> HIDE DEF whole, batch
  <2> QED BY <1>1, <2>1
<1>5. /\ Len(batch) = Cardinality(S) /\ Elements(batch) = {a \in Elements(assets) : InBatch(assets, a)}
  <2>1. S \subseteq DOMAIN assets
    OBVIOUS
  <2>2. {assets[i] : i \in S} = {a \in Elements(assets) : InBatch(assets, a)}
    BY DEF Elements
  <2> HIDE DEF assets, S
  <2> QED BY <1>3, <2>1, <2>2, AtTakesAll
<1>6. \A v : A(v).aid = v.id
  BY DEF Asset
<1>7. X \cup Y = WaitingIn(frame, options) /\ X \cap Y = {}
  BY DEF WaitingIn, PlannedOf, IsPlannedIn
<1>8. rows' = {RowAt(v) : v \in X \cup out}
  <2>1. Abstentions(frame, classTable, options) = {AbstainRow(v.id, why(v)) : v \in X}
    BY DEF Abstentions, WaitingIn
  <2>2. Deferred(assets) = {AbstainRow(a.aid, W(a)) : a \in {b \in Elements(assets) : ~InBatch(assets, b)}}
    BY DEF Deferred
  <2> HIDE DEF assets, W, A, Y, X, why
  <2>3. Deferred(assets) = {AbstainRow(v.id, W(A(v))) : v \in out}
    <3>1. {b \in Elements(assets) : ~InBatch(assets, b)} = {A(v) : v \in out}
      BY <1>3
    <3>2. \A v : AbstainRow(A(v).aid, W(A(v))) = AbstainRow(v.id, W(A(v)))
      BY <1>6
    <3> HIDE DEF out
    <3>3. {AbstainRow(a.aid, W(a)) : a \in {A(v) : v \in out}} = {AbstainRow(v.id, W(A(v))) : v \in out}
      BY <3>2
    <3> QED BY <2>2, <3>1, <3>3
  <2>4. X \cap out = {}
    BY <1>7
  <2> HIDE DEF out
  <2>5. {RowAt(v) : v \in X \cup out} = {AbstainRow(v.id, why(v)) : v \in X} \cup {AbstainRow(v.id, W(A(v))) : v \in out}
    BY <2>4
  <2> QED BY <1>1, <2>1, <2>3, <2>5
<1>9. \A v, w \in WaitingIn(frame, options) : v.id = w.id => v = w
  BY <1>2, KnownByIdentity DEF WaitingIn
<1>10. out \subseteq Y /\ AssetIds(sc)' = {v.id : v \in Y \ out}
  <2>1. AssetIds(sc)' = {a.aid : a \in Elements(batch)}
    BY <1>4 DEF AssetIds
  <2> HIDE DEF assets, A, Y, batch
  <2>2. Elements(batch) = {A(v) : v \in Y \ out}
    BY <1>3, <1>5
  <2> HIDE DEF out
  <2>3. {a.aid : a \in {A(v) : v \in Y \ out}} = {v.id : v \in Y \ out}
    BY <1>6
  <2> QED BY <2>1, <2>2, <2>3 DEF out
<1>11. \A v : RowAt(v).vehicle = v.id /\ RowAt(v).abstain = TRUE
  BY AbstainFields
<1>12. ASSUME NEW v \in X \cup out PROVE IsPutOff(RowAt(v), options, sc')
  <2>1. CASE v \in X
    <3>1. RowAt(v).why = why(v)
      BY <2>1, AbstainFields
    <3>2. why(v) \in {"no soc", "at target", "no class", "no inlet", "no capable point", "none"}
      BY DEF AbstainReason
    <3> HIDE DEF RowAt, why
    <3> QED BY <1>11, <3>1, <3>2 DEF IsPutOff
  <2>2. CASE v \in out /\ v \notin X
    <3>1. A(v) \in Elements(assets) /\ ~InBatch(assets, A(v))
      BY <1>3, <2>2
    <3>2. RowAt(v).why = W(A(v))
      BY <2>2, AbstainFields
    <3>3. CASE Queued(A(v))
      <4>1. options.maxAssets # -1 /\ Cardinality(S) = options.maxAssets
        <5> HIDE DEF assets, A
        <5> QED BY <1>2, <1>3, <3>1, <3>3, BatchIsFull
      <4>2. RowAt(v).why = "outside batch"
        BY <3>2, <3>3
      <4> HIDE DEF RowAt, batch, S
      <4> QED BY <1>1, <1>4, <1>5, <1>11, <4>1, <4>2 DEF IsPutOff
    <3>4. CASE ~Queued(A(v))
      <4>1. v.id \notin Elements(options.priority)
        BY <1>6, <3>4 DEF Queued
      <4>2. RowAt(v).why = "not in queue"
        BY <3>2, <3>4
      <4> HIDE DEF RowAt
      <4> QED BY <1>1, <1>11, <4>1, <4>2 DEF IsPutOff
    <3> QED BY <3>3, <3>4
  <2> QED BY <2>1, <2>2
<1>13. stage' = "answered" => AssetIds(sc)' = {}
  <2>1. stage' = "answered" => batch = <<>>
    BY <1>1
  <2>2. Elements(<<>>) = {}
    BY DEF Elements
  <2> HIDE DEF batch
  <2> QED BY <1>4, <2>1, <2>2 DEF AssetIds
<1>14. NameOnce(rows', WaitingIds(frame, options) \ AssetIds(sc)') /\ AssetIds(sc)' \subseteq WaitingIds(frame, options)
  <2> DEFINE ids == WaitingIds(frame, options)
  <2>1. ids = {v.id : v \in X \cup Y}
    BY <1>7 DEF WaitingIds
  <2> HIDE DEF RowAt, X, Y, ids, out
  <2>2. ids \ {v.id : v \in Y \ out} = {v.id : v \in X \cup out}
    BY <1>7, <1>9, <1>10, <2>1
  <2>3. {r.vehicle : r \in rows'} = {v.id : v \in X \cup out}
    BY <1>8, <1>11
  <2>4. \A r, q \in rows' : r.vehicle = q.vehicle => r = q
    BY <1>7, <1>8, <1>9, <1>10, <1>11
  <2> QED BY <1>10, <2>1, <2>2, <2>3, <2>4 DEF NameOnce, ids
<1>15. \A r \in rows' : IsPutOff(r, options, sc')
  <2> HIDE DEF RowAt, X, out
  <2> QED BY <1>8, <1>12
<1> QED BY <1>13, <1>14, <1>15

(* The plan's rows name the batch. *)
LEMMA ShipAccounts ==
  ASSUME ChainInv, AccountInv, Ship
  PROVE  /\ NameOnce(rows', WaitingIds(frame, options))
         /\ \A r \in rows' : IsPutOff(r, options, sc) \/ IsPlannedRow(r, plan, frame)
<1> DEFINE ids == WaitingIds(frame, options)
           given == AssetIds(sc)
           RowAt(i) == PlanRow(sc.assets[i], plan[i])
<1>1. Solving /\ plan # <<>> /\ stage = "solved"
  BY DEF Ship, ChainInv
<1>2. rows' = rows \cup {RowAt(i) : i \in DOMAIN plan}
  BY ShipKeeps DEF Ship
<1>3. /\ given \subseteq ids /\ NameOnce(rows, ids \ given)
      /\ \A r \in rows : IsPutOff(r, options, sc)
  BY <1>1 DEF AccountInv
<1>4. PICK call : plan \in Plans(sc, call)
  BY <1>1 DEF Solving, Chaining, IsPlan
<1>5. IsScenario(sc) /\ DOMAIN plan = DOMAIN sc.assets
  BY <1>1, <1>4, PlanIsTyped DEF Solving, Chaining
<1>6. ASSUME NEW i \in DOMAIN plan
      PROVE  RowAt(i).vehicle = sc.assets[i].aid /\ IsPlannedRow(RowAt(i), plan, frame)
  <2>1. plan[i].aid = sc.assets[i].aid /\ IsItineraryOf(sc, call, sc.assets[i], plan[i])
    BY <1>4, <1>5, PlanIsTyped
  <2>2. CASE plan[i].point = NoPoint
    <3>1. RowAt(i) = AbstainRow(plan[i].aid, NoChargeWhy(plan[i]))
      BY <2>2 DEF PlanRow
    <3>2. /\ RowAt(i).vehicle = plan[i].aid /\ RowAt(i).abstain = TRUE /\ RowAt(i).why = NoChargeWhy(plan[i])
      BY <3>1, AbstainFields
    <3>3. CASE plan[i].served
      <4>1. NoChargeWhy(plan[i]) = "no charge operation"
        BY <3>3 DEF NoChargeWhy
      <4> HIDE DEF RowAt
      <4> QED BY <2>1, <3>2, <4>1 DEF IsPlannedRow
    <3>4. CASE ~plan[i].served
      <4>1. NoChargeWhy(plan[i]) = "no capacity"
        BY <3>4 DEF NoChargeWhy
      <4>2. plan[i].aid \in RejectedIn(plan)
        BY <3>4 DEF RejectedIn
      <4> HIDE DEF RowAt
      <4> QED BY <1>1, <2>1, <3>2, <4>1, <4>2 DEF IsPlannedRow
    <3> QED BY <3>3, <3>4
  <2>3. CASE plan[i].point # NoPoint
    <3> DEFINE r == ChargeRow(sc.assets[i], plan[i])
    <3>1. RowAt(i) = r
      BY <2>3 DEF PlanRow
    <3>2. r.vehicle = plan[i].aid /\ r.abstain = FALSE /\ r.why = Absent
      BY DEF ChargeRow
    <3>3. PICK k \in DOMAIN frame.stalls : \E j \in DOMAIN frame.vehicles : RowStands(r, i, k, j)
      BY <1>1, <1>4, <2>3, ChargeRowStands
    <3> HIDE DEF r
    <3>4. /\ r.stall = frame.stalls[k].id /\ IsUsableStall(frame.stalls[k]) /\ r.from \in Int
      BY <3>3 DEF RowStands
    <3>5. IsFreeStall(frame, r.stall)
      <4>1. IsChargeStall(frame.stalls[k]) /\ StallIsFree(frame.stalls[k])
        BY <3>4 DEF IsUsableStall
      <4> DEFINE S == {n \in DOMAIN frame.stalls : IsChargeStall(frame.stalls[n])}
      <4>2. IsList(frame.stalls) /\ S \subseteq DOMAIN frame.stalls /\ k \in S
        BY <1>1, <4>1 DEF Solving, IsGiven, IsGivenFrame
      <4>3. ChargeStalls(frame) = At(frame.stalls, S)
        BY DEF ChargeStalls
      <4> HIDE DEF S
      <4>4. frame.stalls[k] \in Elements(ChargeStalls(frame))
        BY <4>2, <4>3, AtTakesAll
      <4> QED BY <3>4, <4>1, <4>4 DEF IsFreeStall
    <3>6. plan[i].aid \in ServedIn(plan)
      <4>1. plan[i].served
        BY <2>1, <2>3 DEF IsItineraryOf, Declined
      <4> QED BY <4>1 DEF ServedIn
    <3> HIDE DEF RowAt
    <3> QED BY <2>1, <3>1, <3>2, <3>4, <3>5, <3>6 DEF IsPlannedRow
  <2> QED BY <2>2, <2>3
<1>7. given = {sc.assets[i].aid : i \in DOMAIN plan}
  BY <1>5 DEF AssetIds, Elements
<1>8. \A i, j \in DOMAIN plan : sc.assets[i].aid = sc.assets[j].aid => i = j
  BY <1>5 DEF IsScenario
<1> HIDE DEF RowAt, ids, given
<1>9. {r.vehicle : r \in rows'} = ids
  <2>1. {r.vehicle : r \in rows} = ids \ given
    BY <1>3 DEF NameOnce
  <2>2. {r.vehicle : r \in {RowAt(i) : i \in DOMAIN plan}} = given
    BY <1>6, <1>7
  <2> QED BY <1>2, <1>3, <2>1, <2>2
<1>10. ASSUME NEW r \in rows', NEW q \in rows', r.vehicle = q.vehicle PROVE r = q
  <2> DEFINE planned == {RowAt(i) : i \in DOMAIN plan}
  <2>1. \A x \in rows : x.vehicle \notin given
    BY <1>3 DEF NameOnce
  <2>2. \A x \in planned : x.vehicle \in given
    BY <1>6, <1>7
  <2>3. \A x, z \in planned : x.vehicle = z.vehicle => x = z
    BY <1>6, <1>8
  <2>4. \A x, z \in rows : x.vehicle = z.vehicle => x = z
    BY <1>3 DEF NameOnce
  <2> HIDE DEF planned
  <2> QED BY <1>2, <1>10, <2>1, <2>2, <2>3, <2>4 DEF planned
<1>11. \A r \in rows' : IsPutOff(r, options, sc) \/ IsPlannedRow(r, plan, frame)
  BY <1>2, <1>3, <1>6
<1> QED BY <1>9, <1>10, <1>11 DEF NameOnce, ids

(* No call begins with a row. *)
LEMMA AccountStarts ==
  ASSUME GivenInit
  PROVE  AccountInv
BY DEF GivenInit, AccountInv, Answered

(* Every step keeps the account. *)
LEMMA AccountKeeps ==
  ASSUME ChainInv, RowsInv, AccountInv, [Next]_<<vars, clock, blocked>>
  PROVE  AccountInv'
<1>1. frame' = frame /\ classTable' = classTable /\ options' = options
  <2>1. CASE Translate \/ Solve \/ Ship
    BY <2>1 DEF Translate, Solve, Ship, proposerVars
  <2>2. CASE UNCHANGED proposerVars
    BY <2>2 DEF proposerVars
  <2> QED BY <2>1, <2>2 DEF Next, ProposerNext, vars
<1>2. (frame # <<>> => IsGiven)'
  BY <1>1 DEF AccountInv, IsGiven
<1>3. CASE Translate
  <2>1. IsGiven
    BY <1>3 DEF Translate, ChainInv
  <2>2. CASE Refusal(frame, classTable, options) # "none"
    <3>1. stage' = "refused"
      BY <1>3, <2>2 DEF Translate
    <3> QED BY <1>2, <3>1 DEF AccountInv
  <2>3. CASE Refusal(frame, classTable, options) = "none"
    <3> DEFINE ids == WaitingIds(frame, options)
    <3>1. /\ AssetIds(sc)' \subseteq ids /\ NameOnce(rows', ids \ AssetIds(sc)')
          /\ \A r \in rows' : IsPutOff(r, options, sc')
          /\ stage' = "answered" => AssetIds(sc)' = {}
      BY <1>3, <2>1, <2>3, TranslateAccounts
    <3>2. ids = WaitingIds(frame', options')
      BY <1>1
    <3> HIDE DEF ids
    <3>3. stage' = "answered" => NameOnce(rows', ids)
      <4>1. ids \ {} = ids
        OBVIOUS
      <4> QED BY <3>1, <4>1
    <3> QED BY <1>1, <1>2, <3>1, <3>2, <3>3 DEF AccountInv
  <2> QED BY <2>2, <2>3
<1>4. CASE Solve
  <2>1. stage = "solving" /\ rows' = rows /\ sc' = sc
    BY <1>4 DEF Solve, Pass, proposerVars
  <2>2. stage' # "answered"
    BY <1>4, SolveGoesOn
  <2> QED BY <1>1, <1>2, <2>1, <2>2 DEF AccountInv
<1>5. CASE Ship
  <2>1. stage' = "answered" /\ sc' = sc /\ plan' = plan
    BY <1>5, ShipKeeps DEF Ship
  <2>2. /\ NameOnce(rows', WaitingIds(frame, options))
        /\ \A r \in rows' : IsPutOff(r, options, sc) \/ IsPlannedRow(r, plan, frame)
    BY <1>5, ShipAccounts
  <2> QED BY <1>1, <1>2, <2>1, <2>2 DEF AccountInv
<1>6. CASE RollingNext /\ UNCHANGED proposerVars
  <2>1. stage' \in {"rolling", "carried out", "no schedule", "price refused"}
    BY <1>6, RollingEnds
  <2> QED BY <1>2, <2>1 DEF AccountInv
<1>7. CASE UNCHANGED <<vars, clock, blocked>>
  <2>1. stage' = stage /\ rows' = rows /\ sc' = sc /\ plan' = plan
    BY <1>7 DEF vars, chainVars, proposerVars
  <2> QED BY <1>1, <1>2, <2>1 DEF AccountInv
<1> QED BY <1>3, <1>4, <1>5, <1>6, <1>7 DEF Next, ProposerNext

(* What the record of a fire says. *)
Sent == IF stage = "answered" THEN OnlyDueNow ELSE {}
LEMMA RecordSays ==
  /\ FireResult.rows = Sent
  /\ FireResult.record.error = (stage # "answered")
  /\ FireResult.record.held = VehiclesHeld(frame, options.states)
  /\ FireResult.record.busy = SeenIn(frame, options.states).busy
  /\ FireResult.record.chargeStalls = SeenIn(frame, options.states).chargeStalls
  /\ stage # "answered" => FireResult.record.planned = 0 /\ FireResult.record.abstained = 0
  /\ stage = "answered" =>
       /\ FireResult.record.planned = Cardinality({r \in rows : ~r.abstain}) - Cardinality(NotDueRows)
       /\ FireResult.record.abstained = Cardinality({r \in rows : r.abstain}) + Cardinality(NotDueRows)
       /\ plan # <<>> => FireResult.record.solver.rejected = RejectedIn(plan)
<1> DEFINE said == IF stage = "answered" THEN CountsOf(rows, Sent) ELSE NothingSaid
           seen == SeenIn(frame, options.states)
           record == Merged(said, seen)
<1>1. FireResult.rows = Sent /\ FireResult.record = record
  BY DEF FireResult, Sent
<1>2. DOMAIN seen = {"chargeStalls", "blocked", "busy", "held"} /\ seen.held = VehiclesHeld(frame, options.states)
  BY DEF SeenIn
<1>3. /\ DOMAIN said = {"status", "planned", "abstained", "deferred", "notDue", "error", "solver"}
      /\ stage # "answered" => said.planned = 0 /\ said.abstained = 0 /\ said.error = TRUE
      /\ stage = "answered" =>
           /\ said.planned = Cardinality({r \in rows : ~r.abstain}) - Cardinality(NotDueRows)
           /\ said.abstained = Cardinality({r \in rows : r.abstain}) + Cardinality(NotDueRows)
           /\ said.error = FALSE
           /\ plan # <<>> => said.solver.rejected = RejectedIn(plan)
  <2>1. CASE stage = "answered"
    <3>1. said = CountsOf(rows, Sent)
      BY <2>1
    <3> HIDE DEF said
    <3>2. plan # <<>> => said.solver = SolverRecord
      BY <3>1 DEF CountsOf
    <3>3. SolverRecord.rejected = RejectedIn(plan)
      BY DEF SolverRecord
    <3>4. /\ DOMAIN said = {"status", "planned", "abstained", "deferred", "notDue", "error", "solver"}
          /\ said.planned = Cardinality({r \in rows : ~r.abstain}) - Cardinality(NotDueRows)
          /\ said.abstained = Cardinality({r \in rows : r.abstain}) + Cardinality(NotDueRows)
          /\ said.error = FALSE
      BY <3>1 DEF CountsOf
    <3> QED BY <2>1, <3>2, <3>3, <3>4
  <2>2. CASE stage # "answered"
    BY <2>2 DEF NothingSaid
  <2> QED BY <2>1, <2>2
<1> HIDE DEF said, seen
<1>4. /\ record.error = said.error /\ record.planned = said.planned /\ record.abstained = said.abstained
      /\ record.solver = said.solver /\ record.held = seen.held /\ record.busy = seen.busy
      /\ record.chargeStalls = seen.chargeStalls
  BY <1>2, <1>3 DEF Merged
<1> HIDE DEF record
<1> QED BY <1>1, <1>2, <1>3, <1>4 DEF seen

(* What is sent names whom the rows name: a charge that is not due yet says so, and is of a vehicle served. *)
LEMMA SentNames ==
  ASSUME IsGivenOptions(options), NEW ids, NameOnce(rows, ids),
         \A r \in rows : IsPutOff(r, options, sc) \/ IsPlannedRow(r, plan, frame)
  PROVE  /\ NameOnce(OnlyDueNow, ids)
         /\ \A r \in OnlyDueNow :
              \/ IsPutOff(r, options, sc)
              \/ IsPlannedRow(r, plan, frame) /\ (~r.abstain => r.from <= options.startWithin)
              \/ r.abstain = TRUE /\ r.why = "not due" /\ options.startWithin < r.from /\ r.vehicle \in ServedIn(plan)
<1> DEFINE due(r) == IF IsDueNow(r) THEN r ELSE NotDueRow(r)
<1>1. OnlyDueNow = {due(r) : r \in rows}
  BY DEF OnlyDueNow
<1>2. \A r : /\ NotDueRow(r).vehicle = r.vehicle /\ NotDueRow(r).abstain = TRUE /\ NotDueRow(r).why = "not due"
             /\ NotDueRow(r).from = r.from
  BY DEF NotDueRow, AbstainRow
<1>3. \A r : due(r).vehicle = r.vehicle
  BY <1>2
<1>4. ASSUME NEW q \in rows
      PROVE  \/ IsPutOff(due(q), options, sc)
             \/ IsPlannedRow(due(q), plan, frame) /\ (~due(q).abstain => due(q).from <= options.startWithin)
             \/ /\ due(q).abstain = TRUE /\ due(q).why = "not due" /\ options.startWithin < due(q).from
                /\ due(q).vehicle \in ServedIn(plan)
  <2>1. CASE IsDueNow(q)
    <3>1. due(q) = q /\ (~q.abstain => q.from <= options.startWithin)
      BY <2>1 DEF IsDueNow
    <3> HIDE DEF due
    <3> QED BY <3>1
  <2>2. CASE ~IsDueNow(q)
    <3>1. ~q.abstain /\ ~(q.from <= options.startWithin)
      BY <2>2 DEF IsDueNow
    <3>2. q.from \in Int /\ q.vehicle \in ServedIn(plan)
      BY <3>1 DEF IsPutOff, IsPlannedRow
    <3>3. options.startWithin < q.from
      <4>1. options.startWithin \in Int
        BY DEF IsGivenOptions
      <4> HIDE DEF due
      <4> QED BY <3>1, <3>2, <4>1
    <3>4. due(q) = NotDueRow(q)
      BY <2>2
    <3> HIDE DEF due
    <3> QED BY <1>2, <3>2, <3>3, <3>4
  <2> QED BY <2>1, <2>2
<1> HIDE DEF due
<1>5. NameOnce(OnlyDueNow, ids)
  <2>1. {r.vehicle : r \in rows} = ids /\ \A r, q \in rows : r.vehicle = q.vehicle => r = q
    BY DEF NameOnce
  <2>2. {r.vehicle : r \in OnlyDueNow} = {r.vehicle : r \in rows}
    BY <1>1, <1>3
  <2>3. \A r, q \in OnlyDueNow : r.vehicle = q.vehicle => r = q
    BY <1>1, <1>3, <2>1
  <2> QED BY <2>1, <2>2, <2>3 DEF NameOnce
<1> QED BY <1>1, <1>4, <1>5

(* A vehicle that may be charged has a place, or waits. *)
LEMMA WaitingOrHeld ==
  ASSUME NEW given, IsGivenFrame(given), NEW asked
  PROVE  /\ IsFiniteSet(WaitingIds(given, asked))
         /\ Cardinality(WaitingIds(given, asked)) \in Nat
         /\ Cardinality(WaitingIds(given, asked)) + VehiclesHeld(given, asked.states)
              = Cardinality({v \in Elements(given.vehicles) : IsServiceable(v, asked.states)})
<1> DEFINE all == {v \in Elements(given.vehicles) : IsServiceable(v, asked.states)}
           held == {v \in Elements(given.vehicles) : IsServiceable(v, asked.states) /\ VehicleIsHeld(v)}
           waiting == WaitingIn(given, asked)
           f == [v \in waiting |-> v.id]
<1>1. IsFiniteSet(all)
  <2>1. IsFiniteSet(Elements(given.vehicles))
    BY CountOfList DEF IsGivenFrame
  <2> QED BY <2>1, FS_Subset
<1>2. waiting \cup held = all /\ waiting \cap held = {}
  BY DEF WaitingIn, IsPlannable
<1>3. VehiclesHeld(given, asked.states) = Cardinality(held)
  BY DEF VehiclesHeld
<1>4. \A v, w \in waiting : f[v] = f[w] => v = w
  BY KnownByIdentity DEF WaitingIn
<1>5. WaitingIds(given, asked) = {f[v] : v \in waiting}
  BY DEF WaitingIds
<1> HIDE DEF all, held, waiting, f
<1>6. IsFiniteSet(waiting) /\ Cardinality(waiting) + Cardinality(held) = Cardinality(all) /\ Cardinality(waiting) \in Nat
  BY <1>1, <1>2, CountInParts
<1>7. IsFiniteSet({f[v] : v \in waiting}) /\ Cardinality({f[v] : v \in waiting}) = Cardinality(waiting)
  BY <1>4, <1>6, CountByName
<1> QED BY <1>3, <1>5, <1>6, <1>7 DEF all

(* What the account kept means of what is sent: the rows name who waits, each once, when there is an answer. *)
LEMMA SentIsAnAccount ==
  ASSUME AccountInv, Fired
  PROVE  /\ IsGiven
         /\ NameOnce(Sent, IF stage = "answered" THEN WaitingIds(frame, options) ELSE {})
         /\ \A r \in Sent :
              \/ IsPutOff(r, options, sc)
              \/ IsPlannedRow(r, plan, frame) /\ (~r.abstain => r.from <= options.startWithin)
              \/ r.abstain = TRUE /\ r.why = "not due" /\ options.startWithin < r.from /\ r.vehicle \in ServedIn(plan)
<1>1. IsGiven
  BY DEF AccountInv, Fired
<1>2. CASE stage = "answered"
  BY <1>1, <1>2, SentNames DEF AccountInv, Sent, IsGiven
<1>3. CASE stage # "answered"
  BY <1>1, <1>3 DEF Sent, NameOnce
<1> QED BY <1>2, <1>3

(* One row names each that is named, and none any other. *)
LEMMA NamedOnce ==
  ASSUME NEW rs, NEW ids, NameOnce(rs, ids), NEW id
  PROVE  Cardinality({r \in rs : r.vehicle = id}) = IF id \in ids THEN 1 ELSE 0
<1> DEFINE named == {r \in rs : r.vehicle = id}
<1>1. CASE id \in ids
  <2>1. PICK r \in rs : r.vehicle = id
    BY <1>1 DEF NameOnce
  <2>2. named = {r}
    BY <2>1 DEF NameOnce
  <2>3. Cardinality(named) = 1
    BY <2>2, FS_Singleton
  <2> QED BY <1>1, <2>3
<1>2. CASE id \notin ids
  <2>1. named = {}
    BY <1>2 DEF NameOnce
  <2>2. Cardinality(named) = 0
    BY <2>1, FS_EmptySet
  <2> QED BY <1>2, <2>2
<1> QED BY <1>1, <1>2

(* The numbers published are those of the rows sent: a charge put off moves from one count to the other. *)
LEMMA CountsAddUp ==
  ASSUME AccountInv, Fired
  PROVE  /\ FireResult.record.planned + FireResult.record.abstained = Cardinality(Sent)
         /\ stage = "answered" => Cardinality(Sent) = Cardinality(WaitingIds(frame, options))
<1>1. IsGivenFrame(frame)
  BY SentIsAnAccount DEF IsGiven
<1>2. CASE stage = "answered"
  <2>1. IsFiniteSet(WaitingIds(frame, options))
    BY <1>1, WaitingOrHeld
  <2>2. IsFiniteSet(rows) /\ Cardinality(rows) = Cardinality(WaitingIds(frame, options))
    BY <1>2, <2>1, CountOfRows DEF AccountInv
  <2>3. Cardinality(Sent) = Cardinality(WaitingIds(frame, options))
    <3>1. NameOnce(Sent, WaitingIds(frame, options))
      BY <1>2, SentIsAnAccount
    <3> QED BY <2>1, <3>1, CountOfRows
  <2>4. /\ Cardinality({r \in rows : r.abstain}) \in Nat /\ Cardinality({r \in rows : ~r.abstain}) \in Nat
        /\ Cardinality({r \in rows : r.abstain}) + Cardinality({r \in rows : ~r.abstain}) = Cardinality(rows)
    <3> DEFINE abstaining == {r \in rows : r.abstain}
               planned == {r \in rows : ~r.abstain}
    <3>1. abstaining \cup planned = rows /\ abstaining \cap planned = {}
      OBVIOUS
    <3> HIDE DEF abstaining, planned
    <3>2. /\ Cardinality(abstaining) \in Nat /\ Cardinality(planned) \in Nat
          /\ Cardinality(abstaining) + Cardinality(planned) = Cardinality(rows)
      BY <2>2, <3>1, CountInParts
    <3> QED BY <3>2 DEF abstaining, planned
  <2>5. Cardinality(NotDueRows) \in Nat
    BY <2>2, FS_Subset, FS_CardinalityType DEF NotDueRows
  <2> QED BY <1>2, <2>2, <2>3, <2>4, <2>5, RecordSays
<1>3. CASE stage # "answered"
  <2>1. Cardinality(Sent) = 0
    BY <1>3, FS_EmptySet DEF Sent
  <2> QED BY <1>3, <2>1, RecordSays
<1> QED BY <1>2, <1>3

(* A row by the door goes alone, and what goes there is what a batch would hold. *)
LEMMA DoorTakesAll ==
  ASSUME NEW result
  PROVE  /\ \A call \in EmitSql(result, "door") : Cardinality(call.rows) = 1
         /\ UNION {call.rows : call \in EmitSql(result, "door")} = UNION {call.rows : call \in EmitSql(result, "batch")}
<1>1. EmitSql(result, "door") = {DoorCallSql(r) : r \in result.rows} /\ EmitSql(result, "batch") = {BatchCallSql(result)}
  BY DEF EmitSql
<1>2. \A r : DoorCallSql(r).rows = {r} /\ Cardinality({r}) = 1
  BY FS_Singleton DEF DoorCallSql
<1>3. BatchCallSql(result).rows = result.rows
  BY DEF BatchCallSql
<1>4. UNION {call.rows : call \in EmitSql(result, "door")} = result.rows
  BY <1>1, <1>2
<1>5. UNION {call.rows : call \in EmitSql(result, "batch")} = result.rows
  BY <1>1, <1>3
<1>6. ASSUME NEW call \in EmitSql(result, "door") PROVE Cardinality(call.rows) = 1
  <2>1. PICK r : call = DoorCallSql(r)
    BY <1>1
  <2> QED BY <1>2, <2>1
<1> QED BY <1>4, <1>5, <1>6

(* Kept account of, every vehicle is accounted for. *)
LEMMA AccountMeans == AccountInv => EveryVehicleIsAccounted
<1> SUFFICES ASSUME AccountInv, Fired PROVE EveryVehicleIsAccounted
  BY DEF EveryVehicleIsAccounted
<1> DEFINE record == FireResult.record
           vehicles == Elements(frame.vehicles)
           free == {st \in Elements(ChargeStalls(frame)) : StallIsFree(st)}
<1>1. FireResult.rows = Sent /\ IsGiven /\ record.error = (stage # "answered")
  BY SentIsAnAccount, RecordSays
<1>2. \A v \in vehicles :
        Cardinality({r \in Sent : r.vehicle = v.id})
          = IF (IsServiceable(v, options.states) /\ ~VehicleIsHeld(v)) /\ ~record.error THEN 1 ELSE 0
  <2> SUFFICES ASSUME NEW v \in vehicles
               PROVE  Cardinality({r \in Sent : r.vehicle = v.id})
                        = IF (IsServiceable(v, options.states) /\ ~VehicleIsHeld(v)) /\ ~record.error THEN 1 ELSE 0
    OBVIOUS
  <2>1. IsPlannable(v, options.states) <=> IsServiceable(v, options.states) /\ ~VehicleIsHeld(v)
    BY DEF IsPlannable
  <2>2. Cardinality({r \in Sent : r.vehicle = v.id})
          = IF IsPlannable(v, options.states) /\ stage = "answered" THEN 1 ELSE 0
    <3> DEFINE ids == IF stage = "answered" THEN WaitingIds(frame, options) ELSE {}
    <3>1. v.id \in ids <=> IsPlannable(v, options.states) /\ stage = "answered"
      <4>1. v.id \in WaitingIds(frame, options) <=> IsPlannable(v, options.states)
        BY <1>1, KnownByIdentity DEF WaitingIds, WaitingIn, IsGiven
      <4> QED BY <4>1
    <3>2. NameOnce(Sent, ids)
      BY SentIsAnAccount
    <3> HIDE DEF ids
    <3>3. Cardinality({r \in Sent : r.vehicle = v.id}) = IF v.id \in ids THEN 1 ELSE 0
      BY <3>2, NamedOnce
    <3> QED BY <3>1, <3>3
  <2> QED BY <1>1, <2>1, <2>2
<1>3. record.planned + record.abstained = Cardinality(Sent)
  BY CountsAddUp
<1>4. ~record.error => record.planned + record.abstained + record.held
                         = Cardinality({v \in vehicles : IsServiceable(v, options.states)})
  BY <1>1, CountsAddUp, WaitingOrHeld, RecordSays DEF IsGiven
<1>5. record.busy + Cardinality(free) = record.chargeStalls
  BY <1>1, StallsAddUp, RecordSays DEF IsGiven
<1>6. ASSUME NEW r \in Sent
      PROVE  CASE ~r.abstain -> r.from <= options.startWithin /\ \E st \in free : st.id = r.stall
               [] r.why = "not due" -> options.startWithin < r.from /\ r.vehicle \in ServedIn(plan)
               [] r.why = "no capacity" -> r.vehicle \in record.solver.rejected
               [] r.why = "outside batch" -> options.maxAssets # -1 /\ Len(sc.assets) = options.maxAssets
               [] r.why = "not in queue" -> r.vehicle \notin Elements(options.priority)
               [] OTHER -> TRUE
  <2>1. stage = "answered"
    BY <1>6 DEF Sent
  <2>2. CASE r.abstain = FALSE
    <3>1. IsPlannedRow(r, plan, frame) /\ (~r.abstain => r.from <= options.startWithin)
      BY <1>6, <2>2, SentIsAnAccount DEF IsPutOff
    <3>2. r.why \notin {"not due", "no capacity", "outside batch", "not in queue"}
      BY <2>2, <3>1 DEF IsPlannedRow, Absent
    <3>3. r.from <= options.startWithin /\ \E st \in free : st.id = r.stall
      BY <2>2, <3>1 DEF IsPlannedRow, IsFreeStall
    <3> QED BY <2>2, <3>2, <3>3
  <2>3. CASE IsPutOff(r, options, sc)
    BY <2>3 DEF IsPutOff
  <2>4. CASE r.abstain = TRUE /\ IsPlannedRow(r, plan, frame)
    BY <2>1, <2>4, RecordSays DEF IsPlannedRow
  <2>5. CASE r.abstain = TRUE /\ r.why = "not due" /\ options.startWithin < r.from /\ r.vehicle \in ServedIn(plan)
    BY <2>5
  <2> QED BY <1>6, <2>2, <2>3, <2>4, <2>5, SentIsAnAccount DEF IsPlannedRow
<1> HIDE DEF record, vehicles, free
<1> QED BY <1>1, <1>2, <1>3, <1>4, <1>5, <1>6, DoorTakesAll DEF EveryVehicleIsAccounted, record, vehicles, free

(***************************************************************************)
(* bridge/proposer_bridge.py, fire: for any frame, class table and options *)
(* whose vehicles and stalls are told apart, each vehicle that may charge  *)
(* is in one row or has a place already, whoever is put off is put off for *)
(* a reason that is true of it, and the counts published add up.           *)
(***************************************************************************)
THEOREM EveryoneIsAnswered == GivenSpec => []EveryVehicleIsAccounted
<1>1. GivenInit => RowsInv
  BY DEF GivenInit, RowsInv, OfferedIsTakeable, Answered
<1> QED BY <1>1, AccountStarts, AccountKeeps, AccountMeans, ChainStarts, ChainKeeps, RowsKeep, PTL DEF GivenSpec

(* The run's frames, tables and options are such. *)
THEOREM EveryoneIsAnsweredInTheRun == Spec => []EveryVehicleIsAccounted
<1>1. Init => GivenInit
  BY RunIsGiven
<1> QED BY <1>1, EveryoneIsAnswered, PTL DEF Spec, GivenSpec

-----------------------------------------------------------------------------
(* What a record that says "complete" claims: no plan that serves whom it serves is better.  A call that *)
(* carries a plan over at minute 0 pins nothing, so its plans are those of a call that carries none.     *)
IsUnpinned(call, a) == Pinned(call, a) = {} /\ call.blocked = {}

(* A place, parallel work, a wash and an inspection make an itinerary. *)
LEMMA ServedBuilt ==
  ASSUME NEW y, NEW call, NEW a, NEW c \in PlacesFor(y, call, a), NEW t \in ParallelTimes(y, a, c.start),
         NEW w \in WashVisits(y, call, a, StayEnd(y, a, c.start + c.minutes, t)),
         NEW i \in InspectVisits(y, call, a, AfterWashOf(y, StayEnd(y, a, c.start + c.minutes, t), w)),
         NEW late \in LateOf(y, call, a, FinishOf(y, StayEnd(y, a, c.start + c.minutes, t), w, i))
  PROVE  ItineraryOf(y, a, c, t, w, i, late) \in ServedItineraries(y, call, a)
<1> DEFINE Stayed(d) == {[stay |-> StayEnd(y, a, d.start + d.minutes, u), times |-> u] : u \in ParallelTimes(y, a, d.start)}
           Late(f) == Most(0, f - a.ready)
           Whole(d, s, v, k, l) ==
             [aid |-> a.aid, served |-> TRUE, point |-> d.point, start |-> d.start,
              chargeEnd |-> d.start + d.minutes, stayEnd |-> s.stay, parallel |-> s.times,
              wash |-> v, inspect |-> k, finish |-> FinishOf(y, s.stay, v, k), tardy |-> l]
           ByInspection(d, s, v, k) ==
             {Whole(d, s, v, k, l) : l \in Late(FinishOf(y, s.stay, v, k)) ..
                                        Least(y.horizon, Late(FinishOf(y, s.stay, v, k)) + call.slack)}
           ByWash(d, s, v) == UNION {ByInspection(d, s, v, k) : k \in InspectVisits(y, call, a, AfterWashOf(y, s.stay, v))}
           ByStay(d, s) == UNION {ByWash(d, s, v) : v \in WashVisits(y, call, a, s.stay)}
           ByPlace(d) == UNION {ByStay(d, s) : s \in Stayed(d)}
           stay == StayEnd(y, a, c.start + c.minutes, t)
           s == [stay |-> stay, times |-> t]
           it == ItineraryOf(y, a, c, t, w, i, late)
<1>1. ServedItineraries(y, call, a) = UNION {ByPlace(d) : d \in PlacesFor(y, call, a)}
  BY Zenon DEF ServedItineraries, PlacesFor, FinishOf, AfterWashOf
<1>2. s.stay = stay /\ s.times = t /\ s \in Stayed(c)
  OBVIOUS
<1>3. it = Whole(c, s, w, i, late)
  BY <1>2, Zenon DEF ItineraryOf
<1>4. late \in Late(FinishOf(y, s.stay, w, i)) .. Least(y.horizon, Late(FinishOf(y, s.stay, w, i)) + call.slack)
  BY <1>2, Zenon DEF LateOf, LateBy
<1>5. w \in WashVisits(y, call, a, s.stay) /\ i \in InspectVisits(y, call, a, AfterWashOf(y, s.stay, w))
  BY <1>2, Zenon
<1> HIDE DEF s, it, stay, Stayed, Whole, Late
<1>6. it \in ByInspection(c, s, w, i)
  BY <1>3, <1>4
<1> HIDE DEF ByInspection
<1>7. it \in ByWash(c, s, w)
  BY <1>5, <1>6
<1> HIDE DEF ByWash
<1>8. it \in ByStay(c, s)
  BY <1>5, <1>7
<1> HIDE DEF ByStay
<1>9. it \in ByPlace(c)
  BY <1>2, <1>8
<1> HIDE DEF ByPlace
<1>10. it \in UNION {ByPlace(d) : d \in PlacesFor(y, call, a)}
  BY <1>9
<1> QED BY <1>1, <1>10 DEF it

(* Two calls that pin nothing of a vehicle and have every point in service offer it the same work. *)
LEMMA SameWork ==
  ASSUME NEW y, NEW c1, NEW c2, NEW a, IsUnpinned(c1, a), IsUnpinned(c2, a)
  PROVE  /\ NeedsCharge(y, c1, a) = NeedsCharge(y, c2, a) /\ PlacesFor(y, c1, a) = PlacesFor(y, c2, a)
         /\ \A after : WashVisits(y, c1, a, after) = WashVisits(y, c2, a, after)
         /\ \A after : InspectVisits(y, c1, a, after) = InspectVisits(y, c2, a, after)
<1>1. \A op, S : Usable(c1, a, op, S) = S /\ Usable(c2, a, op, S) = S
  BY DEF Usable, IsUnpinned
<1>2. ChargeCandidates(y, c1, a) = ChargeCandidates(y, c2, a)
  BY <1>1, ZenonT(60) DEF ChargeCandidates
<1>3. NeedsCharge(y, c1, a) = NeedsCharge(y, c2, a)
  BY <1>2, Zenon DEF NeedsCharge
<1>4. "charge" \notin Pinned(c1, a) /\ "charge" \notin Pinned(c2, a) /\ "wash" \notin Pinned(c1, a) /\ "wash" \notin Pinned(c2, a)
  BY DEF IsUnpinned
<1>5. ChargePlaces(y, c1, a) = ChargePlaces(y, c2, a)
  <2> DEFINE Free(C) == {[point |-> p.id, start |-> s, minutes |-> ChainMinutes(ChargeSegments(y, a, p.kw))] :
                           p \in C, s \in a.arrival .. y.horizon}
             Fits(C) == {c \in Free(C) : c.start + c.minutes <= y.horizon}
             Same(call, C) == {c \in Fits(C) : c.point = PreviousOf(call, a).point /\ c.start = PreviousOf(call, a).start}
  <2>1. ASSUME NEW call
        PROVE  ChargePlaces(y, call, a) = IF "charge" \notin Pinned(call, a) THEN Fits(ChargeCandidates(y, call, a))
                                          ELSE Same(call, ChargeCandidates(y, call, a))
    BY DEF ChargePlaces
  <2> HIDE DEF Fits, Same
  <2> QED BY <1>2, <1>4, <2>1
<1>6. PlacesFor(y, c1, a) = PlacesFor(y, c2, a)
  BY <1>3, <1>5, Zenon DEF PlacesFor
<1>7. ASSUME NEW op, NEW kind, NEW minutes, NEW after
      PROVE  BayVisits(y, c1, a, op, kind, minutes, after) = BayVisits(y, c2, a, op, kind, minutes, after)
  BY <1>1, Zenon DEF BayVisits
<1>8. \A after : WashVisits(y, c1, a, after) = WashVisits(y, c2, a, after)
  BY <1>4, <1>7, Zenon DEF WashVisits
<1>9. \A after : InspectVisits(y, c1, a, after) = InspectVisits(y, c2, a, after)
  BY <1>7, Zenon DEF InspectVisits
<1> QED BY <1>3, <1>6, <1>8, <1>9

(* What a narrower call admits a wider one does: it allows as much lateness, and asks for nobody who is declined. *)
IsWider(wide, narrow) == narrow.slack \in Nat /\ wide.slack \in Nat /\ narrow.slack <= wide.slack
                         /\ (narrow.allowRejection => wide.allowRejection)
LEMMA ItineraryWidens ==
  ASSUME NEW y, IsScenario(y), NEW a, IsAssetIn(y, a), NEW c1, NEW c2, IsUnpinned(c1, a), IsUnpinned(c2, a), IsWider(c2, c1),
         NEW it \in Itineraries(y, c1, a), it.served \/ a.aid \notin c2.requireServed
  PROVE  it \in Itineraries(y, c2, a)
<1>1. /\ NeedsCharge(y, c1, a) = NeedsCharge(y, c2, a) /\ PlacesFor(y, c1, a) = PlacesFor(y, c2, a)
      /\ \A after : WashVisits(y, c1, a, after) = WashVisits(y, c2, a, after)
      /\ \A after : InspectVisits(y, c1, a, after) = InspectVisits(y, c2, a, after)
  BY SameWork
<1>2. CASE it \in ServedItineraries(y, c1, a)
  <2>1. PICK c \in PlacesFor(y, c1, a) : \E t \in ParallelTimes(y, a, c.start) :
         \E w \in WashVisits(y, c1, a, StayEnd(y, a, c.start + c.minutes, t)) :
         \E i \in InspectVisits(y, c1, a, AfterWashOf(y, StayEnd(y, a, c.start + c.minutes, t), w)) :
         \E late \in LateOf(y, c1, a, FinishOf(y, StayEnd(y, a, c.start + c.minutes, t), w, i)) :
           it = ItineraryOf(y, a, c, t, w, i, late)
    BY <1>2, ServedForm
  <2>2. PICK t \in ParallelTimes(y, a, c.start) :
         \E w \in WashVisits(y, c1, a, StayEnd(y, a, c.start + c.minutes, t)) :
         \E i \in InspectVisits(y, c1, a, AfterWashOf(y, StayEnd(y, a, c.start + c.minutes, t), w)) :
         \E late \in LateOf(y, c1, a, FinishOf(y, StayEnd(y, a, c.start + c.minutes, t), w, i)) :
           it = ItineraryOf(y, a, c, t, w, i, late)
    BY <2>1
  <2> DEFINE stay == StayEnd(y, a, c.start + c.minutes, t)
  <2>3. PICK w \in WashVisits(y, c1, a, stay) :
         \E i \in InspectVisits(y, c1, a, AfterWashOf(y, stay, w)) :
         \E late \in LateOf(y, c1, a, FinishOf(y, stay, w, i)) : it = ItineraryOf(y, a, c, t, w, i, late)
    BY <2>2
  <2>4. PICK i \in InspectVisits(y, c1, a, AfterWashOf(y, stay, w)) :
         \E late \in LateOf(y, c1, a, FinishOf(y, stay, w, i)) : it = ItineraryOf(y, a, c, t, w, i, late)
    BY <2>3
  <2>5. PICK late \in LateOf(y, c1, a, FinishOf(y, stay, w, i)) : it = ItineraryOf(y, a, c, t, w, i, late)
    BY <2>4
  <2> DEFINE f == FinishOf(y, stay, w, i)
             end == c.start + c.minutes
  <2>6. it.finish = f
    <3>1. it = [aid |-> a.aid, served |-> TRUE, point |-> c.point, start |-> c.start, chargeEnd |-> end,
                stayEnd |-> stay, parallel |-> t, wash |-> w, inspect |-> i, finish |-> f, tardy |-> late]
      BY <2>5, Zenon DEF ItineraryOf
    <3> HIDE DEF end, stay, f
    <3> QED BY <3>1
  <2>7. f \in Nat
    BY <2>6, ItineraryIsTyped DEF IsItineraryOf
  <2>8. late \in LateOf(y, c2, a, f)
    <3>1. late \in LateOf(y, c1, a, f)
      BY <2>5
    <3> HIDE DEF f
    <3>2. LateBy(a, f) \in Int
      BY <2>7 DEF LateBy, Most, IsAssetIn
    <3> QED BY <3>1, <3>2 DEF LateOf, Least, IsWider, IsScenario
  <2>9. c \in PlacesFor(y, c2, a) /\ w \in WashVisits(y, c2, a, stay) /\ i \in InspectVisits(y, c2, a, AfterWashOf(y, stay, w))
    BY <1>1, <2>1, <2>3, <2>4, Zenon
  <2>10. it \in ServedItineraries(y, c2, a)
    BY <2>2, <2>5, <2>8, <2>9, ServedBuilt
  <2> QED BY <2>10 DEF Itineraries
<1>3. CASE it \notin ServedItineraries(y, c1, a)
  <2>1. /\ it = Declined(a) /\ c1.allowRejection /\ NeedsCharge(y, c1, a) /\ ParallelTimes(y, a, a.arrival) # {}
    BY <1>3 DEF Itineraries
  <2>2. ~it.served
    BY <2>1 DEF Declined
  <2>3. c2.allowRejection /\ NeedsCharge(y, c2, a) /\ Pinned(c2, a) \cap {"charge", "wash"} = {} /\ a.aid \notin c2.requireServed
    BY <1>1, <2>1, <2>2 DEF IsWider, IsUnpinned
  <2> QED BY <2>1, <2>3 DEF Itineraries
<1> QED BY <1>2, <1>3

(* A plan of one call, each itinerary of which another call admits, is a plan of the other. *)
LEMMA PlansWiden ==
  ASSUME NEW y, HasAssets(y), NEW c1, NEW c2, NEW p \in Plans(y, c1),
         \A i \in DOMAIN p : p[i] \in Itineraries(y, c2, y.assets[i])
  PROVE  p \in Plans(y, c2)
<1> DEFINE N == Len(y.assets)
           It(n) == Itineraries(y, c1, y.assets[n])
           To(n) == Itineraries(y, c2, y.assets[n])
           U == UNION {It(n) : n \in 1 .. N}
           j == CHOOSE k : IsJoint(y, c1, k, N)
           l == CHOOSE k : IsJoint(y, c2, k, N)
           Goes(n, q) == (\A i \in 1 .. n : q[i] \in To(i)) => q \in l[n]
           Good(n) == \A q \in j[n] : q \in Seq(U) /\ Len(q) = n /\ Goes(n, q)
           Bad == {n \in 0 .. N : ~Good(n)}
<1>1. N \in Nat
  BY DEF HasAssets
<1>2. IsJoint(y, c1, j, N) /\ IsJoint(y, c2, l, N)
  <2>1. (\E k : IsJoint(y, c1, k, N)) /\ (\E k : IsJoint(y, c2, k, N))
    BY <1>1, JointExists
  <2> HIDE DEF N
  <2> QED BY <2>1
<1>3. /\ \A n \in 0 .. N : j[n] = IF n = 0 THEN {<<>>} ELSE JointOf(y, c1, j[n - 1], n)
      /\ \A n \in 0 .. N : l[n] = IF n = 0 THEN {<<>>} ELSE JointOf(y, c2, l[n - 1], n)
  <2> HIDE DEF j, l
  <2>1. j = [n \in 0 .. N |-> IF n = 0 THEN {<<>>} ELSE JointOf(y, c1, j[n - 1], n)]
    BY <1>2 DEF IsJoint
  <2>2. l = [n \in 0 .. N |-> IF n = 0 THEN {<<>>} ELSE JointOf(y, c2, l[n - 1], n)]
    BY <1>2 DEF IsJoint
  <2>3. ASSUME NEW n \in 0 .. N PROVE j[n] = IF n = 0 THEN {<<>>} ELSE JointOf(y, c1, j[n - 1], n)
    BY <2>1
  <2>4. ASSUME NEW n \in 0 .. N PROVE l[n] = IF n = 0 THEN {<<>>} ELSE JointOf(y, c2, l[n - 1], n)
    BY <2>2
  <2> QED BY <2>3, <2>4
<1> HIDE DEF j, l
<1>4. Bad = {}
  <2> SUFFICES ASSUME Bad # {} PROVE FALSE
    OBVIOUS
  <2>1. PICK n \in Bad : \A m \in Bad : n <= m
    <3>1. Bad \subseteq Nat
      BY <1>1
    <3> HIDE DEF Bad
    <3> QED BY <3>1, LeastNumber
  <2>2. n \in 0 .. N /\ ~Good(n)
    BY <2>1
  <2>3. CASE n = 0
    <3>1. j[n] = {<<>>} /\ l[n] = {<<>>}
      BY <1>3, <2>2, <2>3
    <3>2. <<>> \in Seq(U) /\ Len(<<>>) = 0
      OBVIOUS
    <3>3. Good(n)
      BY <2>3, <3>1, <3>2
    <3> QED BY <2>2, <3>3
  <2>4. CASE n # 0
    <3>1. n - 1 \in 0 .. N /\ n \in 1 .. N /\ Good(n - 1)
      <4>1. n - 1 \in 0 .. N /\ n \in 1 .. N /\ ~(n <= n - 1)
        BY <1>1, <2>2, <2>4
      <4>2. n - 1 \notin Bad
        <5> HIDE DEF Bad
        <5> QED BY <2>1, <4>1
      <4> HIDE DEF Good
      <4> QED BY <4>1, <4>2
    <3>2. j[n] = JointOf(y, c1, j[n - 1], n) /\ l[n] = JointOf(y, c2, l[n - 1], n)
      BY <1>3, <2>2, <2>4
    <3>3. ASSUME NEW q \in j[n] PROVE q \in Seq(U) /\ Len(q) = n /\ Goes(n, q)
      <4>1. PICK r \in j[n - 1], it \in It(n) : q = Append(r, it)
        BY <3>2, <3>3 DEF JointOf
      <4>2. r \in Seq(U) /\ Len(r) = n - 1 /\ Goes(n - 1, r)
        BY <3>1, <4>1
      <4>3. it \in U
        BY <3>1, <4>1
      <4>4. q \in Seq(U) /\ Len(q) = n /\ q[n] = it /\ \A i \in 1 .. n - 1 : q[i] = r[i]
        <5> HIDE DEF It, To, U, Good, Bad, Goes
        <5> QED BY <3>1, <4>1, <4>2, <4>3
      <4>5. ASSUME \A i \in 1 .. n : q[i] \in To(i) PROVE q \in l[n]
        <5> HIDE DEF It, To, U, Good, Bad
        <5>1. \A i \in 1 .. n - 1 : r[i] \in To(i)
          BY <3>1, <4>4, <4>5
        <5>2. r \in l[n - 1]
          BY <4>2, <5>1
        <5>3. it \in To(n)
          BY <3>1, <4>4, <4>5
        <5>4. OneAssetPerPoint(y, q)
          BY <3>2, <3>3 DEF JointOf
        <5> QED BY <3>2, <4>1, <5>2, <5>3, <5>4 DEF JointOf, To
      <4> QED BY <4>4, <4>5
    <3>4. Good(n)
      BY <3>3
    <3> QED BY <2>2, <3>4
  <2> QED BY <2>3, <2>4
<1>5. p \in j[N]
  <2>1. p \in ItinerariesUpto(y, c1)
    BY DEF Plans
  <2> QED BY <2>1, UptoIsChosen DEF j
<1>6. N \in 0 .. N /\ N \notin Bad
  <2>1. N \in 0 .. N
    BY <1>1
  <2> HIDE DEF Bad
  <2> QED BY <1>4, <2>1
<1>7. DOMAIN p = 1 .. N
  BY PlansAreJoint DEF IsPlanOf
<1>8. p \in l[N]
  BY <1>5, <1>6, <1>7
<1>9. p \in ItinerariesUpto(y, c2)
  BY <1>8, UptoIsChosen DEF l
<1>10. PathHolds(y, p) /\ PeakKw(y, p) <= y.site.powerCap
  BY DEF Plans
<1> QED BY <1>9, <1>10 DEF Plans

(* A call at minute 0, with every point in service, that carries over a plan or none. *)
IsOpenCall(y, call) ==
  /\ call.tNow = 0 /\ call.blocked = {}
  /\ call.previous = <<>> \/ IsPlan(y, call.previous)

(* Nothing of such a plan had begun by then, so the call pins nothing. *)
LEMMA OpenCallPinsNothing ==
  ASSUME NEW y, IsScenario(y), NEW call, IsOpenCall(y, call), NEW i \in DOMAIN y.assets
  PROVE  IsUnpinned(call, y.assets[i])
<1>1. CASE call.previous = <<>>
  BY <1>1 DEF IsUnpinned, Pinned, IsOpenCall
<1>2. CASE call.previous # <<>>
  <2> DEFINE p == call.previous
             a == y.assets[i]
  <2>1. PICK old : p \in Plans(y, old)
    BY <1>2 DEF IsOpenCall, IsPlan
  <2>2. i \in DOMAIN p /\ IsItineraryOf(y, old, a, p[i]) /\ p[i] \in Itineraries(y, old, a)
    <3>1. DOMAIN p = DOMAIN y.assets /\ \A k \in DOMAIN p : IsItineraryOf(y, old, y.assets[k], p[k])
      BY <2>1, PlanIsTyped
    <3>2. IsPlanOf(y, old, p)
      BY <2>1, PlansAreJoint DEF IsScenario
    <3> QED BY <3>1, <3>2 DEF IsPlanOf
  <2>3. p[i].point # NoPoint => p[i].start \in Nat
    BY <2>2 DEF IsItineraryOf, IsChargedAt
  <2>4. (p[i].wash # NoBay => p[i].wash.start \in Nat) /\ (p[i].inspect # NoBay => p[i].inspect.start \in Nat)
    <3>1. CASE p[i] \in ServedItineraries(y, old, a)
      <4>1. IsWorkOf(y, old, a, p[i])
        BY <3>1, ServedWork
      <4> QED BY <4>1 DEF IsWorkOf, IsBayOf
    <3>2. CASE p[i] \notin ServedItineraries(y, old, a)
      <4>1. p[i] = Declined(a)
        BY <2>2, <3>2 DEF Itineraries
      <4> QED BY <4>1 DEF Declined
    <3> QED BY <3>1, <3>2
  <2>5. /\ "charge" \in Pinned(call, a) <=> p[i].point # NoPoint /\ p[i].start < call.tNow
        /\ "wash" \in Pinned(call, a) <=> p[i].wash # NoBay /\ p[i].wash.start < call.tNow
        /\ "inspect" \in Pinned(call, a) <=> p[i].inspect # NoBay /\ p[i].inspect.start < call.tNow
    BY <2>1, <2>2, EarlierIsFound
  <2>6. Pinned(call, a) \cap {"charge", "wash", "inspect"} = {}
    BY <2>3, <2>4, <2>5, SMTT(30) DEF IsOpenCall
  <2>7. Pinned(call, a) \subseteq {"charge", "wash", "inspect"}
    BY DEF Pinned, PinnedWork
  <2> QED BY <2>6, <2>7 DEF IsUnpinned, IsOpenCall
<1> QED BY <1>1, <1>2

(* So a plan of one open call is a plan of any wider one that asks for nobody the plan declines. *)
LEMMA PlansOfAWiderCall ==
  ASSUME NEW y, IsScenario(y), NEW c1, NEW c2, IsOpenCall(y, c1), IsOpenCall(y, c2), IsWider(c2, c1),
         NEW p \in Plans(y, c1), c2.requireServed \subseteq ServedIn(p)
  PROVE  p \in Plans(y, c2)
<1>1. ASSUME NEW i \in DOMAIN p PROVE p[i] \in Itineraries(y, c2, y.assets[i])
  <2> DEFINE a == y.assets[i]
  <2>1. i \in DOMAIN y.assets /\ p[i].aid = a.aid
    BY PlanIsTyped
  <2>2. p[i] \in Itineraries(y, c1, a)
    BY PlansAreJoint DEF IsPlanOf, IsScenario
  <2>3. IsUnpinned(c1, a) /\ IsUnpinned(c2, a) /\ IsAssetIn(y, a)
    BY <2>1, OpenCallPinsNothing DEF IsScenario
  <2>4. p[i].served \/ a.aid \notin c2.requireServed
    <3> SUFFICES ASSUME a.aid \in c2.requireServed PROVE p[i].served
      OBVIOUS
    <3>1. PICK k \in DOMAIN p : p[k].served /\ p[k].aid = a.aid
      BY DEF ServedIn
    <3>2. k \in DOMAIN y.assets /\ y.assets[k].aid = a.aid
      BY <3>1, PlanIsTyped
    <3>3. k = i
      BY <2>1, <3>2 DEF IsScenario
    <3> QED BY <3>1, <3>3
  <2> HIDE DEF a
  <2>5. p[i] \in Itineraries(y, c2, a)
    BY <2>2, <2>3, <2>4, ItineraryWidens
  <2> QED BY <2>5 DEF a
<1> QED BY <1>1, PlansWiden DEF IsScenario

(* Who a plan declines is finitely many; a plan that serves whom another serves declines no more. *)
LEMMA DeclinedAreFinite ==
  ASSUME NEW y, IsScenario(y), NEW call, NEW p \in Plans(y, call)
  PROVE  IsFiniteSet(RejectedIn(p)) /\ Cardinality(RejectedIn(p)) \in Nat
<1> DEFINE R == {j \in DOMAIN p : ~p[j].served}
           f == [i \in R |-> p[i].aid]
<1>1. IsFiniteSet(DOMAIN p)
  <2>1. \A n \in Nat : IsFiniteSet(1 .. n)
    BY FS_Interval
  <2>2. DOMAIN p = DOMAIN y.assets
    BY PlanIsTyped
  <2> QED BY <2>1, <2>2 DEF IsScenario, HasAssets
<1>2. IsFiniteSet(R)
  BY <1>1, FS_Subset
<1>3. IsFiniteSet({f[i] : i \in R})
  <2> HIDE DEF f, R
  <2> QED BY <1>2, ImageIsFinite
<1>4. RejectedIn(p) = {f[i] : i \in R}
  BY DEF RejectedIn
<1> HIDE DEF f, R
<1> QED BY <1>3, <1>4, FS_CardinalityType

(* Serving more is declining fewer. *)
LEMMA ServingMoreDeclinesFewer ==
  ASSUME NEW y, IsScenario(y), NEW c1, NEW p \in Plans(y, c1), NEW c2, NEW q \in Plans(y, c2), ServedIn(p) \subseteq ServedIn(q)
  PROVE  Cardinality(RejectedIn(q)) <= Cardinality(RejectedIn(p))
<1>1. /\ DOMAIN p = DOMAIN y.assets /\ \A i \in DOMAIN p : p[i].aid = y.assets[i].aid
      /\ DOMAIN q = DOMAIN y.assets /\ \A i \in DOMAIN q : q[i].aid = y.assets[i].aid
  BY PlanIsTyped
<1>2. ASSUME NEW v \in RejectedIn(q) PROVE v \in RejectedIn(p)
  <2>1. PICK i \in DOMAIN q : q[i].aid = v /\ ~q[i].served
    BY DEF RejectedIn
  <2>2. i \in DOMAIN p /\ p[i].aid = v
    BY <1>1, <2>1
  <2>3. ~p[i].served
    <3> SUFFICES ASSUME p[i].served PROVE FALSE
      OBVIOUS
    <3>1. v \in ServedIn(p)
      BY <2>2 DEF ServedIn
    <3>2. PICK k \in DOMAIN q : q[k].served /\ q[k].aid = v
      BY <3>1 DEF ServedIn
    <3>3. k = i
      BY <1>1, <2>1, <3>2 DEF IsScenario
    <3> QED BY <2>1, <3>2, <3>3
  <2> QED BY <2>2, <2>3 DEF RejectedIn
<1>3. RejectedIn(q) \subseteq RejectedIn(p)
  BY <1>2
<1>4. IsFiniteSet(RejectedIn(p))
  BY DeclinedAreFinite
<1> QED BY <1>3, <1>4, FS_Subset

(* A call that allows no rejection has none. *)
LEMMA NoneIsDeclined ==
  ASSUME NEW y, IsScenario(y), NEW call, ~call.allowRejection, NEW p \in Plans(y, call)
  PROVE  Cardinality(RejectedIn(p)) = 0
<1>1. \A i \in DOMAIN p : p[i].served
  BY PlanIsTyped DEF IsItineraryOf
<1>2. RejectedIn(p) = {}
  BY <1>1 DEF RejectedIn
<1> QED BY <1>2, FS_EmptySet
(* A figure of a plan, and what the plan costs with a rejection's price on everyone it declines. *)
FigureIn(y, mode, p) ==
  CASE mode = "min_tardy" -> TotalTardy(p)
    [] mode = "min_peak" -> PeakKw(y, p)
    [] mode = "min_flow" -> TotalFlow(p)
PriceIn(y, mode, p) == FigureIn(y, mode, p) + y.weights.rejection * Cardinality(RejectedIn(p))
IsPriced(y) == y.weights.rejection \in Nat \ {0} /\ y.weights.churn = 0 /\ y.site.powerCap \in Int

(* The figure the chain measures is that one. *)
LEMMA ReachedIsFigure == \A m, p : Reached(m, p) = FigureIn(sc, m, p)
BY Zenon DEF Reached, FigureIn

(* Both are natural numbers. *)
LEMMA PriceIsNatural ==
  ASSUME NEW y, IsScenario(y), IsPriced(y), NEW call, NEW p \in Plans(y, call), NEW mode \in Modes
  PROVE  FigureIn(y, mode, p) \in Nat /\ PriceIn(y, mode, p) \in Nat
<1>1. TotalTardy(p) \in Nat /\ TotalFlow(p) \in Nat /\ PeakKw(y, p) \in Nat
  BY FiguresAreNumbers
<1>2. FigureIn(y, mode, p) \in Nat
  BY <1>1 DEF FigureIn, Modes
<1>3. Cardinality(RejectedIn(p)) \in Nat
  BY DeclinedAreFinite
<1>4. y.weights.rejection * Cardinality(RejectedIn(p)) \in Nat
  BY <1>3, TimesIsMonotone DEF IsPriced
<1> QED BY <1>2, <1>4 DEF PriceIn

(* Where churn costs nothing, the objective of a pass is that price. *)
LEMMA ObjectiveIsPrice ==
  ASSUME NEW y, IsScenario(y), IsPriced(y), NEW call, NEW other, NEW p \in Plans(y, other), NEW mode \in Modes
  PROVE  Objective(y, call, mode, p) = PriceIn(y, mode, p)
<1> DEFINE cost == y.weights.rejection * Cardinality(RejectedIn(p))
           moved == {i \in DOMAIN p : \E j \in DOMAIN call.previous :
                      /\ call.previous[j].aid = p[i].aid
                      /\ \E q \in ChargeCandidates(y, call, y.assets[i]) : q.id = call.previous[j].point
                      /\ ~(call.previous[j].start < call.tNow)
                      /\ p[i].point # call.previous[j].point}
<1>1. Churned(y, call, p) \in Int
  <2>1. IsFiniteSet(DOMAIN p)
    <3>1. \A n \in Nat : IsFiniteSet(1 .. n)
      BY FS_Interval
    <3>2. DOMAIN p = DOMAIN y.assets
      BY PlanIsTyped
    <3> QED BY <3>1, <3>2 DEF IsScenario, HasAssets
  <2>2. moved \subseteq DOMAIN p
    OBVIOUS
  <2>3. Churned(y, call, p) = IF ~call.priceChurn \/ call.previous = <<>> THEN 0 ELSE Cardinality(moved)
    BY DEF Churned
  <2> HIDE DEF moved
  <2>4. Cardinality(moved) \in Nat
    BY <2>1, <2>2, FS_Subset, FS_CardinalityType
  <2> QED BY <2>3, <2>4
<1>2. y.weights.churn * Churned(y, call, p) = 0
  BY <1>1 DEF IsPriced
<1>3. cost \in Int
  <2>1. Cardinality(RejectedIn(p)) \in Nat
    BY DeclinedAreFinite
  <2> QED BY <2>1, TimesIsMonotone DEF IsPriced
<1>4. SidePrice(y, call, p) = cost
  BY <1>2, <1>3 DEF SidePrice
<1> HIDE DEF cost, moved
<1>5. CASE mode = "min_tardy"
  BY <1>4, <1>5 DEF Objective, PriceIn, FigureIn, cost
<1>6. CASE mode = "min_peak"
  BY <1>4, <1>6 DEF Objective, PriceIn, FigureIn, cost
<1>7. CASE mode = "min_flow"
  BY <1>4, <1>7 DEF Objective, PriceIn, FigureIn, cost
<1> QED BY <1>5, <1>6, <1>7 DEF Modes

(* An answer that is proven optimal costs no more than any plan within its call's ceilings. *)
LEMMA OptimalIsLeast ==
  ASSUME NEW y, IsScenario(y), IsPriced(y), NEW call, NEW mode \in Modes,
         NEW answer \in Answers(y, call, mode), answer.status = "OPTIMAL",
         NEW p \in Plans(y, call), Meets(y, call, mode, p)
  PROVE  PriceIn(y, mode, answer.plan) <= PriceIn(y, mode, p)
<1> DEFINE within == {q \in Plans(y, call) : Meets(y, call, mode, q)}
           price == [q \in within |-> Objective(y, call, mode, q)]
           prices == {price[q] : q \in within}
           lowest == Min(prices)
           best == {q \in within : price[q] = lowest}
           none == IF within = {} THEN {[status |-> "INFEASIBLE", plan |-> <<>>]} ELSE {}
<1>1. answer \in {[status |-> "FEASIBLE", plan |-> q] : q \in within}
                   \cup {[status |-> "OPTIMAL", plan |-> q] : q \in best}
                   \cup {[status |-> "UNKNOWN", plan |-> <<>>]} \cup none
  BY DEF Answers
<1>2. none \subseteq {[status |-> "INFEASIBLE", plan |-> <<>>]}
  OBVIOUS
<1>3. \A q \in within : price[q] = PriceIn(y, mode, q) /\ price[q] \in Nat
  BY ObjectiveIsPrice, PriceIsNatural
<1>4. p \in within
  OBVIOUS
<1>5. best = {q \in within : price[q] = lowest}
  OBVIOUS
<1> HIDE DEF within, best, none, price
<1>6. answer.plan \in best
  <2>1. \/ \E q \in within : answer = [status |-> "FEASIBLE", plan |-> q]
        \/ \E q \in best : answer = [status |-> "OPTIMAL", plan |-> q]
        \/ answer = [status |-> "UNKNOWN", plan |-> <<>>] \/ answer = [status |-> "INFEASIBLE", plan |-> <<>>]
    BY <1>1, <1>2
  <2> QED BY <2>1
<1>7. answer.plan \in within /\ price[answer.plan] = lowest
  BY <1>5, <1>6
<1>8. \A x \in prices : lowest <= x
  <2>1. prices \subseteq Nat /\ prices # {}
    BY <1>3, <1>4
  <2> HIDE DEF prices
  <2>2. \E x \in prices : \A z \in prices : x <= z
    BY <2>1, LeastNumber
  <2> QED BY <2>2 DEF Min
<1>9. price[p] \in prices
  BY <1>4
<1>10. lowest <= price[p]
  BY <1>8, <1>9
<1>11. price[p] = PriceIn(y, mode, p) /\ price[answer.plan] = PriceIn(y, mode, answer.plan)
  BY <1>3, <1>4, <1>7
<1> HIDE DEF lowest
<1> QED BY <1>7, <1>10, <1>11

(* Whom it pays to decline: two prices apart by less than one rejection are of no more rejections. *)
LEMMA DearerByARejection ==
  ASSUME NEW R \in Nat, NEW f \in Nat, NEW g \in Nat, NEW k \in Nat, NEW l \in Nat, g < R, f + R * k <= g + R * l
  PROVE  k <= l
<1> SUFFICES ASSUME l + 1 <= k PROVE FALSE
  OBVIOUS
<1>1. R * (l + 1) <= R * k /\ R * k \in Nat /\ R * l \in Nat
  BY TimesIsMonotone
<1>2. R * (l + 1) = R * l + R
  OBVIOUS
<1> QED BY <1>1, <1>2

(* The invariant of a chain every pass of which has been proven: a plan that serves whom the chain holds and   *)
(* stays within what the passes before the i-th reached costs the i-th no less than it holds; and where the    *)
(* chain holds whom it serves, no plan that does declines more than the plan in hand.                          *)
HeldPlans(y, r, held) == {p \in Plans(y, FreshCall(r.allowRejection, r.slack)) : held \subseteq ServedIn(p)}
IsBestOf(y, r, pl, opt, held, i) ==
  \A p \in HeldPlans(y, r, held) :
    (\A j \in 1 .. i - 1 : FigureIn(y, r.modes[j], p) <= opt[r.modes[j]]) =>
      opt[r.modes[i]] + y.weights.rejection * Cardinality(RejectedIn(pl)) <= PriceIn(y, r.modes[i], p)
BestHeld(y, r, pl, opt, held, n) ==
  /\ pl \in HeldPlans(y, r, held)
  /\ \A i \in 1 .. n : opt[r.modes[i]] \in Nat /\ IsBestOf(y, r, pl, opt, held, i)
  /\ r.holdsServed => \A p \in HeldPlans(y, r, held) : Cardinality(RejectedIn(p)) <= Cardinality(RejectedIn(pl))
RuleFits(y, r, held) ==
  /\ IsPriced(y) /\ r.slack \in Nat
  /\ ~r.holdsServed => held = {} /\ r.modes = <<"min_tardy", "min_peak">>
AllProven(trace) == \A i \in DOMAIN trace : trace[i].proven
BestInv ==
  stage \in {"solving", "solved"} \/ (stage = "answered" /\ plan # <<>>) =>
    /\ Solving /\ RuleFits(sc, rule, floor)
    /\ Len(passes) # 0 /\ AllProven(passes) => BestHeld(sc, rule, plan, optima, floor, Len(passes))

(* The calls of a chain carry over the plan in hand and nothing else. *)
LEMMA ChainCallsAreOpen ==
  ASSUME Chaining, NEW mode
  PROVE  /\ IsOpenCall(sc, CallOf(mode)) /\ IsOpenCall(sc, FreshCall(rule.allowRejection, rule.slack))
         /\ CallOf(mode).requireServed = floor /\ CallOf(mode).slack = rule.slack
         /\ CallOf(mode).allowRejection = rule.allowRejection
<1>1. /\ CallOf(mode).tNow = 0 /\ CallOf(mode).blocked = {} /\ CallOf(mode).previous = plan
      /\ CallOf(mode).requireServed = floor /\ CallOf(mode).slack = rule.slack
      /\ CallOf(mode).allowRejection = rule.allowRejection
  BY DEF CallOf, FreshCall
<1>2. plan = <<>> \/ IsPlan(sc, plan)
  BY DEF Chaining
<1>3. IsOpenCall(sc, FreshCall(rule.allowRejection, rule.slack))
  BY DEF IsOpenCall, FreshCall
<1> QED BY <1>1, <1>2, <1>3 DEF IsOpenCall

(* A pass that is proven costs no plan the chain holds, within the ceilings so far, more than the plan it ships. *)
LEMMA PassIsLeast ==
  ASSUME Chaining, RuleFits(sc, rule, floor), Len(passes) < Len(rule.modes),
         Len(passes) # 0 => BestHeld(sc, rule, plan, optima, floor, Len(passes)),
         NEW answer \in Answers(sc, CallOf(Mode), Mode), answer.plan # <<>>, answer.status = "OPTIMAL",
         NEW shipped, shipped = IF ShipsHeld(Mode, answer.plan) THEN plan ELSE answer.plan
  PROVE  /\ shipped \in HeldPlans(sc, rule, floor)
         /\ \A p \in HeldPlans(sc, rule, floor) :
              (\A j \in 1 .. Len(passes) : FigureIn(sc, rule.modes[j], p) <= optima[rule.modes[j]]) =>
                PriceIn(sc, Mode, shipped) <= PriceIn(sc, Mode, p)
<1> DEFINE n == Len(passes)
           call == CallOf(Mode)
           found == answer.plan
           fresh == FreshCall(rule.allowRejection, rule.slack)
<1>1. found \in Plans(sc, call) /\ Meets(sc, call, Mode, found)
  BY AnswersArePlans
<1>2. IsScenario(sc) /\ IsPriced(sc)
  BY DEF Chaining, RuleFits
<1>3. Mode \in Modes /\ floor \subseteq ServedIn(shipped) /\ DOMAIN optima = {rule.modes[i] : i \in 1 .. n}
  <2> HIDE DEF found
  <2> QED BY <1>1, NextPassHolds DEF found, Chaining
<1>4. /\ IsOpenCall(sc, call) /\ IsOpenCall(sc, fresh) /\ IsWider(call, fresh) /\ IsWider(fresh, call)
      /\ call.requireServed = floor /\ fresh.requireServed = {}
  <2>1. /\ IsOpenCall(sc, call) /\ IsOpenCall(sc, fresh) /\ call.requireServed = floor
        /\ call.slack = rule.slack /\ call.allowRejection = rule.allowRejection
    BY ChainCallsAreOpen
  <2>2. fresh.slack = rule.slack /\ fresh.allowRejection = rule.allowRejection /\ fresh.requireServed = {}
    BY DEF FreshCall
  <2> HIDE DEF call, fresh
  <2> QED BY <2>1, <2>2 DEF IsWider, RuleFits
<1> HIDE DEF call, fresh
<1>5. found \in Plans(sc, fresh)
  BY <1>1, <1>2, <1>4, PlansOfAWiderCall
<1>6. HeldPlans(sc, rule, floor) = {p \in Plans(sc, fresh) : floor \subseteq ServedIn(p)}
  BY DEF HeldPlans, fresh
<1>7. shipped \in Plans(sc, fresh) /\ PriceIn(sc, Mode, shipped) <= PriceIn(sc, Mode, found)
  <2>1. PriceIn(sc, Mode, found) \in Nat
    BY <1>1, <1>2, <1>3, PriceIsNatural
  <2>2. CASE ~ShipsHeld(Mode, found)
    BY <1>5, <2>1, <2>2
  <2>3. CASE ShipsHeld(Mode, found)
    <3>1. Mode = "min_flow" /\ ServedIn(plan) = ServedIn(found) /\ TotalFlow(plan) < TotalFlow(found)
      BY <2>3 DEF ShipsHeld
    <3>2. n # 0
      <4>1. rule.modes[1] = "min_tardy"
        BY DEF Chaining, IsModeList
      <4>2. n = 0 => Mode = rule.modes[1]
        BY DEF Mode
      <4> QED BY <3>1, <4>1, <4>2
    <3>3. plan \in Plans(sc, fresh)
      BY <1>6, <3>2 DEF BestHeld
    <3>4. /\ Cardinality(RejectedIn(plan)) \in Nat /\ Cardinality(RejectedIn(found)) \in Nat
          /\ TotalFlow(plan) \in Nat /\ TotalFlow(found) \in Nat
      BY <1>1, <1>2, <3>3, DeclinedAreFinite, FiguresAreNumbers
    <3>5. Cardinality(RejectedIn(plan)) = Cardinality(RejectedIn(found))
      <4>1. /\ Cardinality(RejectedIn(plan)) <= Cardinality(RejectedIn(found))
            /\ Cardinality(RejectedIn(found)) <= Cardinality(RejectedIn(plan))
        BY <1>1, <1>2, <3>1, <3>3, ServingMoreDeclinesFewer
      <4> QED BY <3>4, <4>1
    <3> DEFINE cost == sc.weights.rejection * Cardinality(RejectedIn(plan))
    <3>6. cost \in Nat
      BY <1>2, <3>4, TimesIsMonotone DEF IsPriced
    <3>7. PriceIn(sc, Mode, plan) = TotalFlow(plan) + cost /\ PriceIn(sc, Mode, found) = TotalFlow(found) + cost
      BY <3>1, <3>5 DEF PriceIn, FigureIn
    <3> HIDE DEF cost
    <3> QED BY <2>3, <3>1, <3>3, <3>4, <3>6, <3>7
  <2> QED BY <2>2, <2>3
<1>8. ASSUME NEW p \in HeldPlans(sc, rule, floor), \A j \in 1 .. n : FigureIn(sc, rule.modes[j], p) <= optima[rule.modes[j]]
      PROVE  PriceIn(sc, Mode, shipped) <= PriceIn(sc, Mode, p)
  <2>1. p \in Plans(sc, fresh) /\ floor \subseteq ServedIn(p)
    BY <1>6
  <2>2. p \in Plans(sc, call)
    BY <1>2, <1>4, <2>1, PlansOfAWiderCall
  <2>3. ASSUME NEW m \in Modes PROVE Within(FigureIn(sc, m, p), HeldBy(m))
    <3>1. CASE m \in DOMAIN optima
      <4>1. PICK j \in 1 .. n : m = rule.modes[j]
        BY <1>3, <3>1
      <4>2. FigureIn(sc, m, p) <= optima[m]
        BY <1>8, <4>1
      <4> QED BY <3>1, <4>2 DEF Within, HeldBy
    <3>2. CASE m \notin DOMAIN optima
      BY <3>2 DEF Within, HeldBy
    <3> QED BY <3>1, <3>2
  <2>4. /\ call.maxTardy = HeldBy("min_tardy") /\ call.maxPeak = HeldBy("min_peak") /\ call.maxFlow = HeldBy("min_flow")
    BY DEF CallOf, FreshCall, call
  <2>5. /\ Within(TotalTardy(p), call.maxTardy) /\ Within(PeakKw(sc, p), call.maxPeak) /\ Within(TotalFlow(p), call.maxFlow)
    <3>1. /\ Within(FigureIn(sc, "min_tardy", p), HeldBy("min_tardy")) /\ Within(FigureIn(sc, "min_peak", p), HeldBy("min_peak"))
          /\ Within(FigureIn(sc, "min_flow", p), HeldBy("min_flow"))
      BY <2>3 DEF Modes
    <3> QED BY <2>4, <3>1 DEF FigureIn
  <2>6. Meets(sc, call, Mode, p)
    BY <2>5 DEF Meets
  <2>7. PriceIn(sc, Mode, found) <= PriceIn(sc, Mode, p)
    <3> HIDE DEF found
    <3> QED BY <1>2, <1>3, <2>2, <2>6, OptimalIsLeast DEF call, found
  <2>8. PriceIn(sc, Mode, found) \in Nat /\ PriceIn(sc, Mode, p) \in Nat /\ PriceIn(sc, Mode, shipped) \in Nat
    BY <1>1, <1>2, <1>3, <1>7, <2>1, PriceIsNatural
  <2> QED BY <1>7, <2>7, <2>8
<1> QED BY <1>3, <1>6, <1>7, <1>8

(* Nor does it decline more than the plan it replaces: the chain holds whom it serves, and where it does not *)
(* a rejection costs more than all the power of the site.                                                    *)
LEMMA PassDeclinesNoMore ==
  ASSUME Chaining, RuleFits(sc, rule, floor), Len(passes) < Len(rule.modes), Len(passes) # 0,
         BestHeld(sc, rule, plan, optima, floor, Len(passes)), ~PriceIsRefused(sc, CallOf(Mode), Mode),
         NEW shipped \in HeldPlans(sc, rule, floor),
         \A p \in HeldPlans(sc, rule, floor) :
           (\A j \in 1 .. Len(passes) : FigureIn(sc, rule.modes[j], p) <= optima[rule.modes[j]]) =>
             PriceIn(sc, Mode, shipped) <= PriceIn(sc, Mode, p)
  PROVE  Cardinality(RejectedIn(shipped)) <= Cardinality(RejectedIn(plan))
<1> DEFINE n == Len(passes)
           fresh == FreshCall(rule.allowRejection, rule.slack)
           k == Cardinality(RejectedIn(shipped))
           l == Cardinality(RejectedIn(plan))
<1>1. IsScenario(sc) /\ IsPriced(sc)
  BY DEF Chaining, RuleFits
<1>2. plan \in HeldPlans(sc, rule, floor) /\ plan \in Plans(sc, fresh) /\ shipped \in Plans(sc, fresh)
  BY DEF HeldPlans, BestHeld
<1>3. CASE rule.holdsServed
  BY <1>3 DEF BestHeld
<1>4. CASE ~rule.allowRejection
  <2>1. ~fresh.allowRejection
    BY <1>4 DEF FreshCall
  <2> HIDE DEF fresh
  <2>2. k = 0 /\ l = 0
    BY <1>1, <1>2, <2>1, NoneIsDeclined
  <2> QED BY <2>2
<1>5. CASE ~rule.holdsServed /\ rule.allowRejection
  <2>1. rule.modes = <<"min_tardy", "min_peak">> /\ Len(rule.modes) = 2
    BY <1>5 DEF RuleFits
  <2>2. n = 1
    <3>1. n \in Nat
      BY DEF Chaining
    <3> HIDE DEF n
    <3>2. n < 2 /\ n # 0
      BY <2>1 DEF n
    <3> QED BY <3>1, <3>2
  <2>3. Mode = "min_peak"
    BY <2>1, <2>2 DEF Mode
  <2>4. \A j \in 1 .. n : FigureIn(sc, rule.modes[j], plan) <= optima[rule.modes[j]]
    <3> SUFFICES ASSUME NEW j \in 1 .. n PROVE FigureIn(sc, rule.modes[j], plan) <= optima[rule.modes[j]]
      OBVIOUS
    <3>1. rule.modes[j] \in DOMAIN optima /\ optima[rule.modes[j]] \in Nat
      BY DEF Chaining, BestHeld
    <3>2. optima[rule.modes[j]] # Retained
      BY <3>1 DEF Retained
    <3> QED BY <3>1, <3>2, ReachedIsFigure DEF Chaining
  <2>5. PriceIn(sc, Mode, shipped) <= PriceIn(sc, Mode, plan)
    BY <1>2, <2>4
  <2>6. /\ PriceIn(sc, Mode, shipped) = PeakKw(sc, shipped) + sc.weights.rejection * k
        /\ PriceIn(sc, Mode, plan) = PeakKw(sc, plan) + sc.weights.rejection * l
    BY <2>3 DEF PriceIn, FigureIn
  <2>7. PeakKw(sc, plan) < sc.weights.rejection
    <3>1. CallOf(Mode).allowRejection
      BY <1>5, ChainCallsAreOpen
    <3>2. ~(sc.weights.rejection <= sc.site.powerCap)
      BY <2>3, <3>1 DEF PriceIsRefused, RejectionSavingCeiling
    <3>3. PeakKw(sc, plan) <= sc.site.powerCap
      BY <1>2 DEF Plans
    <3>4. PeakKw(sc, plan) \in Nat
      BY <1>1, <1>2, FiguresAreNumbers
    <3> QED BY <1>1, <3>2, <3>3, <3>4 DEF IsPriced
  <2>8. PeakKw(sc, plan) \in Nat /\ PeakKw(sc, shipped) \in Nat /\ k \in Nat /\ l \in Nat /\ sc.weights.rejection \in Nat
    BY <1>1, <1>2, FiguresAreNumbers, DeclinedAreFinite DEF IsPriced
  <2> DEFINE R == sc.weights.rejection
             f == PeakKw(sc, shipped)
             g == PeakKw(sc, plan)
  <2>9. f + R * k <= g + R * l /\ g < R
    BY <2>5, <2>6, <2>7
  <2>10. R \in Nat /\ f \in Nat /\ g \in Nat /\ k \in Nat /\ l \in Nat
    BY <2>8
  <2> HIDE DEF k, l, R, f, g
  <2>11. k <= l
    BY <2>9, <2>10, DearerByARejection
  <2> QED BY <2>11 DEF k, l
<1> QED BY <1>3, <1>4, <1>5

(* So a proven pass keeps the invariant. *)
LEMMA BestKeeps ==
  ASSUME Chaining, RuleFits(sc, rule, floor), Len(passes) < Len(rule.modes),
         Len(passes) # 0 => BestHeld(sc, rule, plan, optima, floor, Len(passes)), ~PriceIsRefused(sc, CallOf(Mode), Mode),
         NEW answer \in Answers(sc, CallOf(Mode), Mode), answer.plan # <<>>, answer.status = "OPTIMAL",
         NEW shipped, shipped = IF ShipsHeld(Mode, answer.plan) THEN plan ELSE answer.plan,
         NEW opt, opt = [m \in DOMAIN optima \cup {Mode} |-> IF m = Mode THEN Reached(Mode, shipped) ELSE optima[m]],
         NEW held, held = IF Mode = "min_tardy" /\ rule.holdsServed /\ rule.allowRejection THEN ServedIn(shipped) ELSE floor
  PROVE  BestHeld(sc, rule, shipped, opt, held, Len(passes) + 1) /\ RuleFits(sc, rule, held)
<1> DEFINE n == Len(passes)
           Free == HeldPlans(sc, rule, floor)
           fresh == FreshCall(rule.allowRejection, rule.slack)
           Declines(p) == Cardinality(RejectedIn(p))
           R == sc.weights.rejection
<1>1. /\ shipped \in Free
      /\ \A p \in Free :
           (\A j \in 1 .. n : FigureIn(sc, rule.modes[j], p) <= optima[rule.modes[j]]) =>
             PriceIn(sc, Mode, shipped) <= PriceIn(sc, Mode, p)
  BY PassIsLeast
<1>2. IsScenario(sc) /\ IsPriced(sc) /\ R \in Nat /\ 1 <= R
  BY DEF Chaining, RuleFits, IsPriced
<1>3. \A p \in Free : p \in Plans(sc, fresh) /\ floor \subseteq ServedIn(p)
  BY DEF HeldPlans
<1>4. ASSUME NEW p \in Free
      PROVE  /\ Declines(p) \in Nat /\ R * Declines(p) \in Nat
             /\ \A m \in Modes : FigureIn(sc, m, p) \in Nat /\ PriceIn(sc, m, p) \in Nat
  <2>1. p \in Plans(sc, fresh)
    BY <1>3
  <2>2. Declines(p) \in Nat
    BY <1>2, <2>1, DeclinedAreFinite
  <2>3. R * Declines(p) \in Nat
    <3> HIDE DEF R, Declines
    <3> QED BY <1>2, <2>2, TimesIsMonotone
  <2> HIDE DEF R, Declines, fresh
  <2> QED BY <1>2, <2>1, <2>2, <2>3, PriceIsNatural
<1>5. /\ n \in Nat /\ n + 1 <= Len(rule.modes) /\ Len(rule.modes) \in Nat /\ DOMAIN rule.modes = 1 .. Len(rule.modes)
      /\ Mode = rule.modes[n + 1] /\ \A i \in 1 .. n + 1 : i \in DOMAIN rule.modes /\ rule.modes[i] \in Modes
  <2>1. passes \in Seq(TraceSet) /\ rule.modes \in Seq(Modes)
    BY DEF Chaining, IsModeList
  <2>2. Len(passes) \in Nat /\ Len(rule.modes) \in Nat /\ DOMAIN rule.modes = 1 .. Len(rule.modes)
        /\ \A i \in DOMAIN rule.modes : rule.modes[i] \in Modes
    BY <2>1, MembersOfSequence
  <2> QED BY <2>2 DEF Mode
<1>6. /\ \A i \in 1 .. n : rule.modes[i] \in DOMAIN optima /\ rule.modes[i] # Mode /\ opt[rule.modes[i]] = optima[rule.modes[i]]
      /\ opt[Mode] = FigureIn(sc, Mode, shipped)
  <2>1. \A i \in 1 .. n : rule.modes[i] \in DOMAIN optima
    BY DEF Chaining
  <2>2. \A i \in 1 .. n : rule.modes[i] # Mode
    <3> SUFFICES ASSUME NEW i \in 1 .. n PROVE rule.modes[i] # Mode
      OBVIOUS
    <3> HIDE DEF n
    <3>1. i \in DOMAIN rule.modes /\ n + 1 \in DOMAIN rule.modes /\ i # n + 1
      BY <1>5
    <3> QED BY <1>5, <3>1 DEF Chaining, IsModeList
  <2>3. opt[Mode] = Reached(Mode, shipped)
    OBVIOUS
  <2> QED BY <2>1, <2>2, <2>3, ReachedIsFigure
<1>7. n # 0 => held = floor
  <2> SUFFICES ASSUME n # 0 PROVE Mode # "min_tardy"
    OBVIOUS
  <2>1. 1 \in 1 .. n
    BY <1>5
  <2>2. rule.modes[1] = "min_tardy"
    BY DEF Chaining, IsModeList
  <2> QED BY <1>6, <2>1, <2>2
<1>8. n = 0 => floor = {}
  BY DEF Chaining
<1>9. HeldPlans(sc, rule, held) \subseteq Free /\ shipped \in HeldPlans(sc, rule, held)
  <2>1. CASE held = floor
    BY <1>1, <2>1
  <2>2. CASE held # floor
    <3>1. floor = {} /\ held = ServedIn(shipped)
      BY <1>7, <1>8, <2>2
    <3> QED BY <1>1, <3>1 DEF HeldPlans
  <2> QED BY <2>1, <2>2
<1>10. n # 0 => BestHeld(sc, rule, plan, optima, floor, n) /\ plan \in Free /\ Declines(shipped) <= Declines(plan)
  <2> SUFFICES ASSUME n # 0 PROVE plan \in Free /\ Declines(shipped) <= Declines(plan)
    OBVIOUS
  <2>1. plan \in Free
    BY DEF BestHeld
  <2>2. Declines(shipped) <= Declines(plan)
    BY <1>1, PassDeclinesNoMore
  <2> QED BY <2>1, <2>2
<1> HIDE DEF Free, fresh, Declines, R, n
<1>11. ASSUME NEW i \in 1 .. n + 1
       PROVE  opt[rule.modes[i]] \in Nat /\ IsBestOf(sc, rule, shipped, opt, held, i)
  <2>1. CASE i = n + 1
    <3>1. rule.modes[i] = Mode /\ Mode \in Modes
      BY <1>5, <2>1
    <3>2. opt[rule.modes[i]] \in Nat
      BY <1>1, <1>4, <1>6, <3>1
    <3>3. ASSUME NEW p \in HeldPlans(sc, rule, held), \A j \in 1 .. i - 1 : FigureIn(sc, rule.modes[j], p) <= opt[rule.modes[j]]
          PROVE  opt[rule.modes[i]] + R * Declines(shipped) <= PriceIn(sc, rule.modes[i], p)
      <4>1. p \in Free
        BY <1>9
      <4>2. \A j \in 1 .. n : FigureIn(sc, rule.modes[j], p) <= optima[rule.modes[j]]
        <5> SUFFICES ASSUME NEW j \in 1 .. n PROVE FigureIn(sc, rule.modes[j], p) <= optima[rule.modes[j]]
          OBVIOUS
        <5>1. j \in 1 .. i - 1
          BY <1>5, <2>1
        <5>2. FigureIn(sc, rule.modes[j], p) <= opt[rule.modes[j]]
          BY <3>3, <5>1
        <5> QED BY <1>6, <5>2
      <4>3. PriceIn(sc, Mode, shipped) <= PriceIn(sc, Mode, p)
        BY <1>1, <4>1, <4>2
      <4>4. PriceIn(sc, Mode, shipped) = opt[Mode] + R * Declines(shipped)
        BY <1>6 DEF PriceIn, R, Declines
      <4> QED BY <3>1, <4>3, <4>4
    <3> QED BY <3>2, <3>3 DEF IsBestOf, R, Declines
  <2>2. CASE i # n + 1
    <3>1. i \in 1 .. n /\ n # 0
      BY <1>5, <2>2
    <3>2. opt[rule.modes[i]] = optima[rule.modes[i]] /\ held = floor /\ rule.modes[i] \in Modes
      BY <1>5, <1>6, <1>7, <3>1
    <3>3. optima[rule.modes[i]] \in Nat /\ IsBestOf(sc, rule, plan, optima, floor, i)
      BY <1>10, <3>1 DEF BestHeld
    <3>4. ASSUME NEW p \in HeldPlans(sc, rule, held), \A j \in 1 .. i - 1 : FigureIn(sc, rule.modes[j], p) <= opt[rule.modes[j]]
          PROVE  opt[rule.modes[i]] + R * Declines(shipped) <= PriceIn(sc, rule.modes[i], p)
      <4>1. \A j \in 1 .. i - 1 : FigureIn(sc, rule.modes[j], p) <= optima[rule.modes[j]]
        <5> SUFFICES ASSUME NEW j \in 1 .. i - 1 PROVE FigureIn(sc, rule.modes[j], p) <= optima[rule.modes[j]]
          OBVIOUS
        <5>1. j \in 1 .. n
          BY <1>5, <3>1
        <5> QED BY <1>6, <3>4, <5>1
      <4>2. optima[rule.modes[i]] + R * Declines(plan) <= PriceIn(sc, rule.modes[i], p)
        BY <3>2, <3>3, <4>1 DEF IsBestOf, R, Declines
      <4>3. R * Declines(shipped) <= R * Declines(plan)
        BY <1>1, <1>2, <1>4, <1>10, <3>1, TimesIsMonotone
      <4>4. R * Declines(shipped) \in Nat /\ R * Declines(plan) \in Nat /\ PriceIn(sc, rule.modes[i], p) \in Nat
        BY <1>1, <1>4, <1>9, <1>10, <3>1, <3>2
      <4> QED BY <3>2, <3>3, <4>2, <4>3, <4>4
    <3> QED BY <3>2, <3>3, <3>4 DEF IsBestOf, R, Declines
  <2> QED BY <2>1, <2>2
<1>12. ASSUME rule.holdsServed, NEW p \in HeldPlans(sc, rule, held) PROVE Declines(p) <= Declines(shipped)
  <2>1. p \in Free /\ p \in Plans(sc, fresh) /\ shipped \in Plans(sc, fresh)
    BY <1>1, <1>3, <1>9
  <2>2. CASE n = 0 /\ rule.allowRejection
    <3>1. Mode = "min_tardy"
      BY <2>2 DEF Mode, Chaining, IsModeList, n
    <3>2. held = ServedIn(shipped)
      BY <1>12, <2>2, <3>1
    <3>3. ServedIn(shipped) \subseteq ServedIn(p)
      BY <1>12, <3>2 DEF HeldPlans
    <3> QED BY <1>2, <2>1, <3>3, ServingMoreDeclinesFewer DEF Declines
  <2>3. CASE n = 0 /\ ~rule.allowRejection
    <3>1. ~fresh.allowRejection
      BY <2>3 DEF FreshCall, fresh
    <3>2. Declines(p) = 0 /\ Declines(shipped) = 0
      BY <1>2, <2>1, <3>1, NoneIsDeclined DEF Declines
    <3> QED BY <3>2
  <2>4. CASE n # 0
    <3>1. Declines(p) <= Declines(plan)
      BY <1>10, <1>12, <2>1, <2>4 DEF BestHeld, Declines, Free
    <3>2. 1 \in 1 .. n /\ rule.modes[1] \in Modes
      BY <1>5, <2>4
    <3>3. IsBestOf(sc, rule, plan, optima, floor, 1) /\ optima[rule.modes[1]] \in Nat
      BY <1>10, <2>4, <3>2 DEF BestHeld
    <3>4. optima[rule.modes[1]] + R * Declines(plan) <= PriceIn(sc, rule.modes[1], shipped)
      <4>1. shipped \in HeldPlans(sc, rule, floor) /\ \A j \in 1 .. 1 - 1 : FALSE
        BY <1>1 DEF Free
      <4> QED BY <3>3, <4>1 DEF IsBestOf, R, Declines
    <3>5. FigureIn(sc, rule.modes[1], shipped) <= optima[rule.modes[1]]
      <4>1. answer.plan \in Plans(sc, CallOf(Mode)) /\ Meets(sc, CallOf(Mode), Mode, answer.plan)
        BY AnswersArePlans
      <4>2. \A m \in DOMAIN optima : optima[m] = Retained \/ Reached(m, shipped) <= optima[m]
        BY <4>1, NextPassHolds
      <4>3. rule.modes[1] \in DOMAIN optima /\ optima[rule.modes[1]] # Retained
        <5>1. \A x \in Nat : x # -1
          OBVIOUS
        <5>2. rule.modes[1] \in DOMAIN optima
          BY <1>6, <3>2
        <5> HIDE DEF Mode
        <5> QED BY <3>3, <5>1, <5>2 DEF Retained
      <4>4. Reached(rule.modes[1], shipped) <= optima[rule.modes[1]]
        BY <4>2, <4>3
      <4> QED BY <4>4, ReachedIsFigure
    <3>6. PriceIn(sc, rule.modes[1], shipped) = FigureIn(sc, rule.modes[1], shipped) + R * Declines(shipped)
      BY DEF PriceIn, R, Declines
    <3>7. /\ FigureIn(sc, rule.modes[1], shipped) \in Nat /\ R * Declines(shipped) \in Nat /\ R * Declines(plan) \in Nat
          /\ Declines(shipped) \in Nat /\ Declines(plan) \in Nat /\ Declines(p) \in Nat
      BY <1>1, <1>4, <1>10, <2>1, <2>4, <3>2
    <3>8. R * Declines(plan) <= R * Declines(shipped)
      <4>1. \A o, x, y, f \in Int : o + x <= f + y /\ f <= o => x <= y
        OBVIOUS
      <4>2. optima[rule.modes[1]] + R * Declines(plan) <= FigureIn(sc, rule.modes[1], shipped) + R * Declines(shipped)
        BY <3>4, <3>6
      <4>3. /\ optima[rule.modes[1]] \in Int /\ R * Declines(plan) \in Int /\ FigureIn(sc, rule.modes[1], shipped) \in Int
            /\ R * Declines(shipped) \in Int
        BY <3>3, <3>7
      <4> QED BY <3>5, <4>1, <4>2, <4>3
    <3>9. Declines(plan) <= Declines(shipped)
      BY <1>2, <3>7, <3>8, DearerByARejection
    <3> QED BY <3>1, <3>7, <3>9
  <2> QED BY <2>2, <2>3, <2>4
<1>13. BestHeld(sc, rule, shipped, opt, held, n + 1)
  BY <1>9, <1>11, <1>12 DEF BestHeld, Declines
<1>14. RuleFits(sc, rule, held)
  BY DEF RuleFits
<1> QED BY <1>13, <1>14 DEF n

(* The chain starts with nothing held, at the weights of the two entry points. *)
LEMMA TranslateBest ==
  ASSUME ChainInv, Translate
  PROVE  BestInv'
<1>1. IsGiven /\ stage = "frame" /\ plan' = <<>> /\ floor' = {} /\ passes' = <<>> /\ ChainInv'
  BY TranslateKeeps DEF ChainInv, Translate, Untouched
<1>2. CASE Refusal(frame, classTable, options) # "none"
  <2>1. stage' = "refused"
    BY <1>2 DEF Translate
  <2> QED BY <2>1 DEF BestInv
<1>3. CASE Refusal(frame, classTable, options) = "none"
  <2> DEFINE whole == Scenario(frame, classTable, options)
             batch == At(whole.assets, {i \in DOMAIN whole.assets : InBatch(whole.assets, whole.assets[i])})
  <2>1. /\ sc' = [whole EXCEPT !.assets = batch] /\ rule' = RuleOf
        /\ stage' = IF batch = <<>> THEN "answered" ELSE "solving"
    BY <1>3 DEF Translate
  <2>2. whole.site = options.site /\ whole.weights.churn = 0 /\ whole.weights.rejection = 100000
        /\ {"site", "weights", "assets"} \subseteq DOMAIN whole
    BY DEF Scenario
  <2> HIDE DEF whole, batch
  <2>3. sc'.site = options.site /\ sc'.weights.churn = 0 /\ sc'.weights.rejection = 100000
    BY <2>1, <2>2
  <2>4. options.site.powerCap \in Int /\ options.slack \in Nat
    BY <1>1 DEF IsGiven, IsGivenOptions
  <2>5. IsPriced(sc')
    BY <2>3, <2>4 DEF IsPriced
  <2>6. /\ rule'.slack = options.slack /\ rule'.holdsServed = (options.regime # <<>>)
        /\ rule'.modes = IF options.regime = <<>> THEN <<"min_tardy", "min_peak">> ELSE options.regime
    BY <2>1 DEF RuleOf
  <2>7. RuleFits(sc', rule', floor')
    BY <1>1, <2>4, <2>5, <2>6 DEF RuleFits
  <2>8. stage' = "solving" => Solving'
    BY <1>1 DEF ChainInv
  <2>9. stage' \in {"answered", "solving"} /\ Len(passes') = 0
    BY <1>1, <2>1
  <2> QED BY <1>1, <2>7, <2>8, <2>9 DEF BestInv
<1> QED BY <1>2, <1>3

(* A trace is proven up to where it is proven further. *)
LEMMA AppendProven ==
  ASSUME NEW trace \in Seq(TraceSet), NEW e \in TraceSet, AllProven(Append(trace, e))
  PROVE  AllProven(trace) /\ e.proven
<1>1. /\ Len(trace) \in Nat /\ DOMAIN trace = 1 .. Len(trace) /\ DOMAIN Append(trace, e) = 1 .. Len(trace) + 1
      /\ Append(trace, e)[Len(trace) + 1] = e /\ \A i \in 1 .. Len(trace) : Append(trace, e)[i] = trace[i]
  OBVIOUS
<1>2. \A i \in 1 .. Len(trace) + 1 : Append(trace, e)[i].proven
  BY <1>1 DEF AllProven
<1>3. \A i \in 1 .. Len(trace) : i \in 1 .. Len(trace) + 1
  BY <1>1
<1>4. Len(trace) + 1 \in 1 .. Len(trace) + 1
  BY <1>1
<1>5. \A i \in DOMAIN trace : trace[i].proven
  BY <1>1, <1>2, <1>3
<1> QED BY <1>1, <1>2, <1>4, <1>5 DEF AllProven

(* A pass that is not proven leaves nothing to keep; one that is keeps the best. *)
LEMMA SolveBest ==
  ASSUME ChainInv, BestInv, Solve
  PROVE  BestInv'
<1>1. /\ stage = "solving" /\ Solving /\ Chaining /\ Len(passes) < Len(rule.modes) /\ RuleFits(sc, rule, floor)
      /\ sc' = sc /\ rule' = rule /\ ChainInv'
      /\ Len(passes) # 0 /\ AllProven(passes) => BestHeld(sc, rule, plan, optima, floor, Len(passes))
  BY SolveKeeps DEF Solve, Pass, ChainInv, BestInv, Solving
<1>2. passes \in Seq(TraceSet) /\ Mode \in Modes
  <2>1. passes \in Seq(TraceSet) /\ rule.modes \in Seq(Modes)
    BY <1>1 DEF Chaining, IsModeList
  <2>2. Len(passes) + 1 \in 1 .. Len(rule.modes)
    BY <1>1, <2>1
  <2> QED BY <2>1, <2>2, MembersOfSequence DEF Mode
<1>3. stage' # "answered" /\ (stage' \in {"solving", "solved"} => Solving')
  BY <1>1, SolveGoesOn DEF ChainInv
<1>4. CASE PriceIsRefused(sc, CallOf(Mode), Mode)
  <2>1. stage' = "price refused"
    BY <1>4 DEF Solve, Pass
  <2> QED BY <2>1 DEF BestInv
<1>5. CASE ~PriceIsRefused(sc, CallOf(Mode), Mode)
  <2>1. PICK answer \in Answers(sc, CallOf(Mode), Mode) :
          IF answer.plan = <<>> THEN PassRetains(answer) ELSE PassSolves(answer)
    BY <1>5 DEF Solve, Pass
  <2>2. answer.status \in Statuses
    BY AnswersHaveAStatus
  <2>3. CASE answer.plan = <<>>
    <3>1. PassRetains(answer)
      BY <2>1, <2>3
    <3>2. CASE plan = <<>>
      <4>1. stage' = "no schedule"
        BY <3>1, <3>2 DEF PassRetains
      <4> QED BY <4>1 DEF BestInv
    <3>3. CASE plan # <<>>
      <4> DEFINE e == Trace(Mode, answer.status, TRUE)
      <4>1. passes' = Append(passes, e) /\ floor' = floor
        BY <3>1, <3>3 DEF PassRetains
      <4>2. e \in TraceSet /\ e.proven = FALSE
        BY <1>2, <2>2 DEF Trace, TraceSet
      <4> HIDE DEF e
      <4>3. ~AllProven(passes')
        BY <1>2, <4>1, <4>2, AppendProven
      <4>4. RuleFits(sc', rule', floor')
        BY <1>1, <4>1
      <4> QED BY <1>3, <4>3, <4>4 DEF BestInv
    <3> QED BY <3>2, <3>3
  <2>4. CASE answer.plan # <<>>
    <3> DEFINE shipped == IF ShipsHeld(Mode, answer.plan) THEN plan ELSE answer.plan
               opt == [m \in DOMAIN optima \cup {Mode} |-> IF m = Mode THEN Reached(Mode, shipped) ELSE optima[m]]
               held == IF Mode = "min_tardy" /\ rule.holdsServed /\ rule.allowRejection THEN ServedIn(shipped) ELSE floor
               e == Trace(Mode, answer.status, FALSE)
    <3>1. plan' = shipped /\ optima' = opt /\ floor' = held /\ passes' = Append(passes, e)
      BY <2>1, <2>4 DEF PassSolves
    <3>2. e \in TraceSet /\ e.proven = (answer.status = "OPTIMAL")
      BY <1>2, <2>2 DEF Trace, TraceSet
    <3>3. RuleFits(sc', rule', floor')
      <4> HIDE DEF opt, shipped, e
      <4>1. ~rule.holdsServed => held = floor
        OBVIOUS
      <4> HIDE DEF held
      <4> QED BY <1>1, <3>1, <4>1 DEF RuleFits
    <3>4. ASSUME AllProven(passes') PROVE BestHeld(sc', rule', plan', optima', floor', Len(passes'))
      <4>1. AllProven(passes) /\ answer.status = "OPTIMAL" /\ Len(passes') = Len(passes) + 1
        <5> HIDE DEF e, shipped, opt, held
        <5> QED BY <1>2, <3>1, <3>2, <3>4, AppendProven, AppendIsLonger
      <4>2. /\ shipped = IF ShipsHeld(Mode, answer.plan) THEN plan ELSE answer.plan
            /\ opt = [m \in DOMAIN optima \cup {Mode} |-> IF m = Mode THEN Reached(Mode, shipped) ELSE optima[m]]
            /\ held = IF Mode = "min_tardy" /\ rule.holdsServed /\ rule.allowRejection THEN ServedIn(shipped) ELSE floor
        OBVIOUS
      <4> HIDE DEF e, shipped, opt, held
      <4>3. BestHeld(sc, rule, shipped, opt, held, Len(passes) + 1)
        BY <1>1, <1>5, <2>4, <4>1, <4>2, BestKeeps
      <4> QED BY <1>1, <3>1, <4>1, <4>3
    <3> HIDE DEF e, shipped, opt, held
    <3> QED BY <1>3, <3>3, <3>4 DEF BestInv
  <2> QED BY <2>3, <2>4
<1> QED BY <1>4, <1>5

(* No step of the chain, of the proposer or of a rolling re-solve breaks the invariant. *)
LEMMA BestIsKept ==
  ASSUME ChainInv, BestInv, [Next]_<<vars, clock, blocked>>
  PROVE  BestInv'
<1>1. CASE Translate
  BY <1>1, TranslateBest
<1>2. CASE Solve
  BY <1>2, SolveBest
<1>3. CASE Ship \/ UNCHANGED <<vars, clock, blocked>>
  <2>1. /\ sc' = sc /\ rule' = rule /\ plan' = plan /\ optima' = optima /\ floor' = floor /\ passes' = passes
        /\ frame' = frame /\ classTable' = classTable /\ options' = options
    BY <1>3 DEF Ship, vars, chainVars, proposerVars
  <2>2. (stage = "solved" /\ plan # <<>>) \/ stage' = stage
    BY <1>3 DEF Ship, ChainInv, vars, chainVars
  <2>3. Chaining' = Chaining
    <3>1. \A m : Reached(m, plan)' = Reached(m, plan)
      BY <2>1 DEF Reached
    <3> QED BY <2>1, <3>1 DEF Chaining
  <2>4. Solving' = Solving
    BY <2>1, <2>3 DEF Solving, IsGiven
  <2>5. stage' \in {"solving", "solved"} \/ (stage' = "answered" /\ plan' # <<>>) =>
          stage \in {"solving", "solved"} \/ (stage = "answered" /\ plan # <<>>)
    BY <2>1, <2>2
  <2> QED BY <2>1, <2>4, <2>5 DEF BestInv
<1>4. CASE RollingNext /\ UNCHANGED proposerVars
  <2>1. stage' \in {"rolling", "carried out", "no schedule", "price refused"}
    BY <1>4, RollingEnds
  <2> QED BY <2>1 DEF BestInv
<1> QED BY <1>1, <1>2, <1>3, <1>4 DEF Next, ProposerNext

(* And where it holds, a record that says "complete" is of a best plan: a plan that serves whom this one does *)
(* declines no more, so at the first figure on which it differs it costs no less than the pass reached.       *)
LEMMA CompleteMeansBest ==
  ASSUME BestInv
  PROVE  CompleteIsBest
<1> DEFINE asked == [FreshCall(rule.allowRejection, 0) EXCEPT !.requireServed = ServedIn(plan)]
           fresh == FreshCall(rule.allowRejection, rule.slack)
           n == Len(passes)
           R == sc.weights.rejection
           Declines(q) == Cardinality(RejectedIn(q))
<1> SUFFICES ASSUME Answered, plan # <<>>, IsComplete, NEW p \in Plans(sc, asked), BetterPlan(p, plan) PROVE FALSE
  BY DEF CompleteIsBest
<1>1. Chaining /\ RuleFits(sc, rule, floor) /\ IsScenario(sc) /\ IsPriced(sc)
      /\ (n # 0 /\ AllProven(passes) => BestHeld(sc, rule, plan, optima, floor, n))
  BY DEF BestInv, Solving, Chaining, RuleFits, Answered
<1>2. n = Len(rule.modes) /\ n \in Nat /\ n # 0 /\ AllProven(passes) /\ DOMAIN rule.modes = 1 .. n
      /\ \A i \in 1 .. n : rule.modes[i] \in Modes /\ rule.modes[i] \in DOMAIN optima
  <2>1. rule.modes \in Seq(Modes) /\ Len(rule.modes) # 0 /\ DOMAIN optima = {rule.modes[i] : i \in 1 .. n}
    BY <1>1 DEF Chaining, IsModeList
  <2>2. n = Len(rule.modes) /\ AllProven(passes)
    BY DEF IsComplete, AllProven
  <2> HIDE DEF n
  <2> QED BY <2>1, <2>2, MembersOfSequence
<1>3. BestHeld(sc, rule, plan, optima, floor, n)
  BY <1>1, <1>2
<1>4. plan \in Plans(sc, fresh) /\ floor \subseteq ServedIn(plan)
  BY <1>3 DEF BestHeld, HeldPlans
<1>5. /\ asked.requireServed = ServedIn(plan) /\ asked.slack = 0 /\ asked.allowRejection = rule.allowRejection
      /\ asked.tNow = 0 /\ asked.blocked = {} /\ asked.previous = <<>>
      /\ fresh.requireServed = {} /\ fresh.slack = rule.slack /\ fresh.allowRejection = rule.allowRejection
      /\ fresh.tNow = 0 /\ fresh.blocked = {} /\ fresh.previous = <<>>
  BY DEF FreshCall
<1> HIDE DEF asked, fresh
<1>6. ServedIn(plan) \subseteq ServedIn(p)
  BY <1>1, <1>4, <1>5, AskedForIsServed
<1>7. p \in Plans(sc, fresh)
  <2>1. IsOpenCall(sc, asked) /\ IsOpenCall(sc, fresh)
    BY <1>5 DEF IsOpenCall
  <2>2. IsWider(fresh, asked)
    BY <1>1, <1>5 DEF IsWider, RuleFits
  <2> QED BY <1>1, <1>5, <2>1, <2>2, PlansOfAWiderCall
<1>8. p \in HeldPlans(sc, rule, floor)
  BY <1>4, <1>6, <1>7 DEF HeldPlans, fresh
<1>9. Declines(p) <= Declines(plan) /\ Declines(p) \in Nat /\ Declines(plan) \in Nat
  BY <1>1, <1>4, <1>6, <1>7, ServingMoreDeclinesFewer, DeclinedAreFinite
<1>10. R * Declines(p) <= R * Declines(plan) /\ R * Declines(p) \in Nat /\ R * Declines(plan) \in Nat
  <2> HIDE DEF R, Declines
  <2>1. R \in Nat
    BY <1>1 DEF IsPriced, R
  <2> QED BY <1>9, <2>1, TimesIsMonotone
<1>11. ASSUME NEW i \in 1 .. n
       PROVE  /\ FigureIn(sc, rule.modes[i], plan) <= optima[rule.modes[i]] /\ optima[rule.modes[i]] \in Nat
              /\ FigureIn(sc, rule.modes[i], plan) \in Nat /\ FigureIn(sc, rule.modes[i], p) \in Nat
              /\ IsBestOf(sc, rule, plan, optima, floor, i)
  <2>1. optima[rule.modes[i]] \in Nat /\ IsBestOf(sc, rule, plan, optima, floor, i)
    BY <1>3 DEF BestHeld
  <2>2. optima[rule.modes[i]] # Retained
    <3>1. \A x \in Nat : x # -1
      OBVIOUS
    <3> QED BY <2>1, <3>1 DEF Retained
  <2>3. Reached(rule.modes[i], plan) <= optima[rule.modes[i]]
    BY <1>1, <1>2, <2>2 DEF Chaining
  <2>4. FigureIn(sc, rule.modes[i], plan) \in Nat /\ FigureIn(sc, rule.modes[i], p) \in Nat
    BY <1>1, <1>2, <1>4, <1>7, PriceIsNatural
  <2> QED BY <2>1, <2>3, <2>4, ReachedIsFigure
<1>12. PICK i \in 1 .. n :
         /\ FigureIn(sc, rule.modes[i], p) < FigureIn(sc, rule.modes[i], plan)
         /\ \A j \in 1 .. i - 1 : FigureIn(sc, rule.modes[j], p) = FigureIn(sc, rule.modes[j], plan)
  BY <1>2, ReachedIsFigure DEF BetterPlan, Figure
<1>13. \A j \in 1 .. i - 1 : FigureIn(sc, rule.modes[j], p) <= optima[rule.modes[j]]
  <2> SUFFICES ASSUME NEW j \in 1 .. i - 1 PROVE FigureIn(sc, rule.modes[j], p) <= optima[rule.modes[j]]
    OBVIOUS
  <2>1. j \in 1 .. n
    BY <1>2
  <2> QED BY <1>11, <1>12, <2>1
<1>14. optima[rule.modes[i]] + R * Declines(plan) <= FigureIn(sc, rule.modes[i], p) + R * Declines(p)
  BY <1>8, <1>11, <1>13 DEF IsBestOf, PriceIn
<1> HIDE DEF R, Declines, n
<1> QED
  <2>1. \A o, x, y, f, g \in Nat : o + x <= f + y /\ y <= x /\ g <= o => ~(f < g)
    OBVIOUS
  <2> QED BY <1>10, <1>11, <1>12, <1>14, <2>1

(* Whatever the frame, the table and the options, a record that says "complete" is of a plan that no plan *)
(* serving whom it serves betters on the regime's figures, taken in their order.                          *)
THEOREM ACompleteRecordIsTheBest == GivenSpec => []CompleteIsBest
<1>1. GivenInit => BestInv
  BY DEF GivenInit, BestInv
<1> QED BY <1>1, ChainStarts, ChainKeeps, BestIsKept, CompleteMeansBest, PTL DEF GivenSpec

(* And so it is in the run. *)
THEOREM ACompleteRecordIsTheBestInTheRun == Spec => []CompleteIsBest
<1>1. Init => GivenInit
  BY RunIsGiven
<1> QED BY <1>1, ACompleteRecordIsTheBest, PTL DEF Spec, GivenSpec
=============================================================================
