--------------------------- MODULE DecisionProofs ---------------------------
(***************************************************************************)
(* What the deciding functions answer, and what processes believe of a     *)
(* file others write, for every size of both.  First the storage dispatch, *)
(* the learn loop, the recall, the wear report, the sizing of a site, the  *)
(* bill of a load, the regime in force and what a call makes of a forecast *)
(* with a spoiled quantity, each for every question it may be asked and    *)
(* not only the grid's; then two machines: the caches of the doctrine and  *)
(* the processes that share a spend file.                                  *)
(***************************************************************************)
EXTENDS MCOutside, ArithmeticTheorems

(* A load curve: loads from times that are numbers, closed by a last point after the first instant. *)
IsCurve(curve) ==
  /\ curve \in Seq([from : Nat, kw : Nat])
  /\ Len(curve) > 0 /\ CurveEnd(curve) > 0

(* Its points are its points. *)
LEMMA PointsOfCurve ==
  ASSUME NEW curve, IsCurve(curve)
  PROVE  /\ DOMAIN curve = 1..Len(curve) /\ Len(curve) \in Nat
         /\ \A i \in DOMAIN curve : curve[i].from \in Nat /\ curve[i].kw \in Nat
<1>1. \A i \in DOMAIN curve : curve[i] \in [from : Nat, kw : Nat]
  BY MembersOfSequence DEF IsCurve
<1> QED BY <1>1, MembersOfSequence DEF IsCurve

(* A load is a number. *)
LEMMA LoadIsNatural ==
  ASSUME NEW curve, IsCurve(curve), NEW t
  PROVE  LoadOf(curve, t) \in Nat
<1> DEFINE kw == [i \in DOMAIN curve |-> curve[i].kw]
           held == {i \in 1..(Len(curve) - 1) : curve[i].from <= t /\ t < curve[i + 1].from}
<1>1. /\ DOMAIN curve = 1..Len(curve) /\ Len(curve) \in Nat
      /\ \A i \in DOMAIN curve : curve[i].kw \in Nat
  BY PointsOfCurve
<1>2. held \subseteq 1..Len(curve) /\ IsFiniteSet(1..Len(curve))
  BY <1>1, FS_Interval
<1>3. IsFiniteSet(held)
  <2> HIDE DEF held
  <2> QED BY <1>2, FS_Subset
<1>4. \A i \in held : kw[i] \in Nat
  BY <1>1
<1>5. SumFunctionOnSet(kw, held) \in Nat
  <2> HIDE DEF held, kw
  <2> QED BY <1>3, <1>4, SumOfNaturals
<1> QED BY <1>5 DEF LoadOf

(* The instants a battery is looked at are finitely many, and one of them is the first. *)
LEMMA StepsAreFinite ==
  ASSUME NEW curve, IsCurve(curve), NEW step \in Nat \ {0}
  PROVE  IsFiniteSet(StepStarts(curve, step)) /\ 0 \in StepStarts(curve, step)
<1>1. CurveEnd(curve) \in Nat /\ CurveEnd(curve) > 0
  <2>1. Len(curve) \in DOMAIN curve /\ \A i \in DOMAIN curve : curve[i].from \in Nat
    BY PointsOfCurve DEF IsCurve
  <2> QED BY <2>1 DEF CurveEnd, IsCurve
<1>2. IsFiniteSet(0..(CurveEnd(curve) - 1)) /\ StepStarts(curve, step) \subseteq 0..(CurveEnd(curve) - 1)
  BY <1>1, FS_Interval, SMTT(30) DEF StepStarts
<1>3. IsFiniteSet(StepStarts(curve, step))
  BY <1>2, FS_Subset
<1>4. 0 % step = 0
  OBVIOUS
<1> QED BY <1>1, <1>3, <1>4 DEF StepStarts

(* What is above a ceiling shrinks as the ceiling rises, what is below it grows, and nothing is above the peak. *)
LEMMA DeficitShrinks ==
  ASSUME NEW curve, IsCurve(curve), NEW step \in Nat \ {0}, NEW g \in Nat, NEW h \in Nat, g <= h
  PROVE  /\ Deficit(curve, step, g) \in Nat /\ Deficit(curve, step, h) \in Nat
         /\ Deficit(curve, step, h) <= Deficit(curve, step, g)
         /\ Slack(curve, step, g) \in Nat /\ Slack(curve, step, h) \in Nat
         /\ Slack(curve, step, g) <= Slack(curve, step, h)
         /\ (\A t \in StepStarts(curve, step) : LoadOf(curve, t) <= h) => Deficit(curve, step, h) = 0
<1> DEFINE S == StepStarts(curve, step)
           ag == Above(curve, step, g)
           ah == Above(curve, step, h)
           bg == Below(curve, step, g)
           bh == Below(curve, step, h)
<1>1. IsFiniteSet(S)
  BY StepsAreFinite
<1>2. DOMAIN ag = S /\ DOMAIN ah = S /\ DOMAIN bg = S /\ DOMAIN bh = S
  BY DEF Above, Below
<1>3. ASSUME NEW t \in S
      PROVE  /\ ag[t] \in Nat /\ ah[t] \in Nat /\ ah[t] <= ag[t]
             /\ bg[t] \in Nat /\ bh[t] \in Nat /\ bg[t] <= bh[t]
             /\ LoadOf(curve, t) <= h => ah[t] = 0
  <2>1. PICK l \in Nat : l = LoadOf(curve, t)
    BY LoadIsNatural
  <2>2. /\ ag[t] = Max({0, l - g}) /\ ah[t] = Max({0, l - h})
        /\ bg[t] = Max({0, g - l}) /\ bh[t] = Max({0, h - l})
    BY <2>1 DEF Above, Below
  <2>3. l - g \in Int /\ l - h \in Int /\ g - l \in Int /\ h - l \in Int
    OBVIOUS
  <2>4. /\ Max({0, l - g}) = IF l - g > 0 THEN l - g ELSE 0
        /\ Max({0, l - h}) = IF l - h > 0 THEN l - h ELSE 0
        /\ Max({0, g - l}) = IF g - l > 0 THEN g - l ELSE 0
        /\ Max({0, h - l}) = IF h - l > 0 THEN h - l ELSE 0
    BY <2>3, MaxWithZero
  <2> HIDE DEF ag, ah, bg, bh
  <2> QED BY <2>1, <2>2, <2>4
<1> HIDE DEF S, ag, ah, bg, bh
<1>4. /\ SumFunctionOnSet(ag, S) \in Nat /\ SumFunctionOnSet(ah, S) \in Nat
      /\ SumFunctionOnSet(bg, S) \in Nat /\ SumFunctionOnSet(bh, S) \in Nat
  BY <1>1, <1>3, SumOfNaturals
<1>5. SumFunctionOnSet(ah, S) <= SumFunctionOnSet(ag, S) /\ SumFunctionOnSet(bg, S) <= SumFunctionOnSet(bh, S)
  <2>1. \A t \in S : /\ ag[t] \in Int /\ ah[t] \in Int /\ ah[t] <= ag[t]
                     /\ bg[t] \in Int /\ bh[t] \in Int /\ bg[t] <= bh[t]
    BY <1>3
  <2> QED BY <1>1, <2>1, SumIsMonotone
<1>6. /\ Deficit(curve, step, g) = step * SumFunctionOnSet(ag, S) /\ Deficit(curve, step, h) = step * SumFunctionOnSet(ah, S)
      /\ Slack(curve, step, g) = step * SumFunctionOnSet(bg, S) /\ Slack(curve, step, h) = step * SumFunctionOnSet(bh, S)
  BY <1>2 DEF Deficit, Slack, SumFunction, ag, ah, bg, bh
<1>7. (\A t \in S : LoadOf(curve, t) <= h) => SumFunctionOnSet(ah, S) = 0
  BY <1>1, <1>3, SumOfZeros
<1>8. step * 0 = 0
  OBVIOUS
<1>9. /\ step * SumFunctionOnSet(ag, S) \in Nat /\ step * SumFunctionOnSet(ah, S) \in Nat
      /\ step * SumFunctionOnSet(bg, S) \in Nat /\ step * SumFunctionOnSet(bh, S) \in Nat
      /\ step * SumFunctionOnSet(ah, S) <= step * SumFunctionOnSet(ag, S)
      /\ step * SumFunctionOnSet(bg, S) <= step * SumFunctionOnSet(bh, S)
  BY <1>4, <1>5, TimesIsMonotone
<1> QED BY <1>6, <1>7, <1>8, <1>9 DEF S

-----------------------------------------------------------------------------
(* A battery with numbers on it. *)
IsBattery(b) == StoragePower(b) \in Nat /\ UsableEnergy(b) \in Nat /\ b.efficiency \in Nat

(* A battery that holds a ceiling holds every higher one. *)
LEMMA HoldingIsMonotone ==
  ASSUME NEW curve, IsCurve(curve), NEW step \in Nat \ {0}, NEW b, IsBattery(b), NEW g \in Nat, NEW h \in Nat, g <= h,
         CanHold(curve, step, b, g)
  PROVE  CanHold(curve, step, b, h)
<1>1. /\ Deficit(curve, step, g) \in Nat /\ Deficit(curve, step, h) \in Nat
      /\ Deficit(curve, step, h) <= Deficit(curve, step, g)
      /\ Slack(curve, step, g) \in Nat /\ Slack(curve, step, h) \in Nat
      /\ Slack(curve, step, g) <= Slack(curve, step, h)
  BY DeficitShrinks
<1>2. ASSUME NEW t \in StepStarts(curve, step) PROVE LoadOf(curve, t) - h <= StoragePower(b)
  <2>1. LoadOf(curve, t) - g <= StoragePower(b)
    BY DEF CanHold
  <2>2. LoadOf(curve, t) \in Nat /\ StoragePower(b) \in Nat
    BY LoadIsNatural DEF IsBattery
  <2> QED BY <2>1, <2>2
<1>3. Deficit(curve, step, h) <= UsableEnergy(b)
  BY <1>1 DEF CanHold, IsBattery
<1>4. 100 * Deficit(curve, step, h) <= b.efficiency * Slack(curve, step, h)
  <2>1. b.efficiency * Slack(curve, step, g) <= b.efficiency * Slack(curve, step, h)
    BY <1>1, TimesIsMonotone DEF IsBattery
  <2>2. 100 * Deficit(curve, step, g) <= b.efficiency * Slack(curve, step, g)
    BY DEF CanHold
  <2>3. b.efficiency * Slack(curve, step, g) \in Nat /\ b.efficiency * Slack(curve, step, h) \in Nat
    BY <1>1, TimesIsMonotone DEF IsBattery
  <2> QED BY <1>1, <2>1, <2>2, <2>3
<1> QED BY <1>2, <1>3, <1>4 DEF CanHold

(* The search as the code has it: a function of both ends. *)
Halves(h, curve, step, b, top) ==
  h = [g \in (0..top) \X (0..top) |->
         IF g[2] - g[1] <= 1 THEN g[2]
         ELSE IF CanHold(curve, step, b, (g[1] + g[2]) \div 2) THEN h[<<g[1], (g[1] + g[2]) \div 2>>]
         ELSE h[<<(g[1] + g[2]) \div 2, g[2]>>]]

(* The middle of two ends apart lies between them, and is nearer to both. *)
LEMMA Middle ==
  ASSUME NEW m \in Nat, NEW n \in Nat, n - m > 1
  PROVE  (m + n) \div 2 \in Nat /\ m < (m + n) \div 2 /\ (m + n) \div 2 < n
OBVIOUS

(* There is such a function: one that is right for ends so far apart gives one for ends one further. *)
LEMMA HalvesExist ==
  ASSUME NEW curve, NEW step, NEW b, NEW top \in Nat
  PROVE  \E h : Halves(h, curve, step, b, top)
<1> DEFINE D == (0..top) \X (0..top)
           Mid(g) == (g[1] + g[2]) \div 2
           Body(h, g) == IF g[2] - g[1] <= 1 THEN g[2]
                         ELSE IF CanHold(curve, step, b, Mid(g)) THEN h[<<g[1], Mid(g)>>] ELSE h[<<Mid(g), g[2]>>]
           Right(h, n) == \A g \in D : g[2] - g[1] <= n => h[g] = Body(h, g)
           Wrong == {n \in Nat : ~ \E h : Right(h, n)}
<1>1. ASSUME NEW n \in Nat, NEW h, Right(h, n) PROVE \E k : Right(k, n + 1)
  <2> DEFINE k == [g \in D |-> IF g[2] - g[1] <= n THEN h[g] ELSE Body(h, g)]
  <2>1. ASSUME NEW g \in D, g[2] - g[1] <= n + 1 PROVE k[g] = Body(k, g)
    <3>1. k[g] = Body(h, g)
      BY <1>1
    <3>2. CASE g[2] - g[1] <= 1
      BY <3>1, <3>2, SMTT(30)
    <3>3. CASE g[2] - g[1] > 1
      <4>1. g[1] \in Nat /\ g[2] \in Nat /\ g[1] <= top /\ g[2] <= top
        OBVIOUS
      <4>2. Mid(g) \in Nat /\ g[1] < Mid(g) /\ Mid(g) < g[2]
        BY <3>3, <4>1, Middle
      <4>3. /\ <<g[1], Mid(g)>> \in D /\ Mid(g) - g[1] <= n
            /\ <<Mid(g), g[2]>> \in D /\ g[2] - Mid(g) <= n
        <5> HIDE DEF Mid
        <5> QED BY <2>1, <4>1, <4>2
      <4>4. k[<<g[1], Mid(g)>>] = h[<<g[1], Mid(g)>>] /\ k[<<Mid(g), g[2]>>] = h[<<Mid(g), g[2]>>]
        <5> HIDE DEF Mid
        <5> QED BY <4>3, SMTT(30)
      <4>5. Body(k, g) = Body(h, g)
        <5>1. CASE CanHold(curve, step, b, Mid(g))
          <6>1. Body(k, g) = k[<<g[1], Mid(g)>>] /\ Body(h, g) = h[<<g[1], Mid(g)>>]
            <7> HIDE DEF k
            <7> QED BY <3>3, <4>1, <5>1
          <6> HIDE DEF k, Mid, Body
          <6> QED BY <4>4, <6>1
        <5>2. CASE ~CanHold(curve, step, b, Mid(g))
          <6>1. Body(k, g) = k[<<Mid(g), g[2]>>] /\ Body(h, g) = h[<<Mid(g), g[2]>>]
            <7> HIDE DEF k
            <7> QED BY <3>3, <4>1, <5>2
          <6> HIDE DEF k, Mid, Body
          <6> QED BY <4>4, <6>1
        <5> QED BY <5>1, <5>2
      <4> QED BY <3>1, <4>5
    <3>4. g[2] - g[1] \in Int
      OBVIOUS
    <3> HIDE DEF k, Body, Mid
    <3> QED BY <3>2, <3>3, <3>4
  <2> HIDE DEF k, Body
  <2> QED BY <2>1, SMTT(30)
<1>2. \E h : Right(h, 0)
  <2> DEFINE h == [g \in D |-> g[2]]
  <2>1. ASSUME NEW g \in D, g[2] - g[1] <= 0 PROVE h[g] = Body(h, g)
    BY <2>1
  <2> HIDE DEF h, Body
  <2> QED BY <2>1
<1>3. Wrong = {}
  <2> SUFFICES ASSUME Wrong # {} PROVE FALSE
    OBVIOUS
  <2>1. PICK n \in Wrong : \A m \in Wrong : n <= m
    <3>1. Wrong \subseteq Nat
      OBVIOUS
    <3> HIDE DEF Wrong
    <3> QED BY <3>1, LeastNumber
  <2>2. n # 0 /\ n \in Nat
    <3> HIDE DEF Right
    <3> QED BY <1>2
  <2>3. n - 1 \in Nat /\ ~ (n <= n - 1)
    BY <2>2
  <2>4. n - 1 \notin Wrong
    <3> HIDE DEF Wrong
    <3> QED BY <2>1, <2>3
  <2>5. \E h : Right(h, n - 1)
    <3> HIDE DEF Right
    <3> QED BY <2>3, <2>4
  <2>6. \E k : Right(k, (n - 1) + 1)
    <3> HIDE DEF Right
    <3> QED BY <1>1, <2>3, <2>5
  <2>7. (n - 1) + 1 = n
    BY <2>2
  <2> HIDE DEF Right
  <2> QED BY <2>1, <2>6, <2>7
<1>4. PICK h : Right(h, top)
  <2> HIDE DEF Right
  <2> QED BY <1>3
<1> DEFINE f == [g \in D |-> h[g]]
<1>5. ASSUME NEW g \in D PROVE f[g] = Body(f, g)
  <2>1. g[2] - g[1] <= top /\ g[1] \in Nat /\ g[2] \in Nat /\ g[1] <= top /\ g[2] <= top
    OBVIOUS
  <2>2. h[g] = Body(h, g) /\ f[g] = h[g]
    <3> HIDE DEF Body
    <3> QED BY <1>4, <2>1
  <2>3. CASE g[2] - g[1] <= 1
    <3> HIDE DEF f
    <3> QED BY <2>2, <2>3
  <2>4. CASE g[2] - g[1] > 1
    <3>1. Mid(g) \in Nat /\ g[1] < Mid(g) /\ Mid(g) < g[2]
      BY <2>1, <2>4, Middle
    <3>2. <<g[1], Mid(g)>> \in D /\ <<Mid(g), g[2]>> \in D
      <4> HIDE DEF Mid
      <4> QED BY <2>1, <3>1
    <3>3. f[<<g[1], Mid(g)>>] = h[<<g[1], Mid(g)>>] /\ f[<<Mid(g), g[2]>>] = h[<<Mid(g), g[2]>>]
      <4> HIDE DEF Mid
      <4> QED BY <3>2
    <3> HIDE DEF f, Mid
    <3> QED BY <2>2, <3>3
  <2> QED BY <2>1, <2>3, <2>4
<1>6. f = [g \in D |-> Body(f, g)]
  <2>1. f = [g \in D |-> f[g]]
    OBVIOUS
  <2> HIDE DEF f, Body
  <2> QED BY <1>5, <2>1, SMTT(30)
<1>7. Halves(f, curve, step, b, top)
  <2> HIDE DEF f
  <2> QED BY <1>6 DEF Halves
<1> QED BY <1>7

(* What the halving finds: a ceiling the battery holds, and none from its lower end on a whole kW below. *)
LEMMA HalvingFinds ==
  ASSUME NEW curve, IsCurve(curve), NEW step \in Nat \ {0}, NEW b, IsBattery(b), NEW top \in Nat,
         NEW h, Halves(h, curve, step, b, top),
         NEW low \in 0..top, CanHold(curve, step, b, top)
  PROVE  LET c == h[<<low, top>>] IN
         /\ c \in 0..top /\ CanHold(curve, step, b, c)
         /\ \A x \in low..top : CanHold(curve, step, b, x) => c <= x + 1
<1> DEFINE D == (0..top) \X (0..top)
           Mid(g) == (g[1] + g[2]) \div 2
           Found(g) == /\ h[g] \in 0..top /\ CanHold(curve, step, b, h[g])
                       /\ \A x \in g[1]..top : CanHold(curve, step, b, x) => h[g] <= x + 1
           Asked(g) == g[1] <= g[2] /\ CanHold(curve, step, b, g[2])
           Wrong == {n \in Nat : \E g \in D : Asked(g) /\ g[2] - g[1] = n /\ ~Found(g)}
<1>1. ASSUME NEW g \in D
      PROVE  h[g] = IF g[2] - g[1] <= 1 THEN g[2]
                    ELSE IF CanHold(curve, step, b, Mid(g)) THEN h[<<g[1], Mid(g)>>] ELSE h[<<Mid(g), g[2]>>]
  BY DEF Halves
<1>2. ASSUME NEW n \in Wrong, \A m \in Wrong : n <= m PROVE FALSE
  <2>1. PICK g \in D : Asked(g) /\ g[2] - g[1] = n /\ ~Found(g)
    OBVIOUS
  <2>2. g[1] \in Nat /\ g[2] \in Nat /\ g[1] <= top /\ g[2] <= top /\ g[1] <= g[2] /\ n \in Nat
    BY <2>1
  <2>3. ASSUME NEW k \in D, Asked(k), k[2] - k[1] < n PROVE Found(k)
    <3>1. k[2] - k[1] \in Nat /\ ~ (n <= k[2] - k[1])
      BY <2>2, <2>3
    <3>2. k[2] - k[1] \notin Wrong
      <4> HIDE DEF Wrong
      <4> QED BY <1>2, <3>1
    <3> HIDE DEF Asked, Found
    <3> QED BY <2>3, <3>1, <3>2
  <2>4. CASE g[2] - g[1] <= 1
    <3>1. h[g] = g[2]
      BY <1>1, <2>4
    <3>2. g[2] \in 0..top /\ CanHold(curve, step, b, g[2])
      BY <2>1
    <3>3. \A x \in g[1]..top : g[2] <= x + 1
      BY <2>2, <2>4
    <3> QED BY <2>1, <3>1, <3>2, <3>3
  <2>5. CASE g[2] - g[1] > 1
    <3>1. Mid(g) \in Nat /\ g[1] < Mid(g) /\ Mid(g) < g[2]
      BY <2>2, <2>5, Middle
    <3>0. h[g] = IF CanHold(curve, step, b, Mid(g)) THEN h[<<g[1], Mid(g)>>] ELSE h[<<Mid(g), g[2]>>]
      <4>1. ~ (g[2] - g[1] <= 1)
        BY <2>2, <2>5
      <4> HIDE DEF Mid, D
      <4> QED BY <1>1, <4>1
    <3> HIDE DEF Mid
    <3>2. CASE CanHold(curve, step, b, Mid(g))
      <4> DEFINE k == <<g[1], Mid(g)>>
      <4>1. h[g] = h[k]
        BY <3>0, <3>2
      <4>2. k \in D /\ Asked(k) /\ k[2] - k[1] < n
        BY <2>1, <2>2, <3>1, <3>2
      <4>3. Found(k)
        <5> HIDE DEF k, Asked, Found
        <5> QED BY <2>3, <4>2
      <4>4. k[1] = g[1]
        OBVIOUS
      <4> HIDE DEF k
      <4> QED BY <2>1, <4>1, <4>3, <4>4
    <3>3. CASE ~CanHold(curve, step, b, Mid(g))
      <4> DEFINE k == <<Mid(g), g[2]>>
      <4>1. h[g] = h[k]
        BY <3>0, <3>3
      <4>2. k \in D /\ Asked(k) /\ k[2] - k[1] < n
        BY <2>1, <2>2, <3>1, <3>3
      <4>3. Found(k)
        <5> HIDE DEF k, Asked, Found
        <5> QED BY <2>3, <4>2
      <4>4. ASSUME NEW x \in g[1]..top, CanHold(curve, step, b, x) PROVE x \in Mid(g)..top
        <5>1. x \in Nat
          BY <2>2
        <5>2. ~ (x <= Mid(g))
          BY <3>1, <3>3, <4>4, <5>1, HoldingIsMonotone
        <5> QED BY <3>1, <5>1, <5>2
      <4>5. k[1] = Mid(g)
        OBVIOUS
      <4> HIDE DEF k
      <4>6. /\ h[g] \in 0..top /\ CanHold(curve, step, b, h[g])
            /\ \A x \in Mid(g)..top : CanHold(curve, step, b, x) => h[g] <= x + 1
        BY <4>1, <4>3, <4>5
      <4> QED BY <2>1, <4>4, <4>6
    <3> QED BY <3>2, <3>3
  <2> QED BY <2>2, <2>4, <2>5
<1>3. Wrong = {}
  <2>1. Wrong \subseteq Nat
    OBVIOUS
  <2> HIDE DEF Wrong
  <2> QED BY <1>2, <2>1, LeastNumber
<1>4. <<low, top>> \in D /\ Asked(<<low, top>>) /\ top - low \in Nat
  OBVIOUS
<1>5. Found(<<low, top>>)
  <2> HIDE DEF Found, Asked
  <2> QED BY <1>3, <1>4
<1> QED BY <1>5

(* The most a curve draws when it is looked at, which a battery always holds. *)
LEMMA ThePeakIsHeld ==
  ASSUME NEW curve, IsCurve(curve), NEW step \in Nat \ {0}, NEW b, IsBattery(b)
  PROVE  LET top == Max({LoadOf(curve, t) : t \in StepStarts(curve, step)}) IN
         /\ top \in Nat /\ \A t \in StepStarts(curve, step) : LoadOf(curve, t) <= top
         /\ \E t \in StepStarts(curve, step) : LoadOf(curve, t) = top
         /\ CanHold(curve, step, b, top)
<1> DEFINE S == StepStarts(curve, step)
           loads == {LoadOf(curve, t) : t \in S}
           top == Max(loads)
<1>1. IsFiniteSet(S) /\ S # {}
  BY StepsAreFinite
<1>2. IsFiniteSet(loads)
  <2> DEFINE f == [t \in S |-> LoadOf(curve, t)]
  <2>1. loads = {f[t] : t \in S}
    OBVIOUS
  <2> HIDE DEF f, S, loads
  <2> QED BY <1>1, <2>1, ImageIsFinite
<1>3. loads \subseteq Nat /\ loads \subseteq Int /\ loads # {}
  BY <1>1, LoadIsNatural
<1>4. top \in loads /\ \A x \in loads : x <= top
  <2> HIDE DEF loads
  <2> QED BY <1>2, <1>3, MaxIsGreatest
<1>5. top \in Nat /\ \A t \in S : LoadOf(curve, t) <= top
  BY <1>3, <1>4
<1>6. CanHold(curve, step, b, top)
  <2> HIDE DEF top
  <2>1. Deficit(curve, step, top) = 0 /\ Slack(curve, step, top) \in Nat
    BY <1>5, DeficitShrinks
  <2>2. \A t \in S : LoadOf(curve, t) - top <= StoragePower(b)
    BY <1>5, LoadIsNatural DEF IsBattery
  <2>3. b.efficiency * Slack(curve, step, top) \in Nat
    BY <2>1, TimesIsMonotone DEF IsBattery
  <2> QED BY <2>1, <2>2, <2>3 DEF CanHold, IsBattery
<1> QED BY <1>4, <1>5, <1>6

(* The ceiling that is published, for every curve, step and battery. *)
LEMMA CeilingIsLeast ==
  ASSUME NEW curve, IsCurve(curve), NEW step \in Nat \ {0}, NEW b, IsBattery(b)
  PROVE  LET c == DispatchCeiling(curve, step, b) IN
         /\ c \in Nat /\ CanHold(curve, step, b, c)
         /\ \A g \in Nat : CanHold(curve, step, b, g) => c <= g + 1
<1> DEFINE S == StepStarts(curve, step)
           top == Max({LoadOf(curve, t) : t \in S})
           low == Max({0, top - StoragePower(b)})
           h == CHOOSE k : Halves(k, curve, step, b, top)
           c == DispatchCeiling(curve, step, b)
<1>1. /\ top \in Nat /\ CanHold(curve, step, b, top)
      /\ \E t \in S : LoadOf(curve, t) = top
  BY ThePeakIsHeld
<1>2. c = h[<<low, top>>]
  BY DEF DispatchCeiling, Halves
<1> HIDE DEF top
<1>3. Halves(h, curve, step, b, top)
  BY <1>1, HalvesExist
<1>4. StoragePower(b) \in Nat /\ low = (IF top - StoragePower(b) > 0 THEN top - StoragePower(b) ELSE 0)
  <2>1. StoragePower(b) \in Nat /\ top - StoragePower(b) \in Int
    BY <1>1 DEF IsBattery
  <2> QED BY <2>1, MaxWithZero
<1> HIDE DEF low, h, c
<1>5. low \in 0..top
  BY <1>1, <1>4
<1>6. /\ c \in 0..top /\ CanHold(curve, step, b, c)
      /\ \A x \in low..top : CanHold(curve, step, b, x) => c <= x + 1
  BY <1>1, <1>2, <1>3, <1>5, HalvingFinds
<1>7. ASSUME NEW g \in Nat, CanHold(curve, step, b, g) PROVE c <= g + 1
  <2>1. ~ (g < low)
    <3>1. PICK t \in S : LoadOf(curve, t) = top
      BY <1>1
    <3>2. top - g <= StoragePower(b)
      BY <1>7, <3>1 DEF CanHold
    <3> QED BY <1>1, <1>4, <3>2
  <2>2. g \in low..top \/ g > top
    BY <1>1, <1>5, <2>1
  <2> QED BY <1>1, <1>6, <2>2, <1>7
<1> QED BY <1>1, <1>6, <1>7 DEF c

(* What the storage dispatch may be asked. *)
IsStorageQuestion(q) == IsCurve(q.curve) /\ q.step \in Nat \ {0} /\ IsBattery(q.battery)

(* forward.py's dispatch_storage and the deck's battery, whatever the       *)
(* curve, the step and the battery: the ceiling found by halving is one     *)
(* the battery holds, losses and recharge included, no ceiling it holds is  *)
(* more than a kW lower, and the battery that would match it fits.          *)
THEOREM TheDispatchIsLeast ==
  ASSUME IsAnswered("storage") => IsStorageQuestion(question) /\ answer = AnswerStorage(question)
  PROVE  DispatchIsLeast
<1> SUFFICES ASSUME IsAnswered("storage"), IsStorageQuestion(question), answer = AnswerStorage(question)
             PROVE  DispatchIsLeast
  BY DEF DispatchIsLeast
<1> DEFINE q == question
           c == DispatchCeiling(q.curve, q.step, q.battery)
           top == Max({LoadOf(q.curve, t) : t \in StepStarts(q.curve, q.step)})
<1>1. /\ c \in Nat /\ CanHold(q.curve, q.step, q.battery, c)
      /\ \A g \in Nat : CanHold(q.curve, q.step, q.battery, g) => c <= g + 1
  BY CeilingIsLeast DEF IsStorageQuestion
<1>2. answer.ceiling = c /\ answer.match = BessToMatch(q.curve, q.step, c, q.battery.efficiency)
  BY DEF AnswerStorage
<1>3. 0..top \subseteq Nat
  OBVIOUS
<1> HIDE DEF q, c, top
<1>4. answer.match.fits
  <2>1. BessToMatch(q.curve, q.step, c, q.battery.efficiency).fits
          = (100 * Deficit(q.curve, q.step, c) <= q.battery.efficiency * Slack(q.curve, q.step, c))
    BY DEF BessToMatch
  <2>2. 100 * Deficit(q.curve, q.step, c) <= q.battery.efficiency * Slack(q.curve, q.step, c)
    BY <1>1 DEF CanHold
  <2> QED BY <1>2, <2>1, <2>2
<1>5. \A g \in 0..top : CanHold(q.curve, q.step, q.battery, g) => answer.ceiling <= g + 1
  BY <1>1, <1>2, <1>3
<1>6. CanHold(q.curve, q.step, q.battery, answer.ceiling)
  BY <1>1, <1>2
<1> QED BY <1>4, <1>5, <1>6 DEF DispatchIsLeast, CanHold, top, q

-----------------------------------------------------------------------------
(* A batch of refusals: how often each code was said of each entity, of finitely many. *)
IsBatch(batch) ==
  /\ IsFiniteSet(DOMAIN batch.said)
  /\ \A p \in DOMAIN batch.said : p = <<p[1], p[2]>> /\ batch.said[p] \in Nat

(* What the code takes away from the solve comes from one code each, and that is a fault of the world. *)
LEMMA KindsOfConstraint ==
  /\ \A c \in RefusalCodes : LearnedConstraint[c] \in {"block_points", "refresh_occupancy"} => RefusalKind(c) = "live_world"
  /\ \A c \in RefusalCodes : RefusalKind(c) \in {"solver_gap", "live_world", "transient"}
BY DEF RefusalCodes, LearnedConstraint, RefusalKind

(* Who offends is somebody a code was said of, and of a live-world code as often as it takes. *)
LEMMA OffendersWereNamed ==
  ASSUME NEW batch, IsBatch(batch), NEW threshold, NEW code, NEW e \in Offenders(batch, threshold, code)
  PROVE  /\ <<code, e>> \in DOMAIN batch.said
         /\ RefusalKind(code) = "live_world" => batch.said[<<code, e>>] > threshold
<1> DEFINE all == {p[2] : p \in {q \in Pairs(batch) : q[1] = code}}
<1>1. e \in all /\ (RefusalKind(code) = "live_world" => batch.said[<<code, e>>] > threshold)
  BY DEF Offenders
<1>2. PICK p \in Pairs(batch) : p[1] = code /\ p[2] = e
  BY <1>1
<1>3. p \in DOMAIN batch.said /\ p = <<p[1], p[2]>>
  BY DEF Pairs, Heard, IsBatch
<1> QED BY <1>1, <1>2, <1>3

(* They are finitely many, whatever is learned of them. *)
LEMMA OffendersAreFinite ==
  ASSUME NEW batch, IsBatch(batch), NEW threshold, NEW kind
  PROVE  IsFiniteSet(OffendersOf(batch, threshold, kind))
<1> DEFINE D == DOMAIN batch.said
           second == [p \in D |-> p[2]]
           named == {second[p] : p \in D}
<1>1. IsFiniteSet(named)
  <2>1. IsFiniteSet(D)
    BY DEF IsBatch
  <2> HIDE DEF D, second
  <2> QED BY <2>1, ImageIsFinite
<1>2. OffendersOf(batch, threshold, kind) \subseteq named
  <2> SUFFICES ASSUME NEW e \in OffendersOf(batch, threshold, kind) PROVE e \in named
    OBVIOUS
  <2>1. PICK c : e \in Offenders(batch, threshold, c)
    BY DEF OffendersOf
  <2>2. <<c, e>> \in D
    BY <2>1, OffendersWereNamed
  <2>3. second[<<c, e>>] = e
    BY <2>2
  <2> QED BY <2>2, <2>3
<1> QED BY <1>1, <1>2, FS_Subset

(* What is learned, flagged and capped, by name. *)
LEMMA WhatIsLearned ==
  ASSUME NEW batch, NEW threshold, NEW capable, NEW percent, NEW k \in LearnedKinds(batch, threshold)
  PROVE  ReconcileRefusals(batch, threshold, capable, percent).learned[k]
           = IF IsCapped(batch, threshold, capable, percent, k) THEN {} ELSE OffendersOf(batch, threshold, k)
BY DEF ReconcileRefusals

(* A batch, its dials and what is learned of it. *)
LEMMA LearnedIsEarned ==
  ASSUME NEW batch, IsBatch(batch), NEW threshold \in Nat, NEW percent \in Nat,
         NEW capable, \A k \in DOMAIN capable : capable[k] \in Nat
  PROVE  LET report == ReconcileRefusals(batch, threshold, capable, percent)
             kinds == DOMAIN report.learned
         IN  /\ \A k \in kinds \cap {"block_points", "refresh_occupancy"} : \A e \in report.learned[k] :
                   \E p \in DOMAIN batch.said : p[2] = e /\ batch.said[p] > threshold
             /\ \A k \in kinds \cap DOMAIN capable :
                   capable[k] # 0 => 100 * Cardinality(report.learned[k]) <= percent * capable[k]
             /\ IsClean(report) => /\ kinds = {}
                                   /\ \A p \in DOMAIN batch.said : (batch.said[p] > 0 /\ p[2] # NoEntity) =>
                                        RefusalKind(p[1]) = "transient" \/ batch.said[p] <= threshold
<1> DEFINE report == ReconcileRefusals(batch, threshold, capable, percent)
           kinds == LearnedKinds(batch, threshold)
<1>1. DOMAIN report.learned = kinds
  BY DEF ReconcileRefusals
<1>2. \A k \in kinds : report.learned[k] = IF IsCapped(batch, threshold, capable, percent, k) THEN {}
                                            ELSE OffendersOf(batch, threshold, k)
  BY WhatIsLearned
<1>3. FlaggedCodes(batch, threshold) \subseteq report.flags /\ report.unknown = UnknownCodes(batch)
  BY DEF ReconcileRefusals
<1> HIDE DEF report
<1>4. ASSUME NEW k \in kinds \cap {"block_points", "refresh_occupancy"}, NEW e \in report.learned[k]
      PROVE  \E p \in DOMAIN batch.said : p[2] = e /\ batch.said[p] > threshold
  <2>1. e \in OffendersOf(batch, threshold, k)
    BY <1>2, <1>4
  <2>2. PICK c \in DOMAIN Counts(batch) : LearnedConstraint[c] = k /\ e \in Offenders(batch, threshold, c)
    BY <2>1 DEF OffendersOf
  <2>3. c \in RefusalCodes
    BY <2>2 DEF Counts
  <2>4. RefusalKind(c) = "live_world"
    BY <1>4, <2>2, <2>3, KindsOfConstraint
  <2>5. <<c, e>> \in DOMAIN batch.said /\ batch.said[<<c, e>>] > threshold
    BY <2>2, <2>4, OffendersWereNamed
  <2> QED BY <2>5
<1>5. ASSUME NEW k \in kinds \cap DOMAIN capable, capable[k] # 0
      PROVE  100 * Cardinality(report.learned[k]) <= percent * capable[k]
  <2>1. percent * capable[k] \in Nat
    BY <1>5, TimesIsMonotone
  <2>2. CASE IsCapped(batch, threshold, capable, percent, k)
    <3>1. Cardinality(report.learned[k]) = 0
      BY <1>2, <2>2, FS_EmptySet
    <3> QED BY <2>1, <3>1
  <2>3. CASE ~IsCapped(batch, threshold, capable, percent, k)
    <3>1. report.learned[k] = OffendersOf(batch, threshold, k)
      BY <1>2, <2>3
    <3>2. Cardinality(OffendersOf(batch, threshold, k)) \in Nat
      BY OffendersAreFinite, FS_CardinalityType
    <3>3. ~ (100 * Cardinality(OffendersOf(batch, threshold, k)) > percent * capable[k])
      BY <1>5, <2>3 DEF IsCapped
    <3> QED BY <2>1, <3>1, <3>2, <3>3
  <2> QED BY <2>2, <2>3
<1>6. ASSUME IsClean(report)
      PROVE  /\ kinds = {}
             /\ \A p \in DOMAIN batch.said : (batch.said[p] > 0 /\ p[2] # NoEntity) =>
                  RefusalKind(p[1]) = "transient" \/ batch.said[p] <= threshold
  <2>1. FlaggedCodes(batch, threshold) = {} /\ UnknownCodes(batch) = {}
    BY <1>3, <1>6 DEF IsClean
  <2>2. kinds = {}
    BY <2>1 DEF LearnedKinds
  <2>3. ASSUME NEW p \in DOMAIN batch.said, batch.said[p] > 0, p[2] # NoEntity, RefusalKind(p[1]) # "transient"
        PROVE  batch.said[p] <= threshold
    <3>1. p \in Heard(batch) /\ p = <<p[1], p[2]>> /\ batch.said[p] \in Nat
      BY <2>3 DEF Heard, IsBatch
    <3>2. p[1] \in RefusalCodes
      BY <2>1, <3>1 DEF UnknownCodes
    <3>3. p[1] \in DOMAIN Counts(batch) /\ p \in Pairs(batch)
      BY <2>3, <3>1, <3>2 DEF Counts, Pairs
    <3>4. ~IsFlagged(batch, threshold, p[1])
      BY <2>1, <3>3 DEF FlaggedCodes
    <3>5. RefusalKind(p[1]) = "live_world"
      BY <2>3, <3>2, <3>4, KindsOfConstraint DEF IsFlagged
    <3>6. p[2] \notin Offenders(batch, threshold, p[1])
      BY <3>4 DEF IsFlagged
    <3>7. ~ (batch.said[<<p[1], p[2]>>] > threshold)
      <4>1. p[2] \in {x[2] : x \in {y \in Pairs(batch) : y[1] = p[1]}}
        BY <3>3
      <4>2. Offenders(batch, threshold, p[1])
              = {e \in {x[2] : x \in {y \in Pairs(batch) : y[1] = p[1]}} : batch.said[<<p[1], e>>] > threshold}
        BY <3>5 DEF Offenders
      <4> QED BY <3>6, <4>1, <4>2
    <3> QED BY <3>1, <3>7
  <2> QED BY <2>2, <2>3
<1> QED BY <1>1, <1>4, <1>5, <1>6 DEF report

(* What the learn loop may be asked. *)
IsLearnQuestion(q) == IsBatch(q.batch) /\ \A k \in DOMAIN q.capable : q.capable[k] \in Nat

(* learn.py, whatever the batch: what it takes away from the next solve was *)
(* refused past the threshold for that very entity, a kind with a total     *)
(* never takes more than its share, and a batch it calls clean had nothing  *)
(* to teach.                                                                *)
THEOREM LearningIsEarned ==
  ASSUME IsAnswered("learn") => IsLearnQuestion(question) /\ answer = AnswerLearn(question)
  PROVE  LearningKeepsTheSiteUp
<1> SUFFICES ASSUME IsAnswered("learn"), IsLearnQuestion(question), answer = AnswerLearn(question)
             PROVE  LearningKeepsTheSiteUp
  BY DEF LearningKeepsTheSiteUp
<1> DEFINE batch == question.batch
           capable == question.capable
           kinds == DOMAIN answer.learned
<1>1. answer = ReconcileRefusals(batch, 2, capable, 50)
  BY DEF AnswerLearn
<1>2. /\ \A k \in kinds \cap {"block_points", "refresh_occupancy"} : \A e \in answer.learned[k] :
            \E p \in DOMAIN batch.said : p[2] = e /\ batch.said[p] > 2
      /\ \A k \in kinds \cap DOMAIN capable : capable[k] # 0 => 100 * Cardinality(answer.learned[k]) <= 50 * capable[k]
      /\ IsClean(answer) => /\ kinds = {}
                            /\ \A p \in DOMAIN batch.said : (batch.said[p] > 0 /\ p[2] # NoEntity) =>
                                 RefusalKind(p[1]) = "transient" \/ batch.said[p] <= 2
  BY <1>1, LearnedIsEarned DEF IsLearnQuestion
<1>3. ASSUME "block_points" \in DOMAIN capable \cap kinds, capable["block_points"] # 0
      PROVE  2 * Cardinality(answer.learned["block_points"]) <= capable["block_points"]
  <2>1. 100 * Cardinality(answer.learned["block_points"]) <= 50 * capable["block_points"]
    BY <1>2, <1>3
  <2>2. capable["block_points"] \in Nat
    BY <1>3 DEF IsLearnQuestion
  <2>3. Cardinality(answer.learned["block_points"]) \in Nat
    <3>1. answer.learned["block_points"] \in {{}, OffendersOf(batch, 2, "block_points")}
      <4>1. "block_points" \in LearnedKinds(batch, 2)
        BY <1>1, <1>3 DEF ReconcileRefusals
      <4> QED BY <1>1, <4>1, WhatIsLearned
    <3>2. IsFiniteSet(OffendersOf(batch, 2, "block_points")) /\ IsFiniteSet({})
      BY OffendersAreFinite, FS_EmptySet DEF IsLearnQuestion
    <3> QED BY <3>1, <3>2, FS_CardinalityType
  <2> QED BY <2>1, <2>2, <2>3
<1> QED BY <1>2, <1>3 DEF LearningKeepsTheSiteUp

-----------------------------------------------------------------------------
(* An asset with numbers on it, a site, and an asset that is worse off in every respect or as well off. *)
IsAsset(a) ==
  /\ a.soc \in Int /\ a.reserve \in Int /\ a.fault \in Nat /\ a.faults \in Nat
  /\ a.comms \in Int /\ FreshComms <= a.comms /\ a.soil \in Nat /\ a.km \in Nat /\ a.hours \in Nat
IsSite(site) == site.now \in Nat /\ site.eta \in Nat /\ site.congestion \in Nat
IsWorse(w, a) ==
  /\ w.soc <= a.soc /\ a.reserve <= w.reserve /\ w.fault <= a.fault /\ a.faults <= w.faults /\ a.comms <= w.comms
  /\ a.soil <= w.soil /\ a.km <= w.km /\ a.hours <= w.hours

(* What the rungs of one severity ask, of the state alone. *)
IsCritical(a, site) == BelowGuard(a, site) \/ a.fault = 0
IsUrgent(a) ==
  \/ a.fault = 1 \/ a.faults >= Thresholds.faultDebt \/ a.soc <= a.reserve + Thresholds.reserveMargin
  \/ a.comms # FreshComms /\ a.comms >= Thresholds.commsStale
IsRoutine(a, site) ==
  /\ site.congestion <= Thresholds.congestion
  /\ ServiceIsDue(a) \/ a.soil >= Thresholds.sensorSoil \/ a.soil >= Thresholds.washSoil

(* The ladder comes to no more than that. *)
LEMMA LadderBySeverity ==
  ASSUME NEW a, NEW site
  PROVE  LET decided == NaiveThreshold(a, site) IN
         /\ IsCritical(a, site) => decided.recall /\ ~decided.deferrable /\ Severity(decided) = 3
         /\ ~IsCritical(a, site) /\ IsUrgent(a) => decided.recall /\ ~decided.deferrable /\ Severity(decided) = 2
         /\ ~IsCritical(a, site) /\ ~IsUrgent(a) /\ IsRoutine(a, site) => decided.recall /\ Severity(decided) = 1
         /\ ~IsCritical(a, site) /\ ~IsUrgent(a) /\ ~IsRoutine(a, site) => decided = Stay
<1> DEFINE decided == NaiveThreshold(a, site)
<1>1. CASE IsCritical(a, site)
  <2>1. decided \in {Rung("critical_reserve", "critical", 0, site, FALSE), Rung("fault_safety_critical", "critical", 0, site, FALSE)}
    BY <1>1 DEF IsCritical, NaiveThreshold
  <2> QED BY <1>1, <2>1 DEF Rung, Severity
<1>2. CASE ~IsCritical(a, site) /\ IsUrgent(a)
  <2>1. decided \in {Rung("fault_major", "urgent", 0, site, FALSE), Rung("low_soc_reserve", "urgent", 0, site, FALSE),
                     Rung("comms_stale", "urgent", 0, site, FALSE)}
    BY <1>2 DEF IsCritical, IsUrgent, NaiveThreshold
  <2> QED BY <1>2, <2>1 DEF Rung, Severity
<1>3. CASE ~IsCritical(a, site) /\ ~IsUrgent(a) /\ IsRoutine(a, site)
  <2>1. decided \in {Rung("service_interval_due", "routine", 60, site, TRUE), Rung("sensor_soil", "routine", 30, site, TRUE),
                     Rung("wash_cadence", "routine", 60, site, TRUE)}
    BY <1>3 DEF IsCritical, IsUrgent, IsRoutine, NaiveThreshold
  <2> QED BY <1>3, <2>1 DEF Rung, Severity
<1>4. CASE ~IsCritical(a, site) /\ ~IsUrgent(a) /\ ~IsRoutine(a, site)
  <2>1. decided = Stay
    BY <1>4 DEF IsCritical, IsUrgent, IsRoutine, NaiveThreshold
  <2> QED BY <1>4, <2>1
<1> QED BY <1>1, <1>2, <1>3, <1>4

(* Each of the three is kept by an asset that gets worse. *)
LEMMA WorseKeepsTheRung ==
  ASSUME NEW a, IsAsset(a), NEW w, IsAsset(w), IsWorse(w, a), NEW site, IsSite(site)
  PROVE  /\ IsCritical(a, site) => IsCritical(w, site)
         /\ IsUrgent(a) => IsUrgent(w) \/ IsCritical(w, site)
         /\ IsRoutine(a, site) => IsRoutine(w, site)
<1>0. /\ Thresholds.faultDebt = 3 /\ Thresholds.reserveMargin = 15 /\ Thresholds.commsStale = 90
      /\ Thresholds.sensorSoil = 35 /\ Thresholds.washSoil = 50
  BY DEF Thresholds
<1>1. BelowGuard(a, site) => BelowGuard(w, site)
  BY DEF BelowGuard, Thresholds, IsAsset, IsWorse, IsSite
<1>2. a.fault = 0 => w.fault = 0
  BY DEF IsAsset, IsWorse
<1>3. IsUrgent(a) => IsUrgent(w) \/ w.fault = 0
  <2>1. a.fault = 1 => w.fault = 1 \/ w.fault = 0
    BY DEF IsAsset, IsWorse
  <2>2. a.faults >= 3 => w.faults >= 3
    BY DEF IsAsset, IsWorse
  <2>3. a.soc <= a.reserve + 15 => w.soc <= w.reserve + 15
    BY DEF IsAsset, IsWorse
  <2>4. a.comms # FreshComms /\ a.comms >= 90 => w.comms # FreshComms /\ w.comms >= 90
    BY DEF IsAsset, IsWorse, FreshComms
  <2> QED BY <1>0, <2>1, <2>2, <2>3, <2>4 DEF IsUrgent
<1>4. ServiceIsDue(a) => ServiceIsDue(w)
  BY DEF ServiceIsDue, Thresholds, IsAsset, IsWorse
<1>5. a.soil >= 35 \/ a.soil >= 50 => w.soil >= 35 \/ w.soil >= 50
  BY DEF IsAsset, IsWorse
<1> QED BY <1>0, <1>1, <1>2, <1>3, <1>4, <1>5 DEF IsCritical, IsRoutine

(* One cycle of the ladder, as it is recorded. *)
Cycle(a, site, accepts) == RecallCycle("naive_threshold", a, site, accepts, 15)

(* A cycle that does not recall stays put, with no event and nothing to resolve. *)
LEMMA CycleStays ==
  ASSUME NEW a, NEW site, NEW accepts, ~NaiveThreshold(a, site).recall
  PROVE  /\ Cycle(a, site, accepts).outcome = Stay
         /\ Cycle(a, site, accepts).events = <<>> /\ Cycle(a, site, accepts).resolve = <<>>
BY DEF Cycle, RecallCycle, Decide

(* A recall that the work side accepts is issued. *)
LEMMA CycleIssues ==
  ASSUME NEW a, NEW site, NaiveThreshold(a, site).recall
  PROVE  /\ Cycle(a, site, TRUE).outcome = NaiveThreshold(a, site)
         /\ Len(Cycle(a, site, TRUE).events) = 1 /\ Cycle(a, site, TRUE).resolve = <<>>
<1> DEFINE event == [type |-> "recall_issued", asset |-> a, decision |-> NaiveThreshold(a, site)]
<1>1. Cycle(a, site, TRUE) = [outcome |-> NaiveThreshold(a, site), events |-> <<event>>, resolve |-> <<>>]
  BY DEF Cycle, RecallCycle, Decide
<1> DEFINE decided == NaiveThreshold(a, site)
           cycle == Cycle(a, site, TRUE)
<1> HIDE DEF event, decided, cycle
<1>2. Len(<<event>>) = 1
  OBVIOUS
<1>3. cycle = [outcome |-> decided, events |-> <<event>>, resolve |-> <<>>]
  BY <1>1 DEF decided, cycle
<1>4. cycle.outcome = decided /\ cycle.events = <<event>> /\ cycle.resolve = <<>>
  BY <1>3
<1> QED BY <1>2, <1>4 DEF decided, cycle

(* One that it does not is recorded as refused, and asks for a new solve. *)
LEMMA CycleIsRefused ==
  ASSUME NEW a, NEW site, NEW accepts, NaiveThreshold(a, site).recall, ~accepts
  PROVE  /\ ~Cycle(a, site, accepts).outcome.recall
         /\ Len(Cycle(a, site, accepts).events) = 1 /\ Cycle(a, site, accepts).resolve # <<>>
<1> DEFINE event == [type |-> "recall_refused", asset |-> a, decision |-> NaiveThreshold(a, site)]
           stays == [Stay EXCEPT !.trigger = "work_side_refusal"]
<1>1. Cycle(a, site, accepts) = [outcome |-> stays, events |-> <<event>>, resolve |-> <<15>>]
  BY DEF Cycle, RecallCycle, Decide
<1>2. ~stays.recall
  BY DEF Stay
<1> HIDE DEF event, stays
<1>3. Len(<<event>>) = 1 /\ <<15>> # <<>>
  OBVIOUS
<1> QED BY <1>1, <1>2, <1>3

(* What the recall may be asked. *)
IsRecallQuestion(q) ==
  IsAsset(q.asset) /\ IsAsset(q.worse) /\ IsWorse(q.worse, q.asset) /\ IsSite(q.site) /\ q.accepts \in BOOLEAN

(* recall_decision.py, whatever the asset, the site and the answer of the   *)
(* work side: who is worse off is never recalled less urgently, and what is *)
(* recorded is what was decided, once.                                      *)
THEOREM RecallIsNoKinder ==
  ASSUME IsAnswered("recall") => IsRecallQuestion(question) /\ answer = AnswerRecall(question)
  PROVE  RecallNeverLessUrgent
<1> SUFFICES ASSUME IsAnswered("recall"), IsRecallQuestion(question), answer = AnswerRecall(question)
             PROVE  RecallNeverLessUrgent
  BY DEF RecallNeverLessUrgent
<1> DEFINE q == question
           decided == NaiveThreshold(q.asset, q.site)
           worse == NaiveThreshold(q.worse, q.site)
<1>1. answer.now = Cycle(q.asset, q.site, q.accepts) /\ answer.worse = Cycle(q.worse, q.site, TRUE)
  BY DEF AnswerRecall, Cycle
<1>2. Severity(worse) >= Severity(decided)
  <2>1. /\ IsCritical(q.asset, q.site) => IsCritical(q.worse, q.site)
        /\ IsUrgent(q.asset) => IsUrgent(q.worse) \/ IsCritical(q.worse, q.site)
        /\ IsRoutine(q.asset, q.site) => IsRoutine(q.worse, q.site)
    BY WorseKeepsTheRung DEF IsRecallQuestion
  <2>2. Severity(Stay) = 0
    BY DEF Severity, Stay
  <2>3. \A a : /\ Severity(NaiveThreshold(a, q.site)) \in 0..3
               /\ IsCritical(a, q.site) <=> Severity(NaiveThreshold(a, q.site)) = 3
               /\ ~IsCritical(a, q.site) /\ IsUrgent(a) <=> Severity(NaiveThreshold(a, q.site)) = 2
               /\ ~IsCritical(a, q.site) /\ ~IsUrgent(a) /\ IsRoutine(a, q.site) <=> Severity(NaiveThreshold(a, q.site)) = 1
    BY <2>2, LadderBySeverity
  <2> HIDE DEF q
  <2>4. PICK m \in 0..3, n \in 0..3 : m = Severity(worse) /\ n = Severity(decided)
    BY <2>3
  <2> QED BY <2>1, <2>3, <2>4
<1>3. Severity(answer.worse.outcome) = Severity(worse)
  <2>1. ~worse.recall => worse = Stay
    BY LadderBySeverity
  <2>2. ~worse.recall => answer.worse.outcome = Stay
    BY DEF AnswerRecall, RecallCycle, Decide
  <2>3. worse.recall => answer.worse.outcome = worse
    BY DEF AnswerRecall, RecallCycle, Decide
  <2> QED BY <2>1, <2>2, <2>3
<1>4. /\ decided.recall => Len(answer.now.events) = 1
      /\ answer.now.resolve # <<>> <=> (decided.recall /\ ~q.accepts)
      /\ answer.now.outcome.recall <=> (decided.recall /\ q.accepts)
  <2>1. q.accepts \in BOOLEAN
    BY DEF IsRecallQuestion
  <2>2. Len(<<>>) = 0 /\ ~Stay.recall
    BY DEF Stay
  <2>3. CASE ~decided.recall
    BY <1>1, <2>1, <2>2, <2>3, CycleStays
  <2>4. CASE decided.recall /\ q.accepts
    <3>1. /\ Cycle(q.asset, q.site, q.accepts).outcome = decided
          /\ Len(Cycle(q.asset, q.site, q.accepts).events) = 1 /\ Cycle(q.asset, q.site, q.accepts).resolve = <<>>
      <4>1. q.accepts = TRUE /\ decided.recall
        BY <2>1, <2>4
      <4>2. /\ Cycle(q.asset, q.site, TRUE).outcome = decided
            /\ Len(Cycle(q.asset, q.site, TRUE).events) = 1 /\ Cycle(q.asset, q.site, TRUE).resolve = <<>>
        BY <4>1, CycleIssues
      <4> QED BY <4>1, <4>2
    <3> HIDE DEF decided, q
    <3> QED BY <1>1, <2>4, <3>1
  <2>5. CASE decided.recall /\ ~q.accepts
    BY <1>1, <2>5, CycleIsRefused
  <2> QED BY <2>1, <2>3, <2>4, <2>5
<1>5. decided.deferrable => q.site.congestion <= 30
  <2>1. ~Stay.deferrable
    BY DEF Stay
  <2>2. Thresholds.congestion = 30
    BY DEF Thresholds
  <2>3. IsRoutine(q.asset, q.site) => q.site.congestion <= 30
    BY <2>2 DEF IsRoutine
  <2> QED BY <2>1, <2>3, LadderBySeverity
<1> HIDE DEF decided, worse
<1>6. Severity(answer.worse.outcome) >= Severity(decided)
  BY <1>2, <1>3
<1> QED BY <1>4, <1>5, <1>6 DEF RecallNeverLessUrgent, q, decided

-----------------------------------------------------------------------------
(* A set that is one whole interval from one has its end as the greatest. *)
LEMMA GreatestOfInterval == \A n \in 1..6 : Max({1} \cup 1..n) = n
<1> SUFFICES ASSUME NEW n \in 1..6 PROVE Max({1} \cup 1..n) = n
  OBVIOUS
<1> DEFINE S == {1} \cup 1..n
<1>1. IsFiniteSet(S) /\ S \subseteq Int /\ S # {}
  <2>1. IsFiniteSet({1})
    BY FS_Singleton
  <2>2. IsFiniteSet(1..n)
    BY FS_Interval
  <2> QED BY <2>1, <2>2, FS_Union, SMTT(30)
<1>2. n \in S /\ \A x \in S : x <= n
  OBVIOUS
<1> HIDE DEF S
<1>3. Max(S) \in S /\ \A x \in S : x <= Max(S)
  BY <1>1, MaxIsGreatest
<1>4. Max(S) \in Int
  BY <1>1, <1>3
<1> QED BY <1>2, <1>3, <1>4 DEF S

(* The multiplier by the tables' own intervals. *)
NmcSoc(s) ==
  IF s < 50 THEN 100 ELSE IF s < 70 THEN 100 + (75 * (s - 50)) \div 20 ELSE IF s < 80 THEN 175
  ELSE IF s < 90 THEN 175 + (25 * (s - 80)) \div 10 ELSE IF s < 100 THEN 200 + (200 * (s - 90)) \div 10 ELSE 400
LfpSoc(s) ==
  IF s < 50 THEN 100 ELSE IF s < 70 THEN 100 + (25 * (s - 50)) \div 20 ELSE IF s < 80 THEN 125 + (25 * (s - 70)) \div 10
  ELSE IF s < 90 THEN 150 + (25 * (s - 80)) \div 10 ELSE IF s < 100 THEN 175 + (25 * (s - 90)) \div 10 ELSE 200

(* Either table's points below a charge. *)
LEMMA PointsBelow ==
  ASSUME NEW name, NEW s \in Nat, s > 30, s < 100
  PROVE  LET t == Chemistry(name).table
             i == IF s < 50 THEN 1 ELSE IF s < 70 THEN 2 ELSE IF s < 80 THEN 3 ELSE IF s < 90 THEN 4 ELSE 5
         IN  Max({1} \cup {k \in DOMAIN t : t[k][1] <= s}) = i
<1> DEFINE t == Chemistry(name).table
           i == IF s < 50 THEN 1 ELSE IF s < 70 THEN 2 ELSE IF s < 80 THEN 3 ELSE IF s < 90 THEN 4 ELSE 5
<1>1. /\ DOMAIN t = 1..6 /\ t[1][1] = 30 /\ t[2][1] = 50 /\ t[3][1] = 70 /\ t[4][1] = 80 /\ t[5][1] = 90 /\ t[6][1] = 100
  BY DEF Chemistry
<1> HIDE DEF t
<1>2. {k \in DOMAIN t : t[k][1] <= s} = 1..i
  <2>1. \A k \in 1..6 : k = 1 \/ k = 2 \/ k = 3 \/ k = 4 \/ k = 5 \/ k = 6
    OBVIOUS
  <2>2. \A k \in 1..6 : t[k][1] <= s <=> k <= i
    BY <1>1, <2>1
  <2>3. i \in 1..6
    OBVIOUS
  <2> QED BY <1>1, <2>2, <2>3
<1>3. i \in 1..6
  OBVIOUS
<1> HIDE DEF i
<1>4. Max({1} \cup 1..i) = i
  BY <1>3, GreatestOfInterval
<1>5. {1} \cup {k \in DOMAIN t : t[k][1] <= s} = {1} \cup 1..i
  BY <1>2
<1>6. Max({1} \cup {k \in DOMAIN t : t[k][1] <= s}) = i
  BY <1>4, <1>5, SMTT(30)
<1> QED BY <1>6 DEF i, t

(* Beyond its ends a table is flat. *)
LEMMA FlatBeyond ==
  ASSUME NEW chem, NEW s
  PROVE  /\ s <= chem.table[1][1] => FSoc(chem, s) = chem.table[1][2]
         /\ ~ (s <= chem.table[1][1]) /\ s >= chem.table[Len(chem.table)][1] => FSoc(chem, s) = chem.table[Len(chem.table)][2]
BY DEF FSoc

(* So the interpolation is what the intervals say. *)
LEMMA FSocByInterval ==
  ASSUME NEW s \in Nat
  PROVE  FSoc(Chemistry("NMC"), s) = NmcSoc(s) /\ FSoc(Chemistry("LFP"), s) = LfpSoc(s)
<1> DEFINE i == IF s < 50 THEN 1 ELSE IF s < 70 THEN 2 ELSE IF s < 80 THEN 3 ELSE IF s < 90 THEN 4 ELSE 5
           n == Chemistry("NMC").table
           l == Chemistry("LFP").table
<1>1. /\ n = <<<<30, 100>>, <<50, 100>>, <<70, 175>>, <<80, 175>>, <<90, 200>>, <<100, 400>>>>
      /\ l = <<<<30, 100>>, <<50, 100>>, <<70, 125>>, <<80, 150>>, <<90, 175>>, <<100, 200>>>>
  BY DEF Chemistry
<1>0. n = Chemistry("NMC").table /\ l = Chemistry("LFP").table
  OBVIOUS
<1>2. /\ Len(n) = 6 /\ Len(l) = 6
      /\ n[1] = <<30, 100>> /\ n[2] = <<50, 100>> /\ n[3] = <<70, 175>> /\ n[4] = <<80, 175>> /\ n[5] = <<90, 200>> /\ n[6] = <<100, 400>>
      /\ l[1] = <<30, 100>> /\ l[2] = <<50, 100>> /\ l[3] = <<70, 125>> /\ l[4] = <<80, 150>> /\ l[5] = <<90, 175>> /\ l[6] = <<100, 200>>
  <2> HIDE DEF n, l
  <2> QED BY <1>1
<1>3. CASE s > 30 /\ s < 100
  <2>1. /\ Max({1} \cup {k \in DOMAIN n : n[k][1] <= s}) = i
        /\ Max({1} \cup {k \in DOMAIN l : l[k][1] <= s}) = i
    BY <1>3, PointsBelow
  <2>2. /\ n[1][1] = 30 /\ n[Len(n)][1] = 100 /\ l[1][1] = 30 /\ l[Len(l)][1] = 100
    <3> HIDE DEF n, l
    <3> QED BY <1>2, SMTT(30)
  <2>3. /\ FSoc(Chemistry("NMC"), s) = n[i][2] + ((n[i + 1][2] - n[i][2]) * (s - n[i][1])) \div (n[i + 1][1] - n[i][1])
        /\ FSoc(Chemistry("LFP"), s) = l[i][2] + ((l[i + 1][2] - l[i][2]) * (s - l[i][1])) \div (l[i + 1][1] - l[i][1])
    <3>1. ~ (s <= 30) /\ ~ (s >= 100)
      BY <1>3
    <3> HIDE DEF i, n, l
    <3> QED BY <2>1, <2>2, <3>1 DEF FSoc, n, l
  <2> HIDE DEF n, l
  <2>4. CASE s < 50
    <3>1. i = 1 /\ i + 1 = 2
      BY <1>3, <2>4
    <3> HIDE DEF i
    <3>2. /\ FSoc(Chemistry("NMC"), s) = 100 + ((100 - 100) * (s - 30)) \div (50 - 30)
          /\ FSoc(Chemistry("LFP"), s) = 100 + ((100 - 100) * (s - 30)) \div (50 - 30)
      BY <1>2, <2>3, <3>1
    <3> QED BY <1>3, <2>4, <3>2 DEF NmcSoc, LfpSoc
  <2>5. CASE s >= 50 /\ s < 70
    <3>1. i = 2 /\ i + 1 = 3
      BY <1>3, <2>5
    <3> HIDE DEF i
    <3>2. /\ FSoc(Chemistry("NMC"), s) = 100 + ((175 - 100) * (s - 50)) \div (70 - 50)
          /\ FSoc(Chemistry("LFP"), s) = 100 + ((125 - 100) * (s - 50)) \div (70 - 50)
      BY <1>2, <2>3, <3>1
    <3> QED BY <1>3, <2>5, <3>2 DEF NmcSoc, LfpSoc
  <2>6. CASE s >= 70 /\ s < 80
    <3>1. i = 3 /\ i + 1 = 4
      BY <1>3, <2>6
    <3> HIDE DEF i
    <3>2. /\ FSoc(Chemistry("NMC"), s) = 175 + ((175 - 175) * (s - 70)) \div (80 - 70)
          /\ FSoc(Chemistry("LFP"), s) = 125 + ((150 - 125) * (s - 70)) \div (80 - 70)
      BY <1>2, <2>3, <3>1
    <3> QED BY <1>3, <2>6, <3>2 DEF NmcSoc, LfpSoc
  <2>7. CASE s >= 80 /\ s < 90
    <3>1. i = 4 /\ i + 1 = 5
      BY <1>3, <2>7
    <3> HIDE DEF i
    <3>2. /\ FSoc(Chemistry("NMC"), s) = 175 + ((200 - 175) * (s - 80)) \div (90 - 80)
          /\ FSoc(Chemistry("LFP"), s) = 150 + ((175 - 150) * (s - 80)) \div (90 - 80)
      BY <1>2, <2>3, <3>1
    <3> QED BY <1>3, <2>7, <3>2 DEF NmcSoc, LfpSoc
  <2>8. CASE s >= 90
    <3>1. i = 5 /\ i + 1 = 6
      BY <1>3, <2>8
    <3> HIDE DEF i
    <3>2. /\ FSoc(Chemistry("NMC"), s) = 200 + ((400 - 200) * (s - 90)) \div (100 - 90)
          /\ FSoc(Chemistry("LFP"), s) = 175 + ((200 - 175) * (s - 90)) \div (100 - 90)
      BY <1>2, <2>3, <3>1
    <3> QED BY <1>3, <2>8, <3>2 DEF NmcSoc, LfpSoc
  <2> QED BY <2>4, <2>5, <2>6, <2>7, <2>8
<1>4. CASE s <= 30
  <2> HIDE DEF n, l
  <2>1. FSoc(Chemistry("NMC"), s) = 100 /\ FSoc(Chemistry("LFP"), s) = 100
    <3>1. n[1][1] = 30 /\ n[1][2] = 100 /\ l[1][1] = 30 /\ l[1][2] = 100
      BY <1>2
    <3> QED BY <1>0, <1>4, <3>1, FlatBeyond
  <2> QED BY <1>4, <2>1 DEF NmcSoc, LfpSoc
<1>5. CASE s >= 100
  <2>1. ~ (s <= 30)
    BY <1>5
  <2> HIDE DEF n, l
  <2>2. FSoc(Chemistry("NMC"), s) = 400 /\ FSoc(Chemistry("LFP"), s) = 200
    <3>1. n[1][1] = 30 /\ n[Len(n)][1] = 100 /\ n[Len(n)][2] = 400 /\ l[1][1] = 30 /\ l[Len(l)][1] = 100 /\ l[Len(l)][2] = 200
      BY <1>2
    <3> QED BY <1>0, <1>5, <2>1, <3>1, FlatBeyond, SMTT(30)
  <2> QED BY <1>5, <2>2 DEF NmcSoc, LfpSoc
<1> QED BY <1>3, <1>4, <1>5

(* A lower charge never has the greater multiplier, and none is below one. *)
LEMMA ParkedLowerFadesLess ==
  ASSUME NEW name, IsChemistry(name), NEW low \in Nat, NEW high \in Nat, low <= high
  PROVE  /\ FSoc(Chemistry(name), low) \in Nat /\ FSoc(Chemistry(name), high) \in Nat
         /\ 100 <= FSoc(Chemistry(name), low)
         /\ FSoc(Chemistry(name), low) <= FSoc(Chemistry(name), high)
<1>1. NmcSoc(low) \in Nat /\ NmcSoc(high) \in Nat /\ 100 <= NmcSoc(low) /\ NmcSoc(low) <= NmcSoc(high)
  BY DEF NmcSoc
<1>2. LfpSoc(low) \in Nat /\ LfpSoc(high) \in Nat /\ 100 <= LfpSoc(low) /\ LfpSoc(low) <= LfpSoc(high)
  BY DEF LfpSoc
<1> QED BY <1>1, <1>2, FSocByInterval DEF IsChemistry

(* Warmer is never a worse regime, at any rate of charging. *)
LEMMA WarmerPlatesLess ==
  ASSUME NEW chem, chem.plating \in Int, NEW cold \in Int, NEW warm \in Int, cold <= warm, NEW rate \in Int
  PROVE  /\ PlatingRisk(chem, warm, rate) = "severe" => PlatingRisk(chem, cold, rate) = "severe"
         /\ PlatingRisk(chem, warm, rate) \in {"severe", "elevated"} => PlatingRisk(chem, cold, rate) \in {"severe", "elevated"}
<1>1. PICK p \in Int : p = chem.plating
  OBVIOUS
<1> QED BY <1>1 DEF PlatingRisk

(* Fewer of them follows by counting: of fewer indices, one regime or the other. *)
LEMMA EventsAreFewer ==
  ASSUME NEW own, IsFiniteSet(own), NEW was, NEW now,
         \A i \in own : /\ now[i] = "severe" => was[i] = "severe"
                        /\ now[i] \in {"severe", "elevated"} => was[i] \in {"severe", "elevated"}
  PROVE  LET Of(f, regime) == Cardinality({i \in own : f[i] = regime}) IN
         /\ Of(now, "severe") <= Of(was, "severe")
         /\ Of(now, "severe") + Of(now, "elevated") <= Of(was, "severe") + Of(was, "elevated")
<1> DEFINE In(f, regime) == {i \in own : f[i] = regime}
<1>1. ASSUME NEW f
      PROVE  /\ IsFiniteSet(In(f, "severe")) /\ IsFiniteSet(In(f, "elevated"))
             /\ Cardinality(In(f, "severe")) \in Nat /\ Cardinality(In(f, "elevated")) \in Nat
             /\ IsFiniteSet(In(f, "severe") \cup In(f, "elevated"))
             /\ Cardinality(In(f, "severe") \cup In(f, "elevated")) = Cardinality(In(f, "severe")) + Cardinality(In(f, "elevated"))
  <2>1. IsFiniteSet(In(f, "severe")) /\ IsFiniteSet(In(f, "elevated"))
    BY FS_Subset
  <2>2. In(f, "severe") \cap In(f, "elevated") = {}
    OBVIOUS
  <2> HIDE DEF In
  <2>3. /\ Cardinality(In(f, "severe")) \in Nat /\ Cardinality(In(f, "elevated")) \in Nat
        /\ IsFiniteSet(In(f, "severe") \cup In(f, "elevated"))
    BY <2>1, FS_CardinalityType, FS_Union
  <2>4. Cardinality(In(f, "severe") \cup In(f, "elevated"))
          = Cardinality(In(f, "severe")) + Cardinality(In(f, "elevated")) - Cardinality(In(f, "severe") \cap In(f, "elevated"))
    BY <2>1, FS_Union
  <2>5. Cardinality({}) = 0
    BY FS_EmptySet
  <2>6. \A a, b \in Nat : a + b - 0 = a + b
    OBVIOUS
  <2>7. Cardinality(In(f, "severe") \cup In(f, "elevated")) = Cardinality(In(f, "severe")) + Cardinality(In(f, "elevated")) - 0
    BY <2>2, <2>4, <2>5
  <2> QED BY <2>1, <2>3, <2>6, <2>7
<1>2. In(now, "severe") \subseteq In(was, "severe")
  OBVIOUS
<1>3. In(now, "severe") \cup In(now, "elevated") \subseteq In(was, "severe") \cup In(was, "elevated")
  OBVIOUS
<1> HIDE DEF In
<1>4. /\ Cardinality(In(now, "severe")) <= Cardinality(In(was, "severe"))
      /\ Cardinality(In(now, "severe") \cup In(now, "elevated")) <= Cardinality(In(was, "severe") \cup In(was, "elevated"))
  BY <1>1, <1>2, <1>3, FS_Subset
<1>5. /\ Cardinality(In(now, "severe")) + Cardinality(In(now, "elevated"))
           <= Cardinality(In(was, "severe")) + Cardinality(In(was, "elevated"))
  <2>1. /\ Cardinality(In(now, "severe") \cup In(now, "elevated")) = Cardinality(In(now, "severe")) + Cardinality(In(now, "elevated"))
        /\ Cardinality(In(was, "severe") \cup In(was, "elevated")) = Cardinality(In(was, "severe")) + Cardinality(In(was, "elevated"))
    BY <1>1
  <2> QED BY <1>4, <2>1
<1> QED BY <1>4, <1>5 DEF In

(* A share of a hundred that is at least the whole is a whole. *)
LEMMA SavingIsOne ==
  ASSUME NEW m \in Nat, NEW n \in Nat, n > 0, n <= m
  PROVE  (100 * m) \div n >= 100
<1> DEFINE q == (100 * m) \div n
<1>1. q \in Int /\ 100 * m < n * (q + 1)
  OBVIOUS
<1>2. SUFFICES ASSUME q + 1 <= 100 PROVE FALSE
  BY <1>1
<1> HIDE DEF q
<1>3. n * (q + 1) <= n * 100
  BY <1>1, <1>2
<1> QED BY <1>1, <1>3

(* An asset that parks at a stated charge fades no more than one that stays where its last session left it. *)
LEMMA ParkingFades ==
  ASSUME NEW records, NEW own, NEW hours \in Nat, NEW temp, NEW warmth, warmth[temp] \in Nat,
         NEW name, name = records[Min(own)].chemistry, IsChemistry(name),
         NEW parked \in Nat, records[Max(own)].socEnd \in Nat, parked <= records[Max(own)].socEnd
  PROVE  AssessAsset(records, own, hours, parked, temp, warmth).fade <= AssessAsset(records, own, hours, -1, temp, warmth).fade
<1> DEFINE chem == Chemistry(name)
           soc == records[Max(own)].socEnd
           w == warmth[temp]
<1>1. /\ FSoc(chem, parked) \in Nat /\ FSoc(chem, soc) \in Nat /\ FSoc(chem, parked) <= FSoc(chem, soc)
  BY ParkedLowerFadesLess
<1>2. (IF parked = -1 THEN soc ELSE parked) = parked /\ (IF -1 = -1 THEN soc ELSE -1) = soc
  OBVIOUS
<1>3. /\ AssessAsset(records, own, hours, parked, temp, warmth).fade = IF hours > 0 THEN w * FSoc(chem, parked) * hours ELSE 0
      /\ AssessAsset(records, own, hours, -1, temp, warmth).fade = IF hours > 0 THEN w * FSoc(chem, soc) * hours ELSE 0
  <2> HIDE DEF chem, w
  <2>1. AssessAsset(records, own, hours, -1, temp, warmth).fade
          = IF hours > 0 THEN w * FSoc(chem, IF -1 = -1 THEN soc ELSE -1) * hours ELSE 0
    BY DEF AssessAsset, chem, w
  <2>2. AssessAsset(records, own, hours, parked, temp, warmth).fade
          = IF hours > 0 THEN w * FSoc(chem, IF parked = -1 THEN soc ELSE parked) * hours ELSE 0
    BY DEF AssessAsset, chem, w
  <2> HIDE DEF soc
  <2> QED BY <1>2, <2>1, <2>2
<1> HIDE DEF chem, soc, w
<1>4. w \in Nat
  BY DEF w
<1>5. w * FSoc(chem, parked) \in Nat /\ w * FSoc(chem, soc) \in Nat /\ w * FSoc(chem, parked) <= w * FSoc(chem, soc)
  BY <1>1, <1>4, TimesIsMonotone
<1>6. \A m, n \in Nat : m <= n => m * hours <= n * hours
  <2>1. \A m \in Nat : m * hours = hours * m
    OBVIOUS
  <2> QED BY <2>1, TimesIsMonotone
<1>7. w * FSoc(chem, parked) * hours <= w * FSoc(chem, soc) * hours
  BY <1>5, <1>6
<1> QED BY <1>3, <1>7

(* Sessions that were as fast and warmer plated no more often, in either regime. *)
LEMMA WarmerSessions ==
  ASSUME NEW records, NEW warmer, NEW own, IsFiniteSet(own), NEW hours, NEW parked, NEW temp, NEW mild, NEW warmth,
         NEW name, name = records[Min(own)].chemistry, name = warmer[Min(own)].chemistry, IsChemistry(name),
         \A i \in own : /\ records[i].temp \in Int /\ warmer[i].temp \in Int /\ records[i].temp <= warmer[i].temp
                        /\ CRate(records[i]) \in Int /\ CRate(warmer[i]) = CRate(records[i])
  PROVE  LET was == AssessAsset(records, own, hours, parked, temp, warmth)
             warm == AssessAsset(warmer, own, hours, parked, mild, warmth)
         IN  warm.severe + warm.elevated <= was.severe + was.elevated /\ warm.severe <= was.severe
<1> DEFINE chem == Chemistry(name)
           f == [i \in own |-> PlatingRisk(chem, records[i].temp, CRate(records[i]))]
           g == [i \in own |-> PlatingRisk(chem, warmer[i].temp, CRate(warmer[i]))]
           Of(h, regime) == Cardinality({i \in own : h[i] = regime})
           was == AssessAsset(records, own, hours, parked, temp, warmth)
           warm == AssessAsset(warmer, own, hours, parked, mild, warmth)
<1>1. chem.plating \in Int
  BY DEF Chemistry
<1>2. \A i \in own : /\ g[i] = "severe" => f[i] = "severe"
                     /\ g[i] \in {"severe", "elevated"} => f[i] \in {"severe", "elevated"}
  <2> SUFFICES ASSUME NEW i \in own
               PROVE  /\ g[i] = "severe" => f[i] = "severe"
                      /\ g[i] \in {"severe", "elevated"} => f[i] \in {"severe", "elevated"}
    OBVIOUS
  <2>1. f[i] = PlatingRisk(chem, records[i].temp, CRate(records[i])) /\ g[i] = PlatingRisk(chem, warmer[i].temp, CRate(records[i]))
    OBVIOUS
  <2> HIDE DEF chem, f, g
  <2> QED BY <1>1, <2>1, WarmerPlatesLess
<1>3. Of(g, "severe") <= Of(f, "severe") /\ Of(g, "severe") + Of(g, "elevated") <= Of(f, "severe") + Of(f, "elevated")
  <2> HIDE DEF f, g
  <2> QED BY <1>2, EventsAreFewer
<1>4. /\ was.elevated = Of(f, "elevated") /\ was.severe = Of(f, "severe")
  <2>1. /\ was.elevated = Cardinality({i \in own : PlatingRisk(chem, records[i].temp, CRate(records[i])) = "elevated"})
        /\ was.severe = Cardinality({i \in own : PlatingRisk(chem, records[i].temp, CRate(records[i])) = "severe"})
    BY DEF AssessAsset
  <2>2. /\ {i \in own : PlatingRisk(chem, records[i].temp, CRate(records[i])) = "elevated"} = {i \in own : f[i] = "elevated"}
        /\ {i \in own : PlatingRisk(chem, records[i].temp, CRate(records[i])) = "severe"} = {i \in own : f[i] = "severe"}
    OBVIOUS
  <2> QED BY <2>1, <2>2
<1>5. /\ warm.elevated = Of(g, "elevated") /\ warm.severe = Of(g, "severe")
  <2>1. /\ warm.elevated = Cardinality({i \in own : PlatingRisk(chem, warmer[i].temp, CRate(warmer[i])) = "elevated"})
        /\ warm.severe = Cardinality({i \in own : PlatingRisk(chem, warmer[i].temp, CRate(warmer[i])) = "severe"})
    BY DEF AssessAsset
  <2>2. /\ {i \in own : PlatingRisk(chem, warmer[i].temp, CRate(warmer[i])) = "elevated"} = {i \in own : g[i] = "elevated"}
        /\ {i \in own : PlatingRisk(chem, warmer[i].temp, CRate(warmer[i])) = "severe"} = {i \in own : g[i] = "severe"}
    OBVIOUS
  <2> QED BY <2>1, <2>2
<1> HIDE DEF f, g, was, warm
<1> QED BY <1>3, <1>4, <1>5 DEF was, warm

(* What the wear report may be asked. *)
IsWearQuestion(q) == q.soc \in Nat /\ q.park \in Nat /\ q.temp \in Int /\ q.temp <= 400 /\ q.kw \in Nat

(* A vehicle of a chemistry that is not known is refused, and no other. *)
LEMMA UnknownIsRefused ==
  ASSUME NEW records, NEW own, NEW hours, NEW soc, NEW temp, NEW warmth
  PROVE  /\ IsChemistry(records[Min(own)].chemistry) => ~AssessAsset(records, own, hours, soc, temp, warmth).refused
         /\ ~IsChemistry(records[Min(own)].chemistry) => AssessAsset(records, own, hours, soc, temp, warmth).refused
<1>1. CASE IsChemistry(records[Min(own)].chemistry)
  BY <1>1 DEF AssessAsset
<1>2. CASE ~IsChemistry(records[Min(own)].chemistry)
  BY <1>2 DEF AssessAsset
<1> QED BY <1>1, <1>2

(* degradation.py, whatever the chemistry it knows, the charges, the rate   *)
(* and the temperature: parking lower never fades more and saves what it    *)
(* says, and a warmer session is never in a worse regime.                   *)
THEOREM ParkingLowerIsCheaper ==
  ASSUME IsAnswered("wear") => IsWearQuestion(question) /\ answer = AnswerWear(question)
  PROVE  ParkingLowerNeverCosts
<1> SUFFICES ASSUME IsAnswered("wear"), ~answer.now.refused, IsWearQuestion(question), answer = AnswerWear(question)
             PROVE  ParkingLowerNeverCosts
  BY DEF ParkingLowerNeverCosts
<1> DEFINE q == question
           RecordsAt(temp) == <<[WearRecord(q) EXCEPT !.temp = temp]>>
           Of(temp, parked) == AssessAsset(RecordsAt(temp), {1}, 8, parked, Most(0, temp), WarmthOf)
<1>1. /\ answer.now = Assess(RecordsAt(q.temp), 8, -1, Most(0, q.temp), WarmthOf)
      /\ answer.parked = Assess(RecordsAt(q.temp), 8, q.park, Most(0, q.temp), WarmthOf)
      /\ answer.warmer = Assess(RecordsAt(q.temp + 100), 8, -1, Most(0, q.temp + 100), WarmthOf)
      /\ answer.saving = IF IsChemistry(q.chemistry) THEN SocParkSaving(Chemistry(q.chemistry), q.soc, q.park) ELSE 0
  BY DEF AnswerWear
<1>2. ASSUME NEW temp
      PROVE  /\ DOMAIN RecordsAt(temp) = {1} /\ RecordsAt(temp)[1].asset = "a" /\ RecordsAt(temp)[1].chemistry = q.chemistry
             /\ RecordsAt(temp)[1].socEnd = q.soc /\ RecordsAt(temp)[1].temp = temp
             /\ RecordsAt(temp)[1].kwh = 60 /\ RecordsAt(temp)[1].peakKw = q.kw
  BY DEF WearRecord
<1> HIDE DEF RecordsAt
<1>3. ASSUME NEW temp, NEW parked
      PROVE  LET report == Assess(RecordsAt(temp), 8, parked, Most(0, temp), WarmthOf)
             IN  /\ IsChemistry(q.chemistry) => report.assets["a"] = Of(temp, parked)
                 /\ ~IsChemistry(q.chemistry) => report.refused
  <2> DEFINE records == RecordsAt(temp)
             each == [a \in {"a"} |-> AssessAsset(records, {i \in DOMAIN records : records[i].asset = a}, 8, parked, Most(0, temp), WarmthOf)]
  <2>1. {records[i].asset : i \in DOMAIN records} = {"a"} /\ {i \in DOMAIN records : records[i].asset = "a"} = {1}
    BY <1>2
  <2>2. Assess(records, 8, parked, Most(0, temp), WarmthOf)
          = IF \E a \in {"a"} : each[a].refused THEN [refused |-> TRUE] ELSE [refused |-> FALSE, assets |-> each]
    BY <2>1 DEF Assess
  <2>3. each["a"] = Of(temp, parked)
    BY <2>1
  <2>4. Min({1}) = 1
    BY DEF Min
  <2>5. IsChemistry(q.chemistry) => ~Of(temp, parked).refused
    BY <1>2, <2>4, UnknownIsRefused
  <2>6. ~IsChemistry(q.chemistry) => Of(temp, parked).refused
    BY <1>2, <2>4, UnknownIsRefused
  <2> HIDE DEF each, records
  <2> QED BY <2>2, <2>3, <2>5, <2>6 DEF records
<1>4. IsChemistry(q.chemistry)
  BY <1>1, <1>3
<1>5. /\ answer.now.assets["a"] = Of(q.temp, -1) /\ answer.parked.assets["a"] = Of(q.temp, q.park)
      /\ answer.warmer.assets["a"] = Of(q.temp + 100, -1)
  BY <1>1, <1>3, <1>4
<1>6. Min({1}) = 1 /\ Max({1}) = 1 /\ IsFiniteSet({1})
  <2>1. Max({1}) = 1
    BY DEF Max
  <2>2. Min({1}) = 1
    BY DEF Min
  <2> QED BY <2>1, <2>2, FS_Singleton
<1>7. q.park <= q.soc => Of(q.temp, q.park).fade <= Of(q.temp, -1).fade
  <2>1. WarmthOf[Most(0, q.temp)] \in Nat
    <3>1. Most(0, q.temp) \in 0..400
      BY DEF IsWearQuestion, Most
    <3>2. \A t \in 0..400 : 1 + t \div 50 \in Nat
      OBVIOUS
    <3> QED BY <3>1, <3>2 DEF WarmthOf
  <2> QED BY <1>2, <1>4, <1>6, <2>1, ParkingFades, SMTT(30) DEF IsWearQuestion
<1>8. LET was == Of(q.temp, -1)
          warm == Of(q.temp + 100, -1)
      IN  warm.severe + warm.elevated <= was.severe + was.elevated /\ warm.severe <= was.severe
  <2>1. q.temp \in Int /\ q.temp + 100 \in Int /\ q.temp <= q.temp + 100
    BY DEF IsWearQuestion
  <2>2. CRate(RecordsAt(q.temp)[1]) \in Int /\ CRate(RecordsAt(q.temp + 100)[1]) = CRate(RecordsAt(q.temp)[1])
    <3>1. (100 * q.kw) \div 60 \in Int
      BY DEF IsWearQuestion
    <3> QED BY <1>2, <3>1 DEF CRate
  <2> QED BY <1>2, <1>4, <1>6, <2>1, <2>2, WarmerSessions
<1>9. q.park <= q.soc => answer.saving >= 100
  <2> SUFFICES ASSUME q.park <= q.soc PROVE answer.saving >= 100
    OBVIOUS
  <2> DEFINE from == FSoc(Chemistry(q.chemistry), q.soc)
             upto == FSoc(Chemistry(q.chemistry), q.park)
  <2>1. from \in Nat /\ upto \in Nat /\ 100 <= upto /\ upto <= from
    BY <1>4, ParkedLowerFadesLess DEF IsWearQuestion
  <2>2. answer.saving = (100 * from) \div upto
    BY <1>1, <1>4 DEF SocParkSaving
  <2> HIDE DEF from, upto
  <2> QED BY <2>1, <2>2, SavingIsOne
<1> HIDE DEF Of
<1> QED BY <1>5, <1>7, <1>8, <1>9 DEF ParkingLowerNeverCosts, q

(* Neither is kinder to the one that is worse off. *)
THEOREM NoneIsSpared ==
  ASSUME IsAnswered("recall") => IsRecallQuestion(question) /\ answer = AnswerRecall(question),
         IsAnswered("wear") => IsWearQuestion(question) /\ answer = AnswerWear(question)
  PROVE  WorseOffIsNeverSpared
BY RecallIsNoKinder, ParkingLowerIsCheaper DEF WorseOffIsNeverSpared

-----------------------------------------------------------------------------
(* A ceiling of a quotient is no less than the quotient. *)
LEMMA CeilIsEnough ==
  ASSUME NEW a \in Nat, NEW b \in Nat \ {0}
  PROVE  CeilOf(a, b) \in Nat /\ b * CeilOf(a, b) >= a
BY DEF CeilOf

(* A fleet with numbers on it, whose vehicles leave no emptier than they came. *)
IsClass(c) ==
  /\ c.count \in Nat /\ c.kwh \in Nat /\ c.cycles \in Nat
  /\ c.arrive \in Nat /\ c.target \in Nat /\ c.arrive <= c.target
AreClasses(classes) ==
  /\ \E n \in Nat : DOMAIN classes = 1..n
  /\ \A i \in DOMAIN classes : IsClass(classes[i])
IsFleet(fleet) == AreClasses(fleet.classes) /\ fleet.window \in 1..24 /\ fleet.base \in Nat
IsSizingQuestion(q) ==
  IsFleet(q.fleet) /\ q.options \subseteq Nat /\ q.efficiency \in 1..100 /\ q.demandRate \in Nat

(* What a fleet would draw, spread over its window, is a number no less than the site's base. *)
LEMMA FloorIsNatural ==
  ASSUME NEW fleet, IsFleet(fleet)
  PROVE  FlatLoadFloor(fleet) \in Nat /\ FlatLoadFloor(fleet) >= fleet.base
<1> DEFINE D == DOMAIN fleet.classes
           f == [i \in D |-> ClassEnergy(fleet.classes[i])]
<1>1. ASSUME NEW i \in D PROVE f[i] \in Nat
  <2> DEFINE c == fleet.classes[i]
  <2>1. c.count \in Nat /\ c.kwh \in Nat /\ c.cycles \in Nat /\ c.target - c.arrive \in Nat
    BY DEF IsFleet, AreClasses, IsClass
  <2> HIDE DEF c
  <2>2. c.kwh * (c.target - c.arrive) \in Nat
    BY <2>1, TimesIsMonotone
  <2>3. CycleEnergy(c) \in Nat
    BY <2>2 DEF CycleEnergy
  <2>4. CycleEnergy(c) * c.count * c.cycles \in Nat
    BY <2>1, <2>3, TimesIsMonotone
  <2> QED BY <2>4 DEF ClassEnergy, c
<1>2. IsFiniteSet(D)
  BY FS_Interval DEF IsFleet, AreClasses
<1>3. DayEnergy(fleet) = SumFunctionOnSet(f, D)
  BY ZenonT(60) DEF DayEnergy, MapThenSumSet, MapThenFoldSet, SumFunctionOnSet, FoldFunctionOnSet
<1>4. DayEnergy(fleet) \in Nat
  <2> HIDE DEF f, D
  <2> QED BY <1>1, <1>2, <1>3, SumOfNaturals
<1>5. fleet.window \in Nat \ {0} /\ fleet.base \in Nat
  BY DEF IsFleet
<1>6. CeilOf(DayEnergy(fleet), fleet.window) \in Nat
  BY <1>4, <1>5, CeilIsEnough
<1> QED BY <1>5, <1>6 DEF FlatLoadFloor

(* What a connection is short of, and what the battery for it needs and draws. *)
LEMMA StorageIsEnough ==
  ASSUME NEW fleet, IsFleet(fleet), NEW grid \in Nat, NEW efficiency \in 1..100, OffWindow(fleet) > 0
  PROVE  LET short == DeficitOf(fleet, grid)
             storage == StorageEnergy(fleet, grid, efficiency)
             recharge == RechargeKw(fleet, grid, efficiency)
         IN  /\ short \in Nat /\ storage \in Nat /\ recharge \in Nat
             /\ storage >= short
             /\ 100 * short <= efficiency * recharge * OffWindow(fleet)
<1> DEFINE short == DeficitOf(fleet, grid)
           storage == StorageEnergy(fleet, grid, efficiency)
           recharge == RechargeKw(fleet, grid, efficiency)
           off == OffWindow(fleet)
<1>1. fleet.window \in Nat /\ off \in Nat \ {0}
  BY DEF IsFleet, OffWindow
<1>2. short \in Nat
  <2>1. FlatLoadFloor(fleet) - grid \in Int
    BY FloorIsNatural
  <2>2. Max({0, FlatLoadFloor(fleet) - grid}) \in Nat
    BY <2>1, MaxWithZero
  <2> QED BY <1>1, <2>2, TimesIsMonotone DEF DeficitOf
<1> HIDE DEF short, off
<1>3. storage = CeilOf(100 * short, efficiency) /\ recharge = CeilOf(storage, off)
  BY DEF StorageEnergy, RechargeKw, short, off
<1>4. storage \in Nat /\ efficiency * storage >= 100 * short
  <2>1. 100 * short \in Nat /\ efficiency \in Nat \ {0}
    BY <1>2
  <2> QED BY <1>3, <2>1, CeilIsEnough
<1>5. recharge \in Nat /\ off * recharge >= storage
  BY <1>1, <1>3, <1>4, CeilIsEnough
<1> HIDE DEF storage, recharge
<1>6. storage >= short
  <2>1. efficiency * storage <= 100 * storage
    <3>1. storage * efficiency <= storage * 100
      BY <1>4, TimesIsMonotone
    <3> QED BY <1>4, <3>1
  <2> QED BY <1>2, <1>4, <2>1
<1>7. 100 * short <= efficiency * recharge * off
  <2>1. off * recharge \in Nat
    BY <1>1, <1>5, TimesIsMonotone
  <2>2. efficiency * storage <= efficiency * (off * recharge)
    BY <1>4, <1>5, <2>1, TimesIsMonotone
  <2>3. efficiency * (off * recharge) = efficiency * recharge * off
    BY <1>1, <1>5
  <2>4. efficiency * storage \in Nat /\ efficiency * (off * recharge) \in Nat
    BY <1>4, <2>1, TimesIsMonotone
  <2> QED BY <1>2, <1>4, <2>2, <2>3, <2>4
<1> QED BY <1>2, <1>4, <1>5, <1>6, <1>7 DEF short, storage, recharge, off

-----------------------------------------------------------------------------
(* The sizer's day is a curve, and in each hour of it the load is that of the one point of the hour. *)
LEMMA DayIsCurve ==
  ASSUME NEW fleet, NEW grid \in Nat, NEW recharge, fleet.base + recharge \in Nat
  PROVE  /\ IsCurve(DayCurve(fleet, grid, recharge))
         /\ \A h \in 0..23 : LoadOf(DayCurve(fleet, grid, recharge), h) \in {grid, fleet.base + recharge}
<1> DEFINE curve == DayCurve(fleet, grid, recharge)
           P == [from : Nat, kw : Nat]
<1>1. \A k \in 1..25 : curve[k] \in P /\ curve[k].from = k - 1 /\ curve[k].kw \in {grid, fleet.base + recharge}
  BY DEF DayCurve
<1>2. DOMAIN curve = 1..25
  BY DEF DayCurve
<1>3. curve = [k \in 1..25 |-> curve[k]]
  BY DEF DayCurve
<1> HIDE DEF curve
<1>4. curve \in Seq(P) /\ Len(curve) = 25
  <2>1. curve \in [1..25 -> P]
    BY <1>1, <1>3
  <2> HIDE DEF P
  <2>2. ASSUME NEW n \in Nat, NEW S, NEW s \in [1..n -> S] PROVE s \in Seq(S) /\ Len(s) = n
    OBVIOUS
  <2> QED BY <2>1, <2>2
<1>5. IsCurve(curve)
  <2>1. curve[25].from = 24
    BY <1>1
  <2> QED BY <1>4, <2>1 DEF IsCurve, CurveEnd, P
<1>6. ASSUME NEW h \in 0..23 PROVE LoadOf(curve, h) \in {grid, fleet.base + recharge}
  <2> DEFINE kw == [i \in DOMAIN curve |-> curve[i].kw]
             held == {i \in 1..(Len(curve) - 1) : curve[i].from <= h /\ h < curve[i + 1].from}
  <2>1. held = {h + 1}
    <3>1. \A i \in 1..24 : curve[i].from = i - 1 /\ curve[i + 1].from = i
      BY <1>1
    <3>2. \A i \in 1..24 : (curve[i].from <= h /\ h < curve[i + 1].from) <=> i = h + 1
      BY <3>1
    <3>3. Len(curve) - 1 = 24 /\ h + 1 \in 1..24
      BY <1>4
    <3> QED BY <3>2, <3>3
  <2>2. kw[h + 1] = curve[h + 1].kw /\ kw[h + 1] \in Nat /\ curve[h + 1].kw \in {grid, fleet.base + recharge}
    BY <1>1, <1>2
  <2>3. LoadOf(curve, h) = SumFunctionOnSet(kw, held)
    BY DEF LoadOf
  <2> HIDE DEF held, kw
  <2>4. SumFunctionOnSet(kw, held) = kw[h + 1] + SumFunctionOnSet(kw, held \ {h + 1})
    <3>1. IsFiniteSet(held) /\ \A x \in held : kw[x] \in Int
      BY <2>1, <2>2, FS_Singleton
    <3> QED BY <2>1, <3>1, SumTakesOut
  <2>5. held \ {h + 1} = {}
    BY <2>1
  <2>6. SumFunctionOnSet(kw, held) = kw[h + 1]
    BY <2>2, <2>4, <2>5, SumOfNone
  <2> QED BY <2>2, <2>3, <2>6
<1> QED BY <1>5, <1>6 DEF curve

(* What a candidate of the sweep says of itself. *)
LEMMA CandidateCarriesItsFleet ==
  ASSUME NEW fleet, IsFleet(fleet), NEW grid \in Nat, NEW tariff, NEW month, NEW efficiency \in 1..100,
         Evaluate(fleet, grid, tariff, month, efficiency).feasible
  PROVE  LET c == Evaluate(fleet, grid, tariff, month, efficiency)
             short == DeficitOf(fleet, grid)
         IN  /\ c.grid = grid /\ c.recharge \in Nat /\ fleet.base + c.recharge <= grid /\ short \in Nat
             /\ short > 0 => /\ c.storage \in Nat /\ c.storage >= short
                             /\ 100 * short <= efficiency * c.recharge * OffWindow(fleet)
<1> DEFINE c == Evaluate(fleet, grid, tariff, month, efficiency)
           short == DeficitOf(fleet, grid)
<1>1. /\ c.grid = grid /\ IsFeasible(fleet, grid, efficiency) /\ c.storage = StorageEnergy(fleet, grid, efficiency)
      /\ c.recharge = IF short = 0 THEN 0 ELSE RechargeKw(fleet, grid, efficiency)
  BY DEF Evaluate
<1>2. /\ FlatLoadFloor(fleet) \in Nat /\ fleet.base \in Nat /\ FlatLoadFloor(fleet) >= fleet.base
      /\ fleet.window \in Nat \ {0}
  BY FloorIsNatural DEF IsFleet
<1> DEFINE lack == IF FlatLoadFloor(fleet) - grid > 0 THEN FlatLoadFloor(fleet) - grid ELSE 0
<1>3. lack \in Nat /\ short = lack * fleet.window
  <2>1. FlatLoadFloor(fleet) - grid \in Int
    BY <1>2
  <2> QED BY <2>1, MaxWithZero DEF DeficitOf
<1> HIDE DEF c, short
<1>4. short \in Nat /\ (short = 0 <=> lack = 0)
  <2> HIDE DEF lack
  <2>1. short \in Nat
    BY <1>2, <1>3, TimesIsMonotone
  <2>2. lack = 0 => short = 0
    BY <1>2, <1>3
  <2>3. lack # 0 => short >= 1
    <3>1. lack # 0 => lack * 1 <= lack * fleet.window
      BY <1>2, <1>3, TimesIsMonotone
    <3> QED BY <1>3, <2>1, <3>1
  <2> QED BY <2>1, <2>2, <2>3
<1>5. CASE short = 0
  BY <1>1, <1>2, <1>4, <1>5 DEF c, short
<1>6. CASE short # 0
  <2>1. OffWindow(fleet) > 0 /\ fleet.base + RechargeKw(fleet, grid, efficiency) <= grid
    BY <1>1, <1>2, <1>4, <1>6 DEF IsFeasible
  <2>2. /\ StorageEnergy(fleet, grid, efficiency) \in Nat /\ RechargeKw(fleet, grid, efficiency) \in Nat
        /\ StorageEnergy(fleet, grid, efficiency) >= short
        /\ 100 * short <= efficiency * RechargeKw(fleet, grid, efficiency) * OffWindow(fleet)
    BY <2>1, StorageIsEnough DEF short
  <2> QED BY <1>1, <1>4, <1>6, <2>1, <2>2 DEF c, short
<1> QED BY <1>5, <1>6

(* The units a profile buys hold what the recommendation stores. *)
LEMMA UnitsHoldTheStorage ==
  ASSUME NEW fleet, NEW rec, rec.storage \in Nat, rec.storage > 0
  PROVE  LET storage == ToSiteProfile(fleet, rec, 100, 20).storage
         IN  storage # None /\ UsableEnergy(storage) \in Nat /\ UsableEnergy(storage) >= rec.storage
<1> DEFINE n == CeilOf(100 * rec.storage, 100 * 85)
           units == Max({1, n})
           storage == ToSiteProfile(fleet, rec, 100, 20).storage
<1>1. n \in Nat /\ 8500 * n >= 100 * rec.storage
  <2>1. 100 * rec.storage \in Nat /\ 100 * 85 = 8500 /\ 8500 \in Nat \ {0}
    OBVIOUS
  <2> QED BY <2>1, CeilIsEnough, SMTT(30)
<1>2. units \in Nat /\ units >= n
  <2>1. IsFiniteSet({1, n}) /\ {1, n} \subseteq Int /\ {1, n} # {}
    <3> HIDE DEF n
    <3>1. {1, n} = {1} \cup {n} /\ IsFiniteSet({1})
      BY FS_Singleton
    <3> QED BY <1>1, <3>1, FS_AddElement
  <2> QED BY <1>1, <2>1, MaxIsGreatest
<1>3. storage = [power |-> 20, energy |-> 100, efficiency |-> 96, socMin |-> 10, socMax |-> 95, units |-> units]
  BY DEF ToSiteProfile
<1> HIDE DEF storage, units, n
<1>4. storage \in Storages
  BY <1>2, <1>3 DEF Storages
<1>5. UsableEnergy(storage) = (100 * units * (95 - 10)) \div 100
  BY <1>3 DEF UsableEnergy
<1>6. (100 * units * (95 - 10)) \div 100 = 85 * units
  BY <1>2
<1>7. storage # None
  BY <1>4, BillingAssumption
<1>8. UsableEnergy(storage) \in Nat /\ UsableEnergy(storage) >= rec.storage
  BY <1>1, <1>2, <1>5, <1>6
<1> QED BY <1>7, <1>8 DEF storage

-----------------------------------------------------------------------------
(* The energy of some minutes is a number. *)
LoadsOver(curve, T) == SumFunctionOnSet([t \in T |-> LoadOf(curve, t)], T)
LEMMA EnergyIsNatural ==
  ASSUME NEW curve, IsCurve(curve), NEW T, IsFiniteSet(T)
  PROVE  LoadsOver(curve, T) \in Nat
<1> DEFINE f == [t \in T |-> LoadOf(curve, t)]
<1>1. \A t \in T : f[t] \in Nat
  BY LoadIsNatural
<1>2. LoadsOver(curve, T) = SumFunctionOnSet(f, T)
  BY DEF LoadsOver
<1> HIDE DEF f
<1> QED BY <1>1, <1>2, SumOfNaturals

(* The last point of a curve is at a number. *)
LEMMA EndIsNatural ==
  ASSUME NEW curve, IsCurve(curve)
  PROVE  CurveEnd(curve) \in Nat /\ IsFiniteSet(0..(CurveEnd(curve) - 1)) /\ IsFiniteSet(0..CurveEnd(curve))
<1>1. Len(curve) \in DOMAIN curve /\ \A i \in DOMAIN curve : curve[i].from \in Nat
  BY PointsOfCurve DEF IsCurve
<1>2. CurveEnd(curve) \in Nat
  BY <1>1 DEF CurveEnd
<1> QED BY <1>2, FS_Interval

(* A meter's highest reading is a number. *)
LEMMA PeakIsNatural ==
  ASSUME NEW curve, IsCurve(curve), NEW interval \in Nat \ {0}, NEW starts
  PROVE  /\ PeakReading(curve, interval, starts) \in Nat
         /\ \A s \in starts \cap IntervalStarts(curve, interval) : Reading(curve, interval, s) <= PeakReading(curve, interval, starts)
         /\ \A s \in IntervalStarts(curve, interval) : Reading(curve, interval, s) \in Nat
         /\ \/ PeakReading(curve, interval, starts) = 0
            \/ \E s \in starts \cap IntervalStarts(curve, interval) : PeakReading(curve, interval, starts) = Reading(curve, interval, s)
<1> DEFINE all == IntervalStarts(curve, interval)
           at == starts \cap all
           f == [s \in at |-> Reading(curve, interval, s)]
           R == {Reading(curve, interval, s) : s \in at}
<1>1. IsFiniteSet(at)
  <2>1. all \subseteq 0..(CurveEnd(curve) - 1)
    BY DEF IntervalStarts
  <2>2. IsFiniteSet(all)
    <3> HIDE DEF all
    <3> QED BY <2>1, EndIsNatural, FS_Subset
  <2> HIDE DEF all
  <2> QED BY <2>2, FS_Subset
<1>2. ASSUME NEW s \in all PROVE Reading(curve, interval, s) \in Nat
  <2>1. s \in Nat
    BY EndIsNatural DEF IntervalStarts
  <2>2. IsFiniteSet(s..((s + interval) - 1))
    BY <2>1, FS_Interval
  <2>3. EnergyIn(curve, s, s + interval) = LoadsOver(curve, s..((s + interval) - 1))
    BY ZenonT(60) DEF EnergyIn, LoadsOver, MapThenSumSet, MapThenFoldSet, SumFunctionOnSet, FoldFunctionOnSet
  <2>4. Scale * EnergyIn(curve, s, s + interval) \in Nat
    BY <2>2, <2>3, EnergyIsNatural, TimesIsMonotone, BillingAssumption
  <2> QED BY <2>4 DEF Reading
<1>3. IsFiniteSet({0} \cup R) /\ {0} \cup R \subseteq Nat
  <2>1. R = {f[s] : s \in at}
    OBVIOUS
  <2>2. IsFiniteSet({f[s] : s \in at})
    <3> HIDE DEF f, at
    <3> QED BY <1>1, ImageIsFinite
  <2>3. IsFiniteSet(R)
    <3> HIDE DEF f, at, R
    <3> QED BY <2>1, <2>2
  <2>4. R \subseteq Nat
    BY <1>2
  <2>5. {0} \cup R = R \cup {0}
    OBVIOUS
  <2> HIDE DEF R
  <2> QED BY <2>3, <2>4, <2>5, FS_AddElement
<1>4. Max({0} \cup R) \in {0} \cup R /\ \A x \in {0} \cup R : x <= Max({0} \cup R)
  <2> HIDE DEF R
  <2>1. {0} \cup R \subseteq Int /\ {0} \cup R # {}
    BY <1>3
  <2> QED BY <1>3, <2>1, MaxIsGreatest
<1>5. PeakReading(curve, interval, starts) = Max({0} \cup R)
  BY DEF PeakReading
<1>6. \A s \in at : Reading(curve, interval, s) \in {0} \cup R
  OBVIOUS
<1> DEFINE m == Max({0} \cup R)
<1>7. m \in Nat /\ \A s \in at : Reading(curve, interval, s) <= m
  <2> HIDE DEF R
  <2> QED BY <1>3, <1>4, <1>6
<1>8. m = 0 \/ \E s \in at : m = Reading(curve, interval, s)
  <2> HIDE DEF m
  <2> QED BY <1>4 DEF m
<1> HIDE DEF m
<1> QED BY <1>2, <1>5, <1>7, <1>8 DEF m

-----------------------------------------------------------------------------
(* The tariff a sizing prices by: one rate for every minute, one for the peak. *)
LEMMA SizingTariffIs ==
  ASSUME NEW rate
  PROVE  LET t == SizingTariff(rate)
         IN  /\ t.windows = <<>> /\ t.energy = <<[season |-> "all", window |-> None, rate |-> 2]>> /\ t.ratchet = None
             /\ t.blocks = None /\ t.fixed = 7 /\ t.demandFree = FALSE
             /\ t.demand = <<[basis |-> "NCP", interval |-> 1, tiers |-> <<[upto |-> None, rate |-> rate]>>, window |-> None,
                              season |-> "all", period |-> "month"]>>
BY DEF SizingTariff, PlainTariff, Component, Tier, Flat

(* A price up a ladder is a number. *)
IsLadder(tiers) ==
  /\ \E n \in Nat : DOMAIN tiers = 1..n
  /\ \A i \in DOMAIN tiers : tiers[i].rate \in Nat /\ (tiers[i].upto = None \/ tiers[i].upto \in Nat)
RungCost(tiers, quantity, i) ==
  LET lower == IF i = 1 THEN 0 ELSE UpperOf(tiers[i - 1], quantity)
  IN  Max({0, Min({quantity, UpperOf(tiers[i], quantity)}) - lower}) * tiers[i].rate

(* The smaller of two numbers. *)
LEMMA MinOfTwo ==
  ASSUME NEW a \in Int, NEW b \in Int
  PROVE  Min({a, b}) = IF a <= b THEN a ELSE b
<1>1. \E x \in {a, b} : \A y \in {a, b} : x <= y
  OBVIOUS
<1>2. Min({a, b}) \in {a, b} /\ \A y \in {a, b} : Min({a, b}) <= y
  BY <1>1 DEF Min
<1> QED BY <1>2

(* What each rung adds to it is a number. *)
LEMMA RungIsNatural ==
  ASSUME NEW tiers, IsLadder(tiers), NEW quantity \in Nat, NEW i \in DOMAIN tiers
  PROVE  RungCost(tiers, quantity, i) \in Nat
<1> DEFINE lower == IF i = 1 THEN 0 ELSE UpperOf(tiers[i - 1], quantity)
           upper == UpperOf(tiers[i], quantity)
<1>1. \A k \in DOMAIN tiers : UpperOf(tiers[k], quantity) \in Nat
  BY DEF IsLadder, UpperOf
<1>2. i \in Nat /\ i >= 1 /\ (i # 1 => i - 1 \in DOMAIN tiers)
  BY DEF IsLadder
<1>3. lower \in Nat /\ upper \in Nat
  BY <1>1, <1>2
<1>4. RungCost(tiers, quantity, i) = Max({0, Min({quantity, upper}) - lower}) * tiers[i].rate
  BY DEF RungCost
<1> HIDE DEF lower, upper
<1>5. Min({quantity, upper}) - lower \in Int
  BY <1>3, MinOfTwo
<1>6. Max({0, Min({quantity, upper}) - lower}) \in Nat
  BY <1>5, MaxWithZero
<1>7. tiers[i].rate \in Nat
  BY DEF IsLadder
<1> QED BY <1>4, <1>6, <1>7, TimesIsMonotone

(* And it is the sum of them. *)
LEMMA PriceIsNatural ==
  ASSUME NEW tiers, IsLadder(tiers), NEW quantity \in Nat
  PROVE  Price(tiers, quantity) \in Nat
         /\ Price(tiers, quantity) = SumFunctionOnSet([i \in DOMAIN tiers |-> RungCost(tiers, quantity, i)], DOMAIN tiers)
<1> DEFINE D == DOMAIN tiers
           f == [i \in D |-> RungCost(tiers, quantity, i)]
<1>1. Price(tiers, quantity) = SumFunctionOnSet(f, D)
  BY ZenonT(60) DEF Price, RungCost, MapThenSumSet, MapThenFoldSet, SumFunctionOnSet, FoldFunctionOnSet
<1>2. IsFiniteSet(D)
  BY FS_Interval DEF IsLadder
<1>3. \A i \in D : f[i] \in Nat
  BY RungIsNatural
<1>4. SumFunctionOnSet(f, D) \in Nat
  <2> HIDE DEF f, D
  <2> QED BY <1>2, <1>3, SumOfNaturals
<1> QED BY <1>1, <1>4

(* The energy of a window is that of its minutes. *)
LEMMA EnergyOfWindows ==
  ASSUME NEW curve, NEW tariff
  PROVE  LET minutes == 0..(CurveEnd(curve) - 1)
         IN  EnergyByWindow(curve, tariff) = [w \in {WindowAt(tariff, t) : t \in minutes} |->
                                                LoadsOver(curve, {t \in minutes : WindowAt(tariff, t) = w})]
<1> DEFINE minutes == 0..(CurveEnd(curve) - 1)
<1>1. \A w : MapThenSumSet(LAMBDA t : LoadOf(curve, t), {t \in minutes : WindowAt(tariff, t) = w})
             = LoadsOver(curve, {t \in minutes : WindowAt(tariff, t) = w})
  <2> TAKE w
  <2> HIDE DEF minutes
  <2> QED BY ZenonT(60) DEF LoadsOver, MapThenSumSet, MapThenFoldSet, SumFunctionOnSet, FoldFunctionOnSet
<1> QED BY <1>1 DEF EnergyByWindow

(* With one rate for every minute the energy of the day is all in one window. *)
LEMMA EnergyOfPlainDay ==
  ASSUME NEW curve, IsCurve(curve), NEW tariff, tariff.windows = <<>>
  PROVE  LET energy == EnergyByWindow(curve, tariff)
         IN  DOMAIN energy \subseteq {"all"} /\ \A w \in DOMAIN energy : energy[w] \in Nat
<1> DEFINE minutes == 0..(CurveEnd(curve) - 1)
           In(w) == {t \in minutes : WindowAt(tariff, t) = w}
           energy == EnergyByWindow(curve, tariff)
<1>1. \A t : WindowAt(tariff, t) = "all"
  <2>1. DOMAIN tariff.windows = {}
    OBVIOUS
  <2> QED BY <2>1 DEF WindowAt
<1>4. energy = [w \in {WindowAt(tariff, t) : t \in minutes} |-> LoadsOver(curve, In(w))]
  BY EnergyOfWindows
<1>5. \A w : LoadsOver(curve, In(w)) \in Nat
  <2> TAKE w
  <2>1. IsFiniteSet(minutes) /\ In(w) \subseteq minutes
    BY EndIsNatural
  <2> HIDE DEF minutes, In
  <2>2. IsFiniteSet(In(w))
    BY <2>1, FS_Subset
  <2> QED BY <2>2, EnergyIsNatural
<1> HIDE DEF energy, In, minutes
<1>6. DOMAIN energy \subseteq {"all"}
  BY <1>1, <1>4
<1>7. \A w \in DOMAIN energy : energy[w] \in Nat
  BY <1>4, <1>5
<1> QED BY <1>6, <1>7 DEF energy

(* A tariff with one rate for every minute of the year has it for every window. *)
LEMMA RateOfPlainTariff ==
  ASSUME NEW tariff, NEW rate, rate # None, tariff.energy = <<[season |-> "all", window |-> None, rate |-> rate]>>,
         NEW season
  PROVE  EnergyRate(tariff, season, "all") = rate
<1>1. "all" # None
  BY BillingAssumption
<1> DEFINE es == tariff.energy
<1>2. DOMAIN es = {1} /\ Len(es) = 1 /\ es[1].season = "all" /\ es[1].window = None /\ es[1].rate = rate
  OBVIOUS
<1> HIDE DEF es
<1>3. SeasonApplies(es[1].season, season)
  BY <1>2 DEF SeasonApplies
<1>4. RateOf(tariff, season, "all") = None
  <2>1. {i \in 1..Len(es) : SeasonApplies(es[i].season, season) /\ es[i].window = "all"} = {}
    BY <1>1, <1>2
  <2>2. SelectInSeq(es, LAMBDA e : SeasonApplies(e.season, season) /\ e.window = "all") = 0
    BY <2>1, Zenon DEF SelectInSeq
  <2> QED BY <2>2 DEF RateOf, es
<1>5. RateOf(tariff, season, None) = rate
  <2> DEFINE I == {i \in 1..Len(es) : SeasonApplies(es[i].season, season) /\ es[i].window = None}
  <2>1. I = {1}
    BY <1>2, <1>3
  <2>2. Min({1}) = 1
    BY DEF Min
  <2>3. SelectInSeq(es, LAMBDA e : SeasonApplies(e.season, season) /\ e.window = None) = IF I # {} THEN Min(I) ELSE 0
    BY Zenon DEF SelectInSeq
  <2> HIDE DEF I
  <2>4. (IF I # {} THEN Min(I) ELSE 0) = 1
    BY <2>1, <2>2
  <2>5. RateOf(tariff, season, None) = IF (IF I # {} THEN Min(I) ELSE 0) = 0 THEN None ELSE es[IF I # {} THEN Min(I) ELSE 0].rate
    BY <2>3 DEF RateOf, es
  <2> QED BY <1>2, <2>4, <2>5
<1> QED BY <1>4, <1>5 DEF EnergyRate

-----------------------------------------------------------------------------
(* What one component of the demand charge comes to, and the charge is the sum of those in season. *)
ComponentBill(curve, c, tariff, days, historical, coincident) ==
  Price(c.tiers, Billed(curve, c, tariff, historical, coincident)) * (IF c.period = "day" THEN days ELSE 1)
InSeason(tariff, season) == {i \in DOMAIN tariff.demand : SeasonApplies(tariff.demand[i].season, season)}
LEMMA DemandIsSum ==
  ASSUME NEW curve, NEW tariff, NEW season, NEW days, NEW historical, NEW coincident
  PROVE  DemandCost(curve, tariff, season, days, historical, coincident)
           = IF tariff.demandFree THEN 0
             ELSE SumFunctionOnSet([i \in InSeason(tariff, season) |->
                                      ComponentBill(curve, tariff.demand[i], tariff, days, historical, coincident)],
                                   InSeason(tariff, season))
<1> DEFINE priced == InSeason(tariff, season)
<1>1. MapThenSumSet(LAMBDA i : ComponentBill(curve, tariff.demand[i], tariff, days, historical, coincident), priced)
        = SumFunctionOnSet([i \in priced |-> ComponentBill(curve, tariff.demand[i], tariff, days, historical, coincident)], priced)
  <2> HIDE DEF priced
  <2> QED BY ZenonT(60) DEF MapThenSumSet, MapThenFoldSet, SumFunctionOnSet, FoldFunctionOnSet
<1>2. DemandCost(curve, tariff, season, days, historical, coincident)
        = IF tariff.demandFree THEN 0
          ELSE MapThenSumSet(LAMBDA i : ComponentBill(curve, tariff.demand[i], tariff, days, historical, coincident), priced)
  BY DEF DemandCost, ComponentBill, InSeason
<1> QED BY <1>1, <1>2

(* A tariff whose components are numbers of a meter. *)
IsMetered(c) == c.interval \in Nat \ {0} /\ IsLadder(c.tiers)
AreMetered(tariff) ==
  /\ \E n \in Nat : DOMAIN tariff.demand = 1..n
  /\ \A i \in DOMAIN tariff.demand : IsMetered(tariff.demand[i])
  /\ tariff.ratchet = None \/ tariff.ratchet \in Nat

(* What such a component bills is a number. *)
LEMMA BilledIsNatural ==
  ASSUME NEW curve, IsCurve(curve), NEW c, IsMetered(c), NEW tariff, tariff.ratchet = None \/ tariff.ratchet \in Nat,
         NEW historical \in Nat, NEW coincident
  PROVE  Billed(curve, c, tariff, historical, coincident) \in Nat
<1> DEFINE measured == Measured(curve, c, tariff, coincident)
           floor == RatchetFloor(tariff, historical)
<1>1. measured \in Nat
  <2>1. c.interval \in Nat \ {0}
    BY DEF IsMetered
  <2>2. \A starts : PeakReading(curve, c.interval, starts) \in Nat
    BY <2>1, PeakIsNatural
  <2> QED BY <2>2 DEF Measured
<1>2. floor \in Nat
  <2>1. CASE tariff.ratchet = None
    BY <2>1 DEF RatchetFloor
  <2>2. CASE tariff.ratchet # None
    <3>1. tariff.ratchet * historical * Scale \in Nat
      BY <2>2, BillingAssumption, TimesIsMonotone
    <3> QED BY <2>2, <3>1 DEF RatchetFloor
  <2> QED BY <2>1, <2>2
<1>3. Billed(curve, c, tariff, historical, coincident)
        = IF c.basis = "NCP" /\ c.window = None THEN Max({measured, floor}) ELSE measured
  BY DEF Billed
<1> HIDE DEF measured, floor
<1>4. Max({measured, floor}) \in {measured, floor}
  <2>1. IsFiniteSet({measured, floor})
    <3>1. {measured, floor} = {measured} \cup {floor} /\ IsFiniteSet({measured})
      BY FS_Singleton
    <3>2. IsFiniteSet({measured} \cup {floor})
      BY <3>1, FS_AddElement
    <3> QED BY <3>1, <3>2
  <2> QED BY <1>1, <1>2, <2>1, MaxIsGreatest
<1> QED BY <1>1, <1>2, <1>3, <1>4

(* So is the charge for the demand of a day or a month. *)
LEMMA DemandIsNatural ==
  ASSUME NEW curve, IsCurve(curve), NEW tariff, AreMetered(tariff), NEW season, NEW days \in Nat,
         NEW historical \in Nat, NEW coincident
  PROVE  DemandCost(curve, tariff, season, days, historical, coincident) \in Nat
<1> DEFINE D == InSeason(tariff, season)
           f == [i \in D |-> ComponentBill(curve, tariff.demand[i], tariff, days, historical, coincident)]
<1>1. IsFiniteSet(D)
  <2>1. IsFiniteSet(DOMAIN tariff.demand)
    BY FS_Interval DEF AreMetered
  <2> QED BY <2>1, FS_Subset DEF InSeason
<1>2. ASSUME NEW i \in D PROVE ComponentBill(curve, tariff.demand[i], tariff, days, historical, coincident) \in Nat
  <2> DEFINE c == tariff.demand[i]
             billed == Billed(curve, c, tariff, historical, coincident)
             times == IF c.period = "day" THEN days ELSE 1
  <2>1. IsMetered(c)
    BY DEF InSeason, AreMetered
  <2>2. billed \in Nat
    BY <2>1, BilledIsNatural DEF AreMetered
  <2>3. Price(c.tiers, billed) \in Nat
    <3> HIDE DEF c, billed
    <3> QED BY <2>1, <2>2, PriceIsNatural DEF IsMetered
  <2>4. times \in Nat
    OBVIOUS
  <2>5. ComponentBill(curve, tariff.demand[i], tariff, days, historical, coincident) = Price(c.tiers, billed) * times
    BY DEF ComponentBill
  <2> HIDE DEF c, billed, times
  <2> QED BY <2>3, <2>4, <2>5, TimesIsMonotone
<1>3. DemandCost(curve, tariff, season, days, historical, coincident) = IF tariff.demandFree THEN 0 ELSE SumFunctionOnSet(f, D)
  BY DemandIsSum
<1>4. \A i \in D : f[i] \in Nat
  BY <1>2
<1> HIDE DEF f, D
<1> QED BY <1>1, <1>3, <1>4, SumOfNaturals

(* What the sizing tariff bills for a curve is a number. *)
LEMMA SizingBillIsNatural ==
  ASSUME NEW curve, IsCurve(curve), NEW rate \in Nat, NEW month, NEW historical \in Nat
  PROVE  Bill(curve, SizingTariff(rate), month, 30, historical, None) \in Nat
<1> DEFINE tariff == SizingTariff(rate)
           season == SeasonOf(tariff, month)
           energy == EnergyByWindow(curve, tariff)
           f == [w \in DOMAIN energy |-> energy[w] * EnergyRate(tariff, season, w)]
<1>1. /\ tariff.windows = <<>> /\ tariff.energy = <<[season |-> "all", window |-> None, rate |-> 2]>> /\ tariff.ratchet = None
      /\ tariff.blocks = None /\ tariff.fixed = 7 /\ tariff.demandFree = FALSE
      /\ tariff.demand = <<[basis |-> "NCP", interval |-> 1, tiers |-> <<[upto |-> None, rate |-> rate]>>, window |-> None,
                            season |-> "all", period |-> "month"]>>
  BY SizingTariffIs
<1> HIDE DEF tariff
<1>2. AreMetered(tariff)
  <2>1. DOMAIN tariff.demand = 1..1 /\ tariff.demand[1].interval = 1 /\ tariff.demand[1].tiers = <<[upto |-> None, rate |-> rate]>>
    BY <1>1
  <2>2. IsLadder(tariff.demand[1].tiers)
    <3> DEFINE tiers == tariff.demand[1].tiers
    <3>1. DOMAIN tiers = 1..1 /\ tiers[1].rate = rate /\ tiers[1].upto = None
      BY <2>1
    <3> HIDE DEF tiers
    <3>2. IsLadder(tiers)
      BY <3>1 DEF IsLadder
    <3> QED BY <3>2 DEF tiers
  <2> QED BY <1>1, <2>1, <2>2 DEF AreMetered, IsMetered
<1>3. DemandCost(curve, tariff, season, 30, historical, None) \in Nat
  BY <1>2, DemandIsNatural
<1>4. DOMAIN energy \subseteq {"all"} /\ \A w \in DOMAIN energy : energy[w] \in Nat
  BY <1>1, EnergyOfPlainDay
<1>5. 2 # None
  BY BillingAssumption
<1>6. EnergyRate(tariff, season, "all") = 2
  <2> HIDE DEF season
  <2> QED BY <1>1, <1>5, RateOfPlainTariff
<1>7. MapThenSumSet(LAMBDA w : energy[w] * EnergyRate(tariff, season, w), DOMAIN energy) = SumFunctionOnSet(f, DOMAIN energy)
  <2> HIDE DEF energy, season
  <2> QED BY ZenonT(60) DEF MapThenSumSet, MapThenFoldSet, SumFunctionOnSet, FoldFunctionOnSet
<1>8. ~(\/ \E w \in DOMAIN energy : EnergyRate(tariff, season, w) = None
        \/ /\ ~tariff.demandFree /\ None = None
           /\ \E i \in {i \in DOMAIN tariff.demand : SeasonApplies(tariff.demand[i].season, season)} : tariff.demand[i].basis = "CP")
  <2>1. \A i \in DOMAIN tariff.demand : tariff.demand[i].basis = "NCP"
    BY <1>1
  <2> HIDE DEF energy, season
  <2> QED BY <1>4, <1>5, <1>6, <2>1
<1>9. Bill(curve, tariff, month, 30, historical, None)
        = SumFunctionOnSet(f, DOMAIN energy) + DemandCost(curve, tariff, season, 30, historical, None) + tariff.fixed
  <2> HIDE DEF f
  <2> QED BY <1>1, <1>7, <1>8, Zenon DEF Bill
<1>10. SumFunctionOnSet(f, DOMAIN energy) \in Nat
  <2>1. \A w \in DOMAIN energy : f[w] \in Nat
    <3> HIDE DEF energy, season
    <3> QED BY <1>4, <1>6
  <2>2. IsFiniteSet(DOMAIN energy)
    BY <1>4, FS_Singleton, FS_Subset
  <2> HIDE DEF f, energy
  <2> QED BY <2>1, <2>2, SumOfNaturals
<1> HIDE DEF f, energy, season
<1> QED BY <1>1, <1>3, <1>9, <1>10 DEF tariff

-----------------------------------------------------------------------------
(* Each candidate of the sweep has a price. *)
LEMMA CandidateHasACost ==
  ASSUME NEW fleet, IsFleet(fleet), NEW grid \in Nat, NEW efficiency \in 1..100, NEW rate \in Nat, NEW month,
         Evaluate(fleet, grid, SizingTariff(rate), month, efficiency).feasible
  PROVE  Evaluate(fleet, grid, SizingTariff(rate), month, efficiency).cost \in Nat
<1> DEFINE c == Evaluate(fleet, grid, SizingTariff(rate), month, efficiency)
           curve == DayCurve(fleet, grid, c.recharge)
           billed == Max({grid, fleet.base + c.recharge})
<1>1. c.cost = Bill(curve, SizingTariff(rate), month, 30, billed, None)
  BY SMTT(30) DEF Evaluate
<1>2. c.recharge \in Nat /\ fleet.base \in Nat
  BY CandidateCarriesItsFleet DEF IsFleet
<1> HIDE DEF c
<1>3. IsCurve(curve)
  BY <1>2, DayIsCurve
<1>4. billed \in Nat
  <2> DEFINE other == fleet.base + c.recharge
  <2>1. other \in Nat
    BY <1>2
  <2> HIDE DEF other
  <2>2. {grid, other} = {grid} \cup {other} /\ IsFiniteSet({grid})
    BY FS_Singleton
  <2>3. IsFiniteSet({grid, other})
    BY <2>2, FS_AddElement
  <2>4. Max({grid, other}) \in {grid, other}
    BY <2>1, <2>3, MaxIsGreatest
  <2>5. Max({grid, other}) \in Nat
    BY <2>1, <2>4
  <2> QED BY <2>5 DEF other
<1> HIDE DEF curve, billed
<1>5. Bill(curve, SizingTariff(rate), month, 30, billed, None) \in Nat
  BY <1>3, <1>4, SizingBillIsNatural
<1> QED BY <1>1, <1>5 DEF c

(* The cheapest of a set of priced things, the smallest first, is among them. *)
LEMMA CheapestExists ==
  ASSUME NEW S, S # {}, \A c \in S : c.cost \in Nat /\ c.grid \in Nat
  PROVE  \E c \in S : \A d \in S : c.cost < d.cost \/ (c.cost = d.cost /\ c.grid <= d.grid)
<1> DEFINE costs == {c.cost : c \in S}
<1>1. PICK least \in costs : \A n \in costs : least <= n
  <2>1. costs \subseteq Nat /\ costs # {}
    OBVIOUS
  <2> HIDE DEF costs
  <2> QED BY <2>1, LeastNumber
<1> DEFINE cheapest == {c \in S : c.cost = least}
           grids == {c.grid : c \in cheapest}
<1>2. PICK small \in grids : \A n \in grids : small <= n
  <2>1. grids \subseteq Nat /\ grids # {}
    OBVIOUS
  <2> HIDE DEF grids
  <2> QED BY <2>1, LeastNumber
<1>3. PICK c \in S : c.cost = least /\ c.grid = small
  BY <1>2
<1>4. ASSUME NEW d \in S PROVE c.cost < d.cost \/ (c.cost = d.cost /\ c.grid <= d.grid)
  <2>1. c.cost \in Nat /\ d.cost \in Nat /\ d.cost \in costs
    OBVIOUS
  <2>2. c.cost <= d.cost
    BY <1>1, <1>3, <2>1
  <2>3. CASE c.cost = d.cost
    BY <1>2, <1>3, <2>3
  <2>4. CASE c.cost # d.cost
    <3> HIDE DEF costs
    <3> QED BY <2>1, <2>2, <2>4
  <2> QED BY <2>3, <2>4
<1> QED BY <1>4

(* The recommendation is a feasible candidate of the sweep, and none of them is cheaper, nor as cheap and smaller. *)
IsCheapest(rec, fleet, grids, rate, month, efficiency) ==
  /\ \E g \in grids : rec = Evaluate(fleet, g, SizingTariff(rate), month, efficiency)
  /\ rec.feasible
  /\ \A g \in grids : LET other == Evaluate(fleet, g, SizingTariff(rate), month, efficiency)
                      IN  other.feasible => rec.cost < other.cost \/ (rec.cost = other.cost /\ rec.grid <= g)
LEMMA RecommendedIsCheapest ==
  ASSUME NEW fleet, IsFleet(fleet), NEW options, options \subseteq Nat, NEW efficiency \in 1..100, NEW rate \in Nat, NEW month,
         Recommended(fleet, SizingTariff(rate), options, month, efficiency) # None
  PROVE  IsCheapest(Recommended(fleet, SizingTariff(rate), options, month, efficiency), fleet,
                    options \cup {FlatLoadFloor(fleet)}, rate, month, efficiency)
<1> DEFINE grids == options \cup {FlatLoadFloor(fleet)}
           Tried(g) == Evaluate(fleet, g, SizingTariff(rate), month, efficiency)
           feasible == {c \in SitingOptions(fleet, SizingTariff(rate), options, month, efficiency) : c.feasible}
           rec == Recommended(fleet, SizingTariff(rate), options, month, efficiency)
           Best(c) == \A d \in feasible : c.cost < d.cost \/ (c.cost = d.cost /\ c.grid <= d.grid)
<1>1. grids \subseteq Nat
  BY FloorIsNatural
<1>2. \A g \in grids : Tried(g).feasible => Tried(g).cost \in Nat /\ Tried(g).grid = g
  <2> SUFFICES ASSUME NEW g \in grids, Tried(g).feasible PROVE Tried(g).cost \in Nat /\ Tried(g).grid = g
    OBVIOUS
  <2>1. g \in Nat
    BY <1>1
  <2>2. Tried(g).cost \in Nat
    <3> HIDE DEF grids
    <3> QED BY <2>1, CandidateHasACost
  <2>3. Tried(g).grid = g
    BY DEF Evaluate
  <2> QED BY <2>2, <2>3
<1>3. SitingOptions(fleet, SizingTariff(rate), options, month, efficiency) = {Tried(g) : g \in grids}
  BY DEF SitingOptions
<1>4. \A c \in feasible : c.cost \in Nat /\ c.grid \in Nat /\ c.feasible /\ \E g \in grids : c = Tried(g)
  <2> HIDE DEF Tried, grids
  <2> QED BY <1>1, <1>2, <1>3
<1>5. \A g \in grids : Tried(g).feasible => Tried(g) \in feasible
  BY <1>3
<1>6. rec = IF feasible = {} THEN None ELSE CHOOSE c \in feasible : Best(c)
  BY DEF Recommended
<1> HIDE DEF Tried, grids, feasible, rec
<1>7. feasible # {} /\ rec = CHOOSE c \in feasible : Best(c)
  BY <1>6 DEF rec
<1>8. \E c \in feasible : Best(c)
  BY <1>4, <1>7, CheapestExists
<1>9. rec \in feasible /\ Best(rec)
  <2> HIDE DEF Best
  <2> QED BY <1>7, <1>8
<1>10. \A d \in feasible : rec.cost < d.cost \/ (rec.cost = d.cost /\ rec.grid <= d.grid)
  BY <1>9
<1>11. /\ \E g \in grids : rec = Tried(g)
       /\ rec.feasible
       /\ \A g \in grids : Tried(g).feasible => rec.cost < Tried(g).cost \/ (rec.cost = Tried(g).cost /\ rec.grid <= g)
  <2>1. \A g \in grids : Tried(g).feasible => Tried(g) \in feasible /\ Tried(g).grid = g
    BY <1>2, <1>5, SMTT(30)
  <2> HIDE DEF Best
  <2> QED BY <2>1, <1>4, <1>9, <1>10
<1> QED BY <1>11 DEF IsCheapest, Tried, grids, rec

(* Rounding to whole kW moves a power by half of one at most. *)
LEMMA RoundingIsNear ==
  ASSUME NEW power \in Nat
  PROVE  2 * (RoundToKw(power) - power) <= PerKw /\ 2 * (power - RoundToKw(power)) <= PerKw
<1> DEFINE below == power \div PerKw
           rest == power % PerKw
<1>1. PerKw \in Nat \ {0}
  BY PartsAssumption
<1>2. below \in Nat /\ rest \in 0..(PerKw - 1) /\ power = PerKw * below + rest
  BY <1>1
<1>3. PerKw * below \in Int /\ PerKw * (below + 1) = PerKw * below + PerKw
  <2> HIDE DEF below
  <2> QED BY <1>1, <1>2
<1>4. \/ RoundToKw(power) = PerKw * (below + 1) /\ 2 * rest >= PerKw
      \/ RoundToKw(power) = PerKw * below /\ 2 * rest <= PerKw
  <2>1. RoundToKw(power) = PerKw * (IF 2 * rest > PerKw \/ (2 * rest = PerKw /\ below % 2 = 1) THEN below + 1 ELSE below)
    BY DEF RoundToKw
  <2> HIDE DEF below, rest
  <2> QED BY <1>1, <1>2, <2>1
<1> HIDE DEF below, rest
<1> QED BY <1>1, <1>2, <1>3, <1>4

(* sizer.py: the site it recommends carries its fleet, whatever the fleet, the *)
(* connections offered, the battery's efficiency and the demand rate are.      *)
THEOREM SizedSitesDeliver ==
  ASSUME IsAnswered("sizing") => IsSizingQuestion(question) /\ answer = AnswerSizing(question)
  PROVE  SizedSiteDelivers
<1> SUFFICES ASSUME IsAnswered("sizing"), answer.rec # None
             PROVE  LET q == question
                        rec == answer.rec
                        curve == DayCurve(q.fleet, rec.grid, rec.recharge)
                        short == DeficitOf(q.fleet, rec.grid)
                    IN  /\ \A h \in 0..23 : LoadOf(curve, h) <= rec.grid
                        /\ LET service == answer.profile.grid.service
                           IN  2 * (service - rec.grid) <= PerKw /\ 2 * (rec.grid - service) <= PerKw
                        /\ short > 0 => /\ answer.profile.storage # None
                                        /\ UsableEnergy(answer.profile.storage) >= short
                                        /\ 100 * short <= q.efficiency * rec.recharge * OffWindow(q.fleet)
                        /\ \A g \in q.options \cup {FlatLoadFloor(q.fleet)} :
                             LET other == Evaluate(q.fleet, g, SizingTariff(q.demandRate), 7, q.efficiency)
                             IN  other.feasible => rec.cost < other.cost \/ (rec.cost = other.cost /\ rec.grid <= g)
  BY DEF SizedSiteDelivers
<1> DEFINE q == question
           tariff == SizingTariff(q.demandRate)
           rec == answer.rec
           curve == DayCurve(q.fleet, rec.grid, rec.recharge)
           short == DeficitOf(q.fleet, rec.grid)
           grids == q.options \cup {FlatLoadFloor(q.fleet)}
<1>1. IsFleet(q.fleet) /\ q.options \subseteq Nat /\ q.efficiency \in 1..100 /\ q.demandRate \in Nat
  BY DEF IsSizingQuestion
<1>2. rec = Recommended(q.fleet, tariff, q.options, 7, q.efficiency) /\ answer.profile = ToSiteProfile(q.fleet, rec, 100, 20)
  BY DEF AnswerSizing
<1>3. /\ \E g \in grids : rec = Evaluate(q.fleet, g, tariff, 7, q.efficiency)
      /\ rec.feasible
      /\ \A g \in grids : LET other == Evaluate(q.fleet, g, tariff, 7, q.efficiency)
                          IN  other.feasible => rec.cost < other.cost \/ (rec.cost = other.cost /\ rec.grid <= g)
  <2> DEFINE fleet == q.fleet
             options == q.options
             efficiency == q.efficiency
             rate == q.demandRate
  <2>1. /\ IsFleet(fleet) /\ options \subseteq Nat /\ efficiency \in 1..100 /\ rate \in Nat
        /\ Recommended(fleet, SizingTariff(rate), options, 7, efficiency) # None
        /\ rec = Recommended(fleet, SizingTariff(rate), options, 7, efficiency)
    BY <1>1, <1>2
  <2> HIDE DEF fleet, options, efficiency, rate, rec
  <2>2. IsCheapest(rec, fleet, options \cup {FlatLoadFloor(fleet)}, rate, 7, efficiency)
    BY <2>1, RecommendedIsCheapest
  <2> QED BY <2>2 DEF IsCheapest, fleet, options, efficiency, rate
<1>4. PICK g \in grids : rec = Evaluate(q.fleet, g, tariff, 7, q.efficiency)
  BY <1>3
<1>5. g \in Nat
  BY <1>1, FloorIsNatural
<1>6. /\ rec.grid = g /\ rec.recharge \in Nat /\ q.fleet.base + rec.recharge <= g /\ short \in Nat /\ q.fleet.base \in Nat
      /\ short > 0 => /\ rec.storage \in Nat /\ rec.storage >= short
                      /\ 100 * short <= q.efficiency * rec.recharge * OffWindow(q.fleet)
  <2> DEFINE fleet == q.fleet
             efficiency == q.efficiency
             c == Evaluate(fleet, g, tariff, 7, efficiency)
  <2>1. c.feasible /\ rec = c /\ IsFleet(fleet) /\ efficiency \in 1..100
    BY <1>1, <1>3, <1>4
  <2>2. c.grid = g
    BY SMTT(30) DEF Evaluate
  <2> HIDE DEF fleet, efficiency, tariff
  <2>3. /\ c.recharge \in Nat /\ fleet.base + c.recharge <= g /\ DeficitOf(fleet, g) \in Nat
        /\ DeficitOf(fleet, g) > 0 => /\ c.storage \in Nat /\ c.storage >= DeficitOf(fleet, g)
                                      /\ 100 * DeficitOf(fleet, g) <= efficiency * c.recharge * OffWindow(fleet)
    BY <1>5, <2>1, CandidateCarriesItsFleet, ZenonT(60)
  <2>4. fleet.base \in Nat
    BY <2>1 DEF IsFleet
  <2> HIDE DEF c
  <2>5. rec = c /\ rec.grid = g
    BY <2>1, <2>2
  <2> HIDE DEF rec
  <2> QED BY <2>3, <2>4, <2>5 DEF fleet, efficiency
<1>7. \A h \in 0..23 : LoadOf(curve, h) <= rec.grid
  <2> HIDE DEF q, rec
  <2>1. \A h \in 0..23 : LoadOf(curve, h) \in {rec.grid, q.fleet.base + rec.recharge}
    BY <1>5, <1>6, DayIsCurve
  <2> QED BY <1>5, <1>6, <2>1
<1>8. short > 0 => /\ answer.profile.storage # None
                   /\ UsableEnergy(answer.profile.storage) >= short
                   /\ 100 * short <= q.efficiency * rec.recharge * OffWindow(q.fleet)
  <2> SUFFICES ASSUME short > 0 PROVE answer.profile.storage # None /\ UsableEnergy(answer.profile.storage) >= short
    BY <1>6
  <2> HIDE DEF q, rec, short
  <2>1. rec.storage \in Nat /\ rec.storage > 0 /\ rec.storage >= short
    BY <1>6
  <2>2. answer.profile.storage # None /\ UsableEnergy(answer.profile.storage) >= rec.storage
    BY <1>2, <2>1, UnitsHoldTheStorage
  <2>3. short \in Nat
    BY <1>6
  <2> DEFINE usable == UsableEnergy(answer.profile.storage)
             stored == rec.storage
  <2>4. usable \in Int
    BY <1>2, <2>1, UnitsHoldTheStorage
  <2>5. stored \in Nat /\ stored >= short /\ usable >= stored
    BY <2>1, <2>2
  <2> HIDE DEF usable, stored
  <2>6. usable >= short
    BY <2>3, <2>4, <2>5
  <2> QED BY <2>2, <2>6 DEF usable
<1>9. LET service == answer.profile.grid.service
      IN  2 * (service - rec.grid) <= PerKw /\ 2 * (rec.grid - service) <= PerKw
  <2> HIDE DEF q, rec
  <2>1. answer.profile.grid.service = RoundToKw(rec.grid)
    BY <1>2 DEF ToSiteProfile
  <2> QED BY <1>5, <1>6, <2>1, RoundingIsNear
<1> HIDE DEF curve, short, grids
<1> QED BY <1>3, <1>7, <1>8, <1>9 DEF curve, short, grids

-----------------------------------------------------------------------------
(* The same number over and over. *)
LEMMA SumOfConstant ==
  ASSUME NEW S, IsFiniteSet(S), NEW c \in Nat
  PROVE  SumFunctionOnSet([x \in S |-> c], S) = c * Cardinality(S)
<1> DEFINE f == [x \in S |-> c]
           F == {s \in SUBSET S : SumFunctionOnSet(f, s) = c * Cardinality(s)}
<1>1. {} \in F
  BY SumOfNone, FS_EmptySet
<1>2. ASSUME NEW s \in SUBSET S, s # {}, \A x \in s : s \ {x} \in F
      PROVE  s \in F
  <2>1. PICK x \in s : TRUE
    BY <1>2
  <2>2. IsFiniteSet(s) /\ \A y \in s : f[y] = c
    BY FS_Subset
  <2> HIDE DEF f
  <2>3. SumFunctionOnSet(f, s) = c + SumFunctionOnSet(f, s \ {x})
    BY <2>2, SumTakesOut
  <2>4. SumFunctionOnSet(f, s \ {x}) = c * Cardinality(s \ {x})
    BY <1>2
  <2>5. Cardinality(s \ {x}) = Cardinality(s) - 1 /\ Cardinality(s) \in Nat
    BY <2>2, FS_RemoveElement, FS_CardinalityType
  <2>6. c + c * (Cardinality(s) - 1) = c * Cardinality(s)
    BY <2>5
  <2> QED BY <2>3, <2>4, <2>5, <2>6
<1> HIDE DEF F
<1>3. S \in F
  BY <1>1, <1>2, SetsOneByOne
<1> QED BY <1>3 DEF F

(* What is summed part by part, each part at its own rate, is summed one by one. *)
LEMMA SumByParts ==
  ASSUME NEW T, IsFiniteSet(T), NEW W, IsFiniteSet(W), NEW part, \A t \in T : part[t] \in W,
         NEW load, \A t \in T : load[t] \in Int, NEW rate, \A w \in W : rate[w] \in Int
  PROVE  SumFunctionOnSet([w \in W |-> SumFunctionOnSet(load, {t \in T : part[t] = w}) * rate[w]], W)
           = SumFunctionOnSet([t \in T |-> load[t] * rate[part[t]]], T)
<1> DEFINE cost == [t \in T |-> load[t] * rate[part[t]]]
           In(s, w) == {t \in s : part[t] = w}
           Parts(s) == [w \in W |-> SumFunctionOnSet(load, In(s, w)) * rate[w]]
           F == {s \in SUBSET T : SumFunctionOnSet(Parts(s), W) = SumFunctionOnSet(cost, s)}
<1>0. \A s \in SUBSET T, w \in W : /\ IsFiniteSet(s) /\ IsFiniteSet(In(s, w)) /\ SumFunctionOnSet(load, In(s, w)) \in Int
                                   /\ Parts(s)[w] = SumFunctionOnSet(load, In(s, w)) * rate[w] /\ Parts(s)[w] \in Int
  <2> TAKE s \in SUBSET T, w \in W
  <2>1. IsFiniteSet(s) /\ In(s, w) \in SUBSET T
    BY FS_Subset
  <2>2. IsFiniteSet(In(s, w))
    <3> HIDE DEF In
    <3> QED BY <2>1, FS_Subset
  <2>3. SumFunctionOnSet(load, In(s, w)) \in Int
    <3> HIDE DEF In
    <3> QED BY <2>1, <2>2, SumIsInt
  <2>4. Parts(s)[w] = SumFunctionOnSet(load, In(s, w)) * rate[w]
    OBVIOUS
  <2> HIDE DEF Parts, In
  <2> QED BY <2>1, <2>2, <2>3, <2>4
<1>1. {} \in F
  <2>1. \A w \in W : Parts({})[w] = 0
    <3> TAKE w \in W
    <3>1. In({}, w) = {} /\ Parts({})[w] = SumFunctionOnSet(load, In({}, w)) * rate[w]
      OBVIOUS
    <3> HIDE DEF Parts, In
    <3> QED BY <3>1, SumOfNone
  <2> HIDE DEF Parts, cost
  <2>2. SumFunctionOnSet(Parts({}), W) = 0
    BY <2>1, SumOfZeros
  <2> QED BY <2>2, SumOfNone
<1>2. ASSUME NEW s \in SUBSET T, s # {}, \A x \in s : s \ {x} \in F
      PROVE  s \in F
  <2>1. PICK x \in s : TRUE
    BY <1>2
  <2> DEFINE r == s \ {x}
             w == part[x]
             rest == W \ {w}
  <2>2. w \in W /\ r \in SUBSET T /\ x \in T /\ load[x] \in Int /\ rate[w] \in Int /\ cost[x] = load[x] * rate[w]
    OBVIOUS
  <2>3. SumFunctionOnSet(cost, s) = cost[x] + SumFunctionOnSet(cost, r)
    <3>1. IsFiniteSet(s) /\ \A t \in s : cost[t] \in Int
      BY FS_Subset
    <3> HIDE DEF cost
    <3> QED BY <3>1, SumTakesOut
  <2>4. SumFunctionOnSet(Parts(r), W) = SumFunctionOnSet(cost, r)
    BY <1>2
  <2>5. In(r, w) = In(s, w) \ {x} /\ x \in In(s, w) /\ \A v \in rest : In(r, v) = In(s, v)
    OBVIOUS
  <2> HIDE DEF cost, r, w, In, Parts
  <2>6. /\ SumFunctionOnSet(Parts(s), W) = Parts(s)[w] + SumFunctionOnSet(Parts(s), rest)
        /\ SumFunctionOnSet(Parts(r), W) = Parts(r)[w] + SumFunctionOnSet(Parts(r), rest)
    <3>1. w \in W /\ (\A v \in W : Parts(s)[v] \in Int) /\ (\A v \in W : Parts(r)[v] \in Int)
      BY <1>0, <2>2
    <3> DEFINE whole == Parts(s)
               part_ == Parts(r)
    <3> HIDE DEF whole, part_, rest
    <3>2. SumFunctionOnSet(whole, W) = whole[w] + SumFunctionOnSet(whole, W \ {w})
      BY <3>1, SumTakesOut DEF whole
    <3>3. SumFunctionOnSet(part_, W) = part_[w] + SumFunctionOnSet(part_, W \ {w})
      BY <3>1, SumTakesOut DEF part_
    <3> QED BY <3>2, <3>3 DEF whole, part_, rest
  <2>7. SumFunctionOnSet(Parts(s), rest) = SumFunctionOnSet(Parts(r), rest)
    <3>1. \A v \in rest : Parts(s)[v] \in Int /\ Parts(s)[v] = Parts(r)[v]
      BY <1>0, <2>2, <2>5
    <3>2. IsFiniteSet(rest)
      BY FS_Subset
    <3> HIDE DEF rest
    <3> QED BY <3>1, <3>2, SumDependsOnValues
  <2>8. SumFunctionOnSet(load, In(s, w)) = load[x] + SumFunctionOnSet(load, In(r, w))
    <3>1. IsFiniteSet(In(s, w)) /\ \A t \in In(s, w) : load[t] \in Int
      BY <1>0, <2>2 DEF In
    <3> QED BY <2>5, <3>1, SumTakesOut
  <2>9. Parts(s)[w] = cost[x] + Parts(r)[w]
    <3> DEFINE b == SumFunctionOnSet(load, In(r, w))
    <3>1. b \in Int /\ Parts(r)[w] = b * rate[w] /\ Parts(s)[w] = (load[x] + b) * rate[w]
      BY <1>0, <2>2, <2>8
    <3> HIDE DEF b
    <3>2. (load[x] + b) * rate[w] = load[x] * rate[w] + b * rate[w]
      BY <2>2, <3>1
    <3> QED BY <2>2, <3>1, <3>2
  <2>10. /\ cost[x] \in Int /\ Parts(r)[w] \in Int /\ Parts(s)[w] \in Int /\ SumFunctionOnSet(Parts(s), rest) \in Int
    <3>1. IsFiniteSet(rest) /\ \A v \in rest : Parts(s)[v] \in Int
      BY <1>0, FS_Subset
    <3>2. SumFunctionOnSet(Parts(s), rest) \in Int
      <4> HIDE DEF rest
      <4> QED BY <3>1, SumIsInt
    <3> QED BY <1>0, <2>2, <3>2
  <2>11. SumFunctionOnSet(Parts(s), W) = SumFunctionOnSet(cost, s)
    <3> DEFINE A == SumFunctionOnSet(Parts(s), rest)
               C == SumFunctionOnSet(cost, r)
    <3>1. C = Parts(r)[w] + A /\ SumFunctionOnSet(Parts(s), W) = Parts(s)[w] + A /\ SumFunctionOnSet(cost, s) = cost[x] + C
      BY <2>3, <2>4, <2>6, <2>7
    <3> HIDE DEF A, C
    <3> QED BY <2>9, <2>10, <3>1 DEF A
  <2> QED BY <2>11
<1> HIDE DEF F
<1>3. T \in F
  BY <1>1, <1>2, SetsOneByOne
<1> QED BY <1>3 DEF F

-----------------------------------------------------------------------------
(* A ladder that rises and ends without an end. *)
IsRising(tiers) ==
  \E n \in Nat \ {0} :
    /\ DOMAIN tiers = 1..n
    /\ tiers[n].upto = None
    /\ \A i \in 1..n : tiers[i].rate \in Nat
    /\ \A i \in 1..(n - 1) : tiers[i].upto \in Nat
    /\ \A i, j \in 1..(n - 1) : i <= j => tiers[i].upto <= tiers[j].upto
TierOfUnit(tiers, u) == Min({i \in DOMAIN tiers : tiers[i].upto = None \/ u <= tiers[i].upto})

(* A set of numbers has a least one, which Min is. *)
LEMMA MinIsLeast ==
  ASSUME NEW S, S \subseteq Nat, S # {}
  PROVE  Min(S) \in S /\ \A x \in S : Min(S) <= x
<1>1. \E x \in S : \A y \in S : x <= y
  BY LeastNumber
<1> QED BY <1>1 DEF Min

(* Each unit is on the one rung whose ends it lies between. *)
LEMMA UnitIsOnARung ==
  ASSUME NEW n \in Nat \ {0}, NEW tiers, DOMAIN tiers = 1..n, tiers[n].upto = None,
         \A i \in 1..(n - 1) : tiers[i].upto \in Nat,
         \A i, j \in 1..(n - 1) : i <= j => tiers[i].upto <= tiers[j].upto,
         NEW u \in Nat \ {0}
  PROVE  LET k == TierOfUnit(tiers, u)
         IN  /\ k \in 1..n
             /\ k = n \/ u <= tiers[k].upto
             /\ \A j \in 1..(n - 1) : j < k => tiers[j].upto < u
             /\ \A j \in 1..(n - 1) : k <= j => u <= tiers[j].upto
<1> DEFINE S == {i \in DOMAIN tiers : tiers[i].upto = None \/ u <= tiers[i].upto}
           k == TierOfUnit(tiers, u)
<1>1. S \subseteq 1..n /\ n \in S
  OBVIOUS
<1>2. k \in S /\ \A x \in S : k <= x
  <2>1. S \subseteq Nat /\ S # {} /\ k = Min(S)
    BY <1>1 DEF TierOfUnit
  <2> HIDE DEF S, k
  <2> QED BY <2>1, MinIsLeast
<1> HIDE DEF k
<1>3. k \in 1..n
  BY <1>1, <1>2
<1>4. \A j \in 1..(n - 1) : tiers[j].upto # None
  BY BillingAssumption
<1>5. k = n \/ u <= tiers[k].upto
  BY <1>2, <1>3, <1>4
<1>6. ASSUME NEW j \in 1..(n - 1), j < k PROVE tiers[j].upto < u
  <2>1. j \notin S
    <3> HIDE DEF S
    <3> QED BY <1>2, <1>3, <1>6
  <2> QED BY <2>1
<1>7. ASSUME NEW j \in 1..(n - 1), k <= j PROVE u <= tiers[j].upto
  <2>1. k \in 1..(n - 1) /\ u <= tiers[k].upto
    BY <1>3, <1>5, <1>7
  <2>2. tiers[k].upto <= tiers[j].upto /\ tiers[k].upto \in Nat /\ tiers[j].upto \in Nat
    BY <1>7, <2>1
  <2> QED BY <2>1, <2>2
<1> QED BY <1>3, <1>5, <1>6, <1>7 DEF k

(* One unit more costs one unit more on its own rung, and nothing on any other. *)
LEMMA RungRises ==
  ASSUME NEW n \in Nat \ {0}, NEW tiers, DOMAIN tiers = 1..n, tiers[n].upto = None,
         \A i \in 1..n : tiers[i].rate \in Nat,
         \A i \in 1..(n - 1) : tiers[i].upto \in Nat,
         \A i, j \in 1..(n - 1) : i <= j => tiers[i].upto <= tiers[j].upto,
         NEW u \in Nat \ {0}, NEW i \in 1..n
  PROVE  RungCost(tiers, u, i) = RungCost(tiers, u - 1, i) + (IF i = TierOfUnit(tiers, u) THEN tiers[i].rate ELSE 0)
<1> DEFINE k == TierOfUnit(tiers, u)
           lower == IF i = 1 THEN 0 ELSE tiers[i - 1].upto
           Upper(q) == IF i = n THEN q ELSE tiers[i].upto
           Span(q) == Max({0, Min({q, Upper(q)}) - lower})
           rate == tiers[i].rate
<1>1. \A j \in 1..(n - 1) : tiers[j].upto # None
  BY BillingAssumption
<1>2. \A q : RungCost(tiers, q, i) = Span(q) * rate
  <2> TAKE q
  <2>1. (IF i = 1 THEN 0 ELSE UpperOf(tiers[i - 1], q)) = lower
    BY <1>1 DEF UpperOf
  <2>2. UpperOf(tiers[i], q) = Upper(q)
    BY <1>1 DEF UpperOf
  <2> QED BY <2>1, <2>2 DEF RungCost
<1>3. /\ k \in 1..n
      /\ k = n \/ u <= tiers[k].upto
      /\ \A j \in 1..(n - 1) : j < k => tiers[j].upto < u
      /\ \A j \in 1..(n - 1) : k <= j => u <= tiers[j].upto
  BY UnitIsOnARung
<1> HIDE DEF k
<1>4. lower \in Nat /\ (i < n => tiers[i].upto \in Nat /\ lower <= tiers[i].upto)
  OBVIOUS
<1>5. /\ i < k => i < n /\ tiers[i].upto < u
      /\ i = k => lower < u /\ (i < n => u <= tiers[i].upto)
      /\ i > k => u <= lower
  BY <1>3
<1> DEFINE Kept(q) == IF q <= Upper(q) THEN q ELSE Upper(q)
<1>6. \A q \in Nat : Upper(q) \in Nat /\ Span(q) = IF Kept(q) - lower > 0 THEN Kept(q) - lower ELSE 0
  <2> TAKE q \in Nat
  <2>1. Upper(q) \in Nat
    BY <1>4
  <2>2. Min({q, Upper(q)}) = Kept(q)
    <3> DEFINE b == Upper(q)
    <3> HIDE DEF b
    <3>1. Min({q, b}) = IF q <= b THEN q ELSE b
      BY <2>1, MinOfTwo, SMTT(30) DEF b
    <3> QED BY <3>1 DEF b
  <2> HIDE DEF lower
  <2>3. Kept(q) - lower \in Int
    BY <1>4, <2>1
  <2> HIDE DEF Kept, Upper
  <2> QED BY <2>1, <2>2, <2>3, MaxWithZero
<1>7. u \in Nat /\ u - 1 \in Nat
  OBVIOUS
<1>8. /\ Span(u - 1) \in Nat
      /\ Span(u) = Span(u - 1) + (IF i = k THEN 1 ELSE 0)
  <2> HIDE DEF Span, lower
  <2>1. Span(u) = IF Kept(u) - lower > 0 THEN Kept(u) - lower ELSE 0
    BY <1>6, <1>7
  <2>2. Span(u - 1) = IF Kept(u - 1) - lower > 0 THEN Kept(u - 1) - lower ELSE 0
    BY <1>6, <1>7
  <2>3. CASE i < k
    <3>1. Kept(u) = tiers[i].upto /\ Kept(u - 1) = tiers[i].upto
      BY <1>4, <1>5, <1>7, <2>3
    <3> QED BY <1>3, <1>4, <1>5, <2>1, <2>2, <2>3, <3>1
  <2>4. CASE i = k
    <3>1. Kept(u) = u /\ Kept(u - 1) = u - 1
      BY <1>4, <1>5, <1>7, <2>4
    <3> QED BY <1>3, <1>4, <1>5, <1>7, <2>1, <2>2, <2>4, <3>1
  <2>5. CASE i > k
    <3>1. Kept(u) <= u /\ Kept(u - 1) <= u - 1 /\ Kept(u) \in Int /\ Kept(u - 1) \in Int
      BY <1>4, <1>7
    <3> HIDE DEF Kept
    <3> QED BY <1>3, <1>4, <1>5, <1>7, <2>1, <2>2, <2>5, <3>1
  <2> QED BY <1>3, <2>3, <2>4, <2>5
<1>9. rate \in Nat
  OBVIOUS
<1> DEFINE was == Span(u - 1)
<1>10. was \in Nat /\ RungCost(tiers, u - 1, i) = was * rate
       /\ RungCost(tiers, u, i) = (was + (IF i = k THEN 1 ELSE 0)) * rate
  <2> HIDE DEF Span
  <2> QED BY <1>2, <1>8
<1> HIDE DEF was, Span
<1>11. (was + (IF i = k THEN 1 ELSE 0)) * rate = was * rate + (IF i = k THEN rate ELSE 0)
  <2> HIDE DEF rate
  <2>1. (was + 1) * rate = was * rate + rate /\ (was + 0) * rate = was * rate + 0
    BY <1>9, <1>10
  <2> QED BY <2>1
<1> QED BY <1>10, <1>11 DEF k

(* What the next unit costs. *)
RateOfUnit(tiers, u) == tiers[TierOfUnit(tiers, u)].rate
LEMMA PriceRises ==
  ASSUME NEW tiers, IsRising(tiers), NEW u \in Nat \ {0}
  PROVE  IsLadder(tiers) /\ RateOfUnit(tiers, u) \in Nat /\ Price(tiers, u) = RateOfUnit(tiers, u) + Price(tiers, u - 1)
<1>0. PICK n \in Nat \ {0} :
           /\ DOMAIN tiers = 1..n
           /\ tiers[n].upto = None
           /\ \A i \in 1..n : tiers[i].rate \in Nat
           /\ \A i \in 1..(n - 1) : tiers[i].upto \in Nat
           /\ \A i, j \in 1..(n - 1) : i <= j => tiers[i].upto <= tiers[j].upto
  BY DEF IsRising
<1> DEFINE D == DOMAIN tiers
           k == TierOfUnit(tiers, u)
           f == [i \in D |-> RungCost(tiers, u, i)]
           g == [i \in D |-> RungCost(tiers, u - 1, i)]
<1>1. IsLadder(tiers)
  BY <1>0 DEF IsLadder
<1>2. k \in D
  BY <1>0, UnitIsOnARung
<1>3. u \in Nat /\ u - 1 \in Nat
  OBVIOUS
<1>4. \A i \in D : f[i] \in Nat /\ g[i] \in Nat
  BY <1>1, <1>3, RungIsNatural
<1>5. \A i \in D : f[i] = g[i] + (IF i = k THEN tiers[i].rate ELSE 0)
  BY <1>0, RungRises, SMTT(30)
<1>6. Price(tiers, u) = SumFunctionOnSet(f, D) /\ Price(tiers, u - 1) = SumFunctionOnSet(g, D)
  BY <1>1, <1>3, PriceIsNatural
<1>7. IsFiniteSet(D)
  BY <1>0, FS_Interval
<1>8. tiers[k].rate \in Nat
  BY <1>0, <1>2
<1> HIDE DEF f, g, D, k
<1>9. /\ SumFunctionOnSet(f, D) = f[k] + SumFunctionOnSet(f, D \ {k})
      /\ SumFunctionOnSet(g, D) = g[k] + SumFunctionOnSet(g, D \ {k})
  <2>1. k \in D /\ (\A i \in D : f[i] \in Int) /\ (\A i \in D : g[i] \in Int)
    BY <1>2, <1>4
  <2>2. SumFunctionOnSet(f, D) = f[k] + SumFunctionOnSet(f, D \ {k})
    BY <1>7, <2>1, SumTakesOut
  <2>3. SumFunctionOnSet(g, D) = g[k] + SumFunctionOnSet(g, D \ {k})
    BY <1>7, <2>1, SumTakesOut
  <2> QED BY <2>2, <2>3
<1>10. SumFunctionOnSet(f, D \ {k}) = SumFunctionOnSet(g, D \ {k}) /\ SumFunctionOnSet(g, D \ {k}) \in Int
  <2> DEFINE R == D \ {k}
  <2>1. IsFiniteSet(R) /\ \A i \in R : f[i] \in Int /\ g[i] \in Int /\ f[i] = g[i]
    BY <1>4, <1>5, <1>7, FS_Subset
  <2> HIDE DEF R
  <2>2. SumFunctionOnSet(f, R) = SumFunctionOnSet(g, R) /\ SumFunctionOnSet(g, R) \in Int
    BY <2>1, SumDependsOnValues, SumIsInt
  <2> QED BY <2>2 DEF R
<1>11. f[k] = g[k] + tiers[k].rate /\ g[k] \in Nat
  BY <1>2, <1>4, <1>5
<1>12. Price(tiers, u) = tiers[k].rate + Price(tiers, u - 1)
  BY <1>6, <1>8, <1>9, <1>10, <1>11
<1> QED BY <1>1, <1>8, <1>12 DEF RateOfUnit, k

(* No unit costs nothing. *)
LEMMA NothingIsFree ==
  ASSUME NEW tiers, IsLadder(tiers)
  PROVE  Price(tiers, 0) = 0
<1> DEFINE D == DOMAIN tiers
           f == [i \in D |-> RungCost(tiers, 0, i)]
<1>1. ASSUME NEW i \in D PROVE f[i] = 0
  <2> DEFINE lower == IF i = 1 THEN 0 ELSE UpperOf(tiers[i - 1], 0)
             upper == UpperOf(tiers[i], 0)
  <2>1. \A k \in DOMAIN tiers : UpperOf(tiers[k], 0) \in Nat
    BY DEF IsLadder, UpperOf
  <2>2. i \in Nat /\ i >= 1 /\ (i # 1 => i - 1 \in DOMAIN tiers)
    BY DEF IsLadder
  <2>3. lower \in Nat /\ upper \in Nat
    BY <2>1, <2>2
  <2>4. f[i] = Max({0, Min({0, upper}) - lower}) * tiers[i].rate
    BY DEF RungCost
  <2> HIDE DEF lower, upper
  <2>5. Min({0, upper}) = 0
    BY <2>3, MinOfTwo
  <2>6. 0 - lower \in Int /\ ~(0 - lower > 0)
    BY <2>3
  <2>7. Max({0, 0 - lower}) = 0
    BY <2>6, MaxWithZero
  <2>8. tiers[i].rate \in Nat
    BY DEF IsLadder
  <2> QED BY <2>4, <2>5, <2>7, <2>8
<1>2. Price(tiers, 0) = SumFunctionOnSet(f, D)
  BY PriceIsNatural
<1>3. IsFiniteSet(D)
  BY FS_Interval DEF IsLadder
<1> HIDE DEF f, D
<1> QED BY <1>1, <1>2, <1>3, SumOfZeros

(* So a price up a ladder is that of each unit on its own rung. *)
LEMMA PriceIsUnitByUnit ==
  ASSUME NEW tiers, IsRising(tiers), NEW quantity \in Nat
  PROVE  Price(tiers, quantity) = UnitByUnit(tiers, quantity)
<1> DEFINE f(q) == [u \in 1..q |-> RateOfUnit(tiers, u)]
           wrong == {q \in Nat : Price(tiers, q) # SumFunctionOnSet(f(q), 1..q)}
<1>1. UnitByUnit(tiers, quantity) = SumFunctionOnSet(f(quantity), 1..quantity)
  BY ZenonT(60) DEF UnitByUnit, RateOfUnit, TierOfUnit, MapThenSumSet, MapThenFoldSet, SumFunctionOnSet, FoldFunctionOnSet
<1>2. ASSUME wrong # {} PROVE FALSE
  <2>1. PICK q \in wrong : \A p \in wrong : q <= p
    <3>1. wrong \subseteq Nat
      OBVIOUS
    <3> HIDE DEF wrong
    <3> QED BY <1>2, <3>1, LeastNumber
  <2>2. q \in Nat /\ Price(tiers, q) # SumFunctionOnSet(f(q), 1..q)
    OBVIOUS
  <2>3. CASE q = 0
    <3>1. 1..q = {}
      BY <2>3
    <3>2. IsLadder(tiers)
      <4>1. 1 \in Nat \ {0}
        OBVIOUS
      <4> QED BY <4>1, PriceRises
    <3> HIDE DEF f
    <3> QED BY <2>2, <2>3, <3>1, <3>2, SumOfNone, NothingIsFree
  <2>4. CASE q # 0
    <3>1. q - 1 \in Nat /\ ~(q <= q - 1) /\ q \in Nat \ {0}
      BY <2>2, <2>4
    <3>2. Price(tiers, q - 1) = SumFunctionOnSet(f(q - 1), 1..(q - 1))
      BY <2>1, <3>1
    <3>3. Price(tiers, q) = RateOfUnit(tiers, q) + Price(tiers, q - 1)
      BY <3>1, PriceRises
    <3>4. \A u \in 1..q : RateOfUnit(tiers, u) \in Nat
      BY <3>1, PriceRises
    <3>5. q \in 1..q /\ (1..q) \ {q} = 1..(q - 1) /\ IsFiniteSet(1..q) /\ IsFiniteSet(1..(q - 1))
      <4>1. q \in Int /\ q - 1 \in Int /\ 1 \in Int
        BY <3>1
      <4>2. IsFiniteSet(1..q) /\ IsFiniteSet(1..(q - 1))
        BY <4>1, FS_Interval
      <4>3. q \in 1..q /\ (1..q) \ {q} = 1..(q - 1)
        BY <3>1
      <4> QED BY <4>2, <4>3
    <3>6. SumFunctionOnSet(f(q), 1..q) = RateOfUnit(tiers, q) + SumFunctionOnSet(f(q), 1..(q - 1))
      <4>1. \A u \in 1..q : f(q)[u] \in Int
        BY <3>4
      <4>2. f(q)[q] = RateOfUnit(tiers, q)
        BY <3>5
      <4> HIDE DEF f
      <4> QED BY <3>5, <4>1, <4>2, SumTakesOut
    <3>7. SumFunctionOnSet(f(q), 1..(q - 1)) = SumFunctionOnSet(f(q - 1), 1..(q - 1))
      <4>1. \A u \in 1..(q - 1) : f(q)[u] \in Int /\ f(q)[u] = f(q - 1)[u]
        BY <3>1, <3>4
      <4> HIDE DEF f
      <4> QED BY <3>5, <4>1, SumDependsOnValues
    <3> QED BY <2>2, <3>2, <3>3, <3>6, <3>7
  <2> QED BY <2>3, <2>4
<1>3. Price(tiers, quantity) = SumFunctionOnSet(f(quantity), 1..quantity)
  BY <1>2
<1> HIDE DEF f
<1> QED BY <1>1, <1>3

-----------------------------------------------------------------------------
(* The minutes of a curve, and what its energy costs: each minute once, at the rate of its window. *)
Minutes(curve) == 0..(CurveEnd(curve) - 1)
LEMMA EnergyAddsUp ==
  ASSUME NEW curve, IsCurve(curve), NEW tariff, NEW season,
         \A w \in DOMAIN EnergyByWindow(curve, tariff) : EnergyRate(tariff, season, w) \in Nat
  PROVE  LET energy == EnergyByWindow(curve, tariff)
             cost == SumFunctionOnSet([w \in DOMAIN energy |-> energy[w] * EnergyRate(tariff, season, w)], DOMAIN energy)
         IN  /\ cost = SumFunctionOnSet([t \in Minutes(curve) |-> LoadOf(curve, t) * EnergyRate(tariff, season, WindowAt(tariff, t))],
                                        Minutes(curve))
             /\ cost \in Nat
             /\ DOMAIN energy = {WindowAt(tariff, t) : t \in Minutes(curve)}
<1> DEFINE T == Minutes(curve)
           W == {WindowAt(tariff, t) : t \in T}
           energy == EnergyByWindow(curve, tariff)
           part == [t \in T |-> WindowAt(tariff, t)]
           load == [t \in T |-> LoadOf(curve, t)]
           rate == [w \in W |-> EnergyRate(tariff, season, w)]
           In(w) == {t \in T : part[t] = w}
           byWindow == [w \in W |-> SumFunctionOnSet(load, In(w)) * rate[w]]
           byMinute == [t \in T |-> load[t] * rate[part[t]]]
<1>1. IsFiniteSet(T)
  BY EndIsNatural DEF Minutes
<1>2. IsFiniteSet(W)
  <2>1. W = {part[t] : t \in T}
    OBVIOUS
  <2> HIDE DEF W, T, part
  <2>2. IsFiniteSet({part[t] : t \in T})
    BY <1>1, ImageIsFinite
  <2> QED BY <2>1, <2>2
<1>3. DOMAIN energy = W
  BY EnergyOfWindows DEF Minutes
<1>4. \A w \in W : energy[w] = SumFunctionOnSet(load, In(w)) /\ energy[w] \in Nat
  <2> TAKE w \in W
  <2>1. energy[w] = LoadsOver(curve, In(w))
    <3>1. energy = [v \in W |-> LoadsOver(curve, {t \in T : WindowAt(tariff, t) = v})]
      BY EnergyOfWindows DEF Minutes
    <3>2. In(w) = {t \in T : WindowAt(tariff, t) = w}
      OBVIOUS
    <3> HIDE DEF In, W, T, energy
    <3> QED BY <3>1, <3>2
  <2>2. In(w) \subseteq T
    OBVIOUS
  <2>3. IsFiniteSet(In(w))
    <3> HIDE DEF In, T
    <3> QED BY <1>1, <2>2, FS_Subset
  <2> DEFINE f == [t \in In(w) |-> LoadOf(curve, t)]
  <2>4. \A t \in In(w) : f[t] \in Int /\ f[t] = load[t]
    <3>1. \A t : LoadOf(curve, t) \in Nat
      BY LoadIsNatural
    <3> HIDE DEF In, T
    <3> QED BY <2>2, <3>1
  <2>5. LoadsOver(curve, In(w)) = SumFunctionOnSet(f, In(w))
    BY DEF LoadsOver
  <2>6. SumFunctionOnSet(f, In(w)) = SumFunctionOnSet(load, In(w))
    <3> HIDE DEF f, load, In
    <3> QED BY <2>3, <2>4, SumDependsOnValues
  <2>7. LoadsOver(curve, In(w)) \in Nat
    <3> HIDE DEF In
    <3> QED BY <2>3, EnergyIsNatural
  <2> QED BY <2>1, <2>5, <2>6, <2>7
<1>5. \A w \in W : rate[w] = EnergyRate(tariff, season, w) /\ rate[w] \in Nat
  BY <1>3
<1>6. /\ \A t \in T : part[t] \in W /\ load[t] \in Int
      /\ \A w \in W : rate[w] \in Int
  <2>1. \A t \in T : load[t] \in Nat /\ part[t] \in W
    BY LoadIsNatural
  <2> HIDE DEF T, W, part, load, rate
  <2> QED BY <1>5, <2>1
<1>7. SumFunctionOnSet(byWindow, W) = SumFunctionOnSet(byMinute, T)
  <2> HIDE DEF T, W, part, load, rate
  <2> QED BY <1>1, <1>2, <1>6, SumByParts
<1>8. [w \in DOMAIN energy |-> energy[w] * EnergyRate(tariff, season, w)] = byWindow
  <2> HIDE DEF energy, load, In, W, rate
  <2> QED BY <1>3, <1>4, <1>5
<1>9. byMinute = [t \in T |-> LoadOf(curve, t) * EnergyRate(tariff, season, WindowAt(tariff, t))]
  <2>1. \A t \in T : load[t] = LoadOf(curve, t) /\ part[t] = WindowAt(tariff, t) /\ WindowAt(tariff, t) \in W
    OBVIOUS
  <2>2. \A t \in T : rate[part[t]] = EnergyRate(tariff, season, WindowAt(tariff, t))
    <3> HIDE DEF T, W, part, load, rate
    <3> QED BY <1>5, <2>1
  <2> HIDE DEF T, W, part, load, rate
  <2> QED BY <2>1, <2>2
<1>10. SumFunctionOnSet(byWindow, W) \in Nat
  <2>1. \A w \in W : byWindow[w] = energy[w] * rate[w]
    <3> HIDE DEF energy, load, In, W, rate
    <3> QED BY <1>4
  <2>2. \A w \in W : byWindow[w] \in Nat
    <3> HIDE DEF byWindow, W, energy, rate
    <3> QED BY <1>4, <1>5, <2>1, TimesIsMonotone
  <2> HIDE DEF byWindow, W
  <2> QED BY <1>2, <2>2, SumOfNaturals
<1> HIDE DEF byMinute, byWindow, energy, W, T
<1> QED BY <1>3, <1>7, <1>8, <1>9, <1>10 DEF energy, W, T

-----------------------------------------------------------------------------
(* A number that is at most so many times another, divided by as many, is at most the other. *)
LEMMA ShareIsNoMore ==
  ASSUME NEW a \in Nat, NEW b \in Nat, NEW d \in Nat \ {0}, a <= d * b
  PROVE  a \div d <= b
<1>1. a \div d \in Nat /\ d * (a \div d) <= a
  OBVIOUS
<1> DEFINE q == a \div d
<1> HIDE DEF q
<1>2. ASSUME q > b PROVE FALSE
  <2>1. d * (b + 1) <= d * q
    BY <1>1, <1>2, TimesIsMonotone DEF q
  <2>2. d * (b + 1) = d * b + d /\ d * b \in Nat
    BY TimesIsMonotone
  <2> QED BY <1>1, <2>1, <2>2 DEF q
<1> QED BY <1>1, <1>2 DEF q

(* A curve whose last point is its latest never draws more than its peak. *)
IsOrdered(curve) == \A i \in DOMAIN curve : curve[i].from <= CurveEnd(curve)
LEMMA LoadIsBelowThePeak ==
  ASSUME NEW curve, IsCurve(curve), IsOrdered(curve)
  PROVE  InstantPeak(curve) \in Nat /\ \A t \in Nat : LoadOf(curve, t) <= InstantPeak(curve)
<1> DEFINE T == 0..CurveEnd(curve)
           f == [t \in T |-> LoadOf(curve, t)]
           R == {LoadOf(curve, t) : t \in T}
<1>1. IsFiniteSet({0} \cup R) /\ {0} \cup R \subseteq Nat
  <2>1. R = {f[t] : t \in T}
    OBVIOUS
  <2>2. IsFiniteSet(T)
    BY EndIsNatural
  <2>3. IsFiniteSet({f[t] : t \in T})
    <3> HIDE DEF f, T
    <3> QED BY <2>2, ImageIsFinite
  <2>4. R \subseteq Nat
    BY LoadIsNatural
  <2>5. {0} \cup R = R \cup {0}
    OBVIOUS
  <2>6. IsFiniteSet(R)
    <3> HIDE DEF R, f, T
    <3> QED BY <2>1, <2>3
  <2> HIDE DEF R
  <2> QED BY <2>4, <2>5, <2>6, FS_AddElement
<1>2. InstantPeak(curve) = Max({0} \cup R)
  BY DEF InstantPeak
<1>3. InstantPeak(curve) \in Nat /\ \A x \in R : x <= InstantPeak(curve)
  <2> HIDE DEF R
  <2>1. {0} \cup R \subseteq Int /\ {0} \cup R # {}
    BY <1>1
  <2> QED BY <1>1, <1>2, <2>1, MaxIsGreatest
<1>4. ASSUME NEW t \in Nat PROVE LoadOf(curve, t) <= InstantPeak(curve)
  <2>1. CASE t \in T
    BY <1>3, <2>1
  <2>2. CASE t \notin T
    <3> DEFINE held == {i \in 1..(Len(curve) - 1) : curve[i].from <= t /\ t < curve[i + 1].from}
               kw == [i \in DOMAIN curve |-> curve[i].kw]
    <3>1. CurveEnd(curve) \in Nat /\ t > CurveEnd(curve)
      BY <2>2, EndIsNatural
    <3>2. \A i \in 1..(Len(curve) - 1) : i + 1 \in DOMAIN curve
      BY DEF IsCurve
    <3>3. \A i \in DOMAIN curve : curve[i].from \in Nat /\ curve[i].from <= CurveEnd(curve)
      BY PointsOfCurve DEF IsOrdered
    <3>4. held = {}
      BY <3>1, <3>2, <3>3
    <3>5. LoadOf(curve, t) = SumFunctionOnSet(kw, held)
      BY DEF LoadOf
    <3> HIDE DEF held, kw
    <3>6. LoadOf(curve, t) = 0
      BY <3>4, <3>5, SumOfNone
    <3> QED BY <1>3, <3>6
  <2> QED BY <2>1, <2>2
<1> QED BY <1>3, <1>4

(* No reading of a meter is above the peak either, which is an average over an interval. *)
LEMMA ReadingIsBelowThePeak ==
  ASSUME NEW curve, IsCurve(curve), IsOrdered(curve), NEW interval \in Nat \ {0}, NEW starts
  PROVE  PeakReading(curve, interval, starts) <= Scale * InstantPeak(curve)
<1> DEFINE peak == InstantPeak(curve)
<1>1. peak \in Nat /\ \A t \in Nat : LoadOf(curve, t) <= peak
  BY LoadIsBelowThePeak
<1> HIDE DEF peak
<1>2. ASSUME NEW s \in IntervalStarts(curve, interval) PROVE Reading(curve, interval, s) <= Scale * peak
  <2> DEFINE S == s..((s + interval) - 1)
             f == [t \in S |-> LoadOf(curve, t)]
             g == [t \in S |-> peak]
             energy == LoadsOver(curve, S)
  <2>1. s \in Nat
    BY EndIsNatural DEF IntervalStarts
  <2>2. IsFiniteSet(S) /\ Cardinality(S) = interval /\ S \subseteq Nat
    <3>1. s \in Int /\ (s + interval) - 1 \in Int /\ ~(s > (s + interval) - 1) /\ ((s + interval) - 1) - s + 1 = interval
      BY <2>1
    <3>2. IsFiniteSet(S) /\ Cardinality(S) = ((s + interval) - 1) - s + 1
      BY <3>1, FS_Interval
    <3>3. S \subseteq Nat
      BY <2>1
    <3> QED BY <3>1, <3>2, <3>3
  <2>3. EnergyIn(curve, s, s + interval) = energy
    BY ZenonT(60) DEF EnergyIn, LoadsOver, MapThenSumSet, MapThenFoldSet, SumFunctionOnSet, FoldFunctionOnSet
  <2>4. energy = SumFunctionOnSet(f, S)
    BY DEF LoadsOver
  <2>5. \A t \in S : f[t] \in Int /\ g[t] \in Int /\ f[t] <= g[t]
    <3>1. \A t \in Nat : LoadOf(curve, t) \in Nat
      BY LoadIsNatural
    <3> HIDE DEF S
    <3> QED BY <1>1, <2>2, <3>1
  <2>6. SumFunctionOnSet(g, S) = peak * interval
    <3> HIDE DEF S
    <3> QED BY <1>1, <2>2, SumOfConstant
  <2>7. energy \in Nat
    <3> HIDE DEF S
    <3> QED BY <2>2, EnergyIsNatural
  <2> HIDE DEF f, g, S, energy
  <2>8. SumFunctionOnSet(f, S) <= SumFunctionOnSet(g, S)
    BY <2>2, <2>5, SumIsMonotone
  <2>9. energy <= peak * interval
    BY <2>4, <2>6, <2>8
  <2>10. Scale * energy \in Nat /\ Scale * peak \in Nat /\ Scale * energy <= interval * (Scale * peak)
    <3>1. Scale \in Nat /\ peak * interval \in Nat
      BY <1>1, BillingAssumption, TimesIsMonotone
    <3>2. Scale * energy <= Scale * (peak * interval)
      BY <2>7, <2>9, <3>1, TimesIsMonotone
    <3>3. Scale * (peak * interval) = interval * (Scale * peak)
      BY <1>1, <3>1
    <3> QED BY <1>1, <2>7, <3>1, <3>2, <3>3, TimesIsMonotone
  <2>11. (Scale * energy) \div interval <= Scale * peak
    BY <2>10, ShareIsNoMore
  <2> QED BY <2>3, <2>11 DEF Reading
<1>3. 0 <= Scale * peak
  BY <1>1, BillingAssumption, TimesIsMonotone
<1>4. \/ PeakReading(curve, interval, starts) = 0
      \/ \E s \in starts \cap IntervalStarts(curve, interval) : PeakReading(curve, interval, starts) = Reading(curve, interval, s)
  BY PeakIsNatural
<1> QED BY <1>2, <1>3, <1>4 DEF peak

(* What is billed is no more than the highest of the day and of the past. *)
LEMMA BilledIsUnderTheRoof ==
  ASSUME NEW curve, IsCurve(curve), IsOrdered(curve), NEW c, IsMetered(c),
         NEW tariff, tariff.ratchet = None \/ tariff.ratchet \in 0..100, NEW historical \in Nat, NEW coincident
  PROVE  Billed(curve, c, tariff, historical, coincident) <= Scale * Max({InstantPeak(curve), historical})
<1> DEFINE peak == InstantPeak(curve)
           top == Max({peak, historical})
           measured == Measured(curve, c, tariff, coincident)
           floor == RatchetFloor(tariff, historical)
<1>1. Scale \in Nat /\ peak \in Nat
  BY LoadIsBelowThePeak, BillingAssumption
<1>2. top \in Nat /\ peak <= top /\ historical <= top
  <2> HIDE DEF peak
  <2>1. {peak, historical} = {peak} \cup {historical} /\ IsFiniteSet({peak})
    BY FS_Singleton
  <2>2. IsFiniteSet({peak} \cup {historical})
    BY <2>1, FS_AddElement
  <2>3. top \in {peak, historical} /\ \A x \in {peak, historical} : x <= top
    BY <1>1, <2>1, <2>2, MaxIsGreatest
  <2> HIDE DEF top
  <2> QED BY <1>1, <2>3
<1> HIDE DEF top, peak
<1>3. Scale * peak <= Scale * top /\ Scale * historical <= Scale * top /\ Scale * top \in Nat
      /\ Scale * historical \in Nat /\ Scale * peak \in Nat
  BY <1>1, <1>2, TimesIsMonotone
<1>4. measured \in Nat /\ measured <= Scale * top
  <2>1. c.interval \in Nat \ {0}
    BY DEF IsMetered
  <2>2. \A starts : PeakReading(curve, c.interval, starts) \in Nat /\ PeakReading(curve, c.interval, starts) <= Scale * peak
    BY <2>1, PeakIsNatural, ReadingIsBelowThePeak DEF peak
  <2>3. \E starts : measured = PeakReading(curve, c.interval, starts)
    BY DEF Measured
  <2> HIDE DEF measured
  <2> QED BY <1>3, <2>2, <2>3
<1>5. floor \in Nat /\ floor <= Scale * top
  <2>1. CASE tariff.ratchet = None
    BY <1>3, <2>1 DEF RatchetFloor
  <2>2. CASE tariff.ratchet # None
    <3> DEFINE r == tariff.ratchet
               a == Scale * historical
    <3>1. r \in Nat /\ r <= 100 /\ a \in Nat
      BY <1>3, <2>2
    <3>2. floor = (r * historical * Scale) \div 100
      BY <2>2 DEF RatchetFloor
    <3>3. r * historical * Scale = a * r
      BY <1>1, <3>1
    <3> HIDE DEF a, r, floor
    <3>4. a * r \in Nat /\ a * r <= a * 100
      BY <3>1, TimesIsMonotone
    <3>5. a * 100 = 100 * a
      BY <3>1
    <3>6. (a * r) \div 100 <= a
      BY <3>1, <3>4, <3>5, ShareIsNoMore
    <3>7. (a * r) \div 100 \in Nat
      BY <3>4
    <3> QED BY <1>3, <3>1, <3>2, <3>3, <3>6, <3>7 DEF a
  <2> QED BY <2>1, <2>2
<1>6. Billed(curve, c, tariff, historical, coincident)
        = IF c.basis = "NCP" /\ c.window = None THEN Max({measured, floor}) ELSE measured
  BY DEF Billed
<1> HIDE DEF measured, floor
<1>7. Max({measured, floor}) \in {measured, floor}
  <2>1. {measured, floor} = {measured} \cup {floor} /\ IsFiniteSet({measured})
    BY FS_Singleton
  <2>2. IsFiniteSet({measured} \cup {floor})
    BY <2>1, FS_AddElement
  <2> QED BY <1>4, <1>5, <2>1, <2>2, MaxIsGreatest
<1> QED BY <1>4, <1>5, <1>6, <1>7 DEF top, peak

-----------------------------------------------------------------------------
(* The bill of a tariff without blocks, when every minute has a rate and the meter has what it needs. *)
LEMMA BillIsSum ==
  ASSUME NEW curve, IsCurve(curve), NEW tariff, AreMetered(tariff), tariff.blocks = None, tariff.fixed \in Nat,
         NEW month, NEW days \in Nat, NEW historical \in Nat, NEW coincident,
         \A w \in DOMAIN EnergyByWindow(curve, tariff) : EnergyRate(tariff, SeasonOf(tariff, month), w) \in Nat,
         \/ tariff.demandFree
         \/ coincident # None
         \/ \A i \in InSeason(tariff, SeasonOf(tariff, month)) : tariff.demand[i].basis # "CP"
  PROVE  LET season == SeasonOf(tariff, month)
             energy == EnergyByWindow(curve, tariff)
         IN  /\ Bill(curve, tariff, month, days, historical, coincident)
                  = SumFunctionOnSet([t \in Minutes(curve) |-> LoadOf(curve, t) * EnergyRate(tariff, season, WindowAt(tariff, t))], Minutes(curve))
                      + DemandCost(curve, tariff, season, days, historical, coincident) + tariff.fixed
             /\ Bill(curve, tariff, month, days, historical, coincident) \in Nat
<1> DEFINE season == SeasonOf(tariff, month)
           energy == EnergyByWindow(curve, tariff)
           f == [w \in DOMAIN energy |-> energy[w] * EnergyRate(tariff, season, w)]
           g == [t \in Minutes(curve) |-> LoadOf(curve, t) * EnergyRate(tariff, season, WindowAt(tariff, t))]
           demand == DemandCost(curve, tariff, season, days, historical, coincident)
<1>1. MapThenSumSet(LAMBDA w : energy[w] * EnergyRate(tariff, season, w), DOMAIN energy) = SumFunctionOnSet(f, DOMAIN energy)
  <2> HIDE DEF energy, season
  <2> QED BY ZenonT(60) DEF MapThenSumSet, MapThenFoldSet, SumFunctionOnSet, FoldFunctionOnSet
<1>2. SumFunctionOnSet(f, DOMAIN energy) = SumFunctionOnSet(g, Minutes(curve)) /\ SumFunctionOnSet(f, DOMAIN energy) \in Nat
  BY EnergyAddsUp
<1>3. demand \in Nat
  BY DemandIsNatural
<1>4. ~ \E w \in DOMAIN energy : EnergyRate(tariff, season, w) = None
  BY BillingAssumption
<1>5. ~ (/\ ~tariff.demandFree /\ coincident = None
         /\ \E i \in InSeason(tariff, season) : tariff.demand[i].basis = "CP")
  OBVIOUS
<1>6. Bill(curve, tariff, month, days, historical, coincident) = SumFunctionOnSet(f, DOMAIN energy) + demand + tariff.fixed
  <2> HIDE DEF f
  <2> QED BY <1>1, <1>4, <1>5, Zenon DEF Bill, InSeason
<1> HIDE DEF f, g, demand, energy, season
<1> QED BY <1>2, <1>3, <1>6 DEF g, demand, energy, season

(* A rising ladder is a ladder. *)
LEMMA RisingIsLadder == ASSUME NEW tiers, IsRising(tiers) PROVE IsLadder(tiers)
BY DEF IsRising, IsLadder

(* The demand charge, each component unit by unit up its ladder. *)
LEMMA DemandAddsUp ==
  ASSUME NEW q, IsCurve(q.curve), AreMetered(q.tariff), q.days \in Nat, q.historical \in Nat,
         \A i \in DOMAIN q.tariff.demand : IsRising(q.tariff.demand[i].tiers)
  PROVE  DemandByUnit(q) = DemandCost(q.curve, q.tariff, SeasonOf(q.tariff, q.month), q.days, q.historical, q.coincident)
<1> DEFINE tariff == q.tariff
           season == SeasonOf(tariff, q.month)
           D == InSeason(tariff, season)
           Charged(c) == UnitByUnit(c.tiers, Billed(q.curve, c, tariff, q.historical, q.coincident)) * (IF c.period = "day" THEN q.days ELSE 1)
           f == [i \in D |-> Charged(tariff.demand[i])]
           g == [i \in D |-> ComponentBill(q.curve, tariff.demand[i], tariff, q.days, q.historical, q.coincident)]
           on == {i \in DOMAIN q.tariff.demand : q.tariff.demand[i].season \in {"all", season} \cup (IF season = "summer" THEN {"summer_peak"} ELSE {})}
<1>1. on = D
  BY DEF InSeason, SeasonApplies
<1>2. MapThenSumSet(LAMBDA i : Charged(tariff.demand[i]), on) = SumFunctionOnSet(f, D)
  <2>1. MapThenSumSet(LAMBDA i : Charged(tariff.demand[i]), D) = SumFunctionOnSet(f, D)
    <3> HIDE DEF D, Charged, tariff
    <3> QED BY ZenonT(60) DEF MapThenSumSet, MapThenFoldSet, SumFunctionOnSet, FoldFunctionOnSet
  <2> QED BY <1>1, <2>1
<1>3. DemandByUnit(q) = IF tariff.demandFree THEN 0 ELSE SumFunctionOnSet(f, D)
  <2> HIDE DEF f
  <2> QED BY <1>2, Zenon DEF DemandByUnit
<1>4. DemandCost(q.curve, tariff, season, q.days, q.historical, q.coincident)
        = IF tariff.demandFree THEN 0 ELSE SumFunctionOnSet(g, D)
  BY DemandIsSum
<1>5. f = g
  <2>1. ASSUME NEW i \in D
        PROVE  Charged(tariff.demand[i]) = ComponentBill(q.curve, tariff.demand[i], tariff, q.days, q.historical, q.coincident)
    <3> DEFINE c == tariff.demand[i]
               billed == Billed(q.curve, c, tariff, q.historical, q.coincident)
    <3>1. IsMetered(c) /\ IsRising(c.tiers) /\ (tariff.ratchet = None \/ tariff.ratchet \in Nat)
      BY DEF InSeason, AreMetered
    <3>2. billed \in Nat
      BY <3>1, BilledIsNatural
    <3>3. Price(c.tiers, billed) = UnitByUnit(c.tiers, billed)
      <4> HIDE DEF c, billed
      <4> QED BY <3>1, <3>2, PriceIsUnitByUnit
    <3> QED BY <3>3 DEF ComponentBill
  <2> HIDE DEF Charged
  <2> QED BY <2>1
<1> HIDE DEF f, g, D, season, tariff
<1> QED BY <1>3, <1>4, <1>5 DEF season, tariff

-----------------------------------------------------------------------------
(* The rate of a window is the first declared one of those that are for it. *)
Declared(tariff, season, w) ==
  {i \in 1..Len(tariff.energy) : SeasonApplies(tariff.energy[i].season, season) /\ tariff.energy[i].window = w}
LEMMA FirstDeclaredRate ==
  ASSUME NEW tariff, NEW season, NEW w
  PROVE  /\ Declared(tariff, season, w) = {} => RateOf(tariff, season, w) = None
         /\ \A k \in Nat \ {0} : Declared(tariff, season, w) = {k} => RateOf(tariff, season, w) = tariff.energy[k].rate
<1> DEFINE I == Declared(tariff, season, w)
           first == IF I # {} THEN Min(I) ELSE 0
<1>1. SelectInSeq(tariff.energy, LAMBDA e : SeasonApplies(e.season, season) /\ e.window = w) = first
  BY Zenon DEF SelectInSeq, Declared
<1>2. RateOf(tariff, season, w) = IF first = 0 THEN None ELSE tariff.energy[first].rate
  BY <1>1 DEF RateOf
<1> HIDE DEF I
<1>3. I = {} => first = 0
  OBVIOUS
<1>4. ASSUME NEW k \in Nat \ {0}, I = {k} PROVE first = k
  <2>1. Min({k}) = k
    BY DEF Min
  <2> QED BY <1>4, <2>1
<1> HIDE DEF first
<1> QED BY <1>2, <1>3, <1>4 DEF I

(* The tariffs of the grid, by their parts. *)
LEMMA FlatTariffsAre ==
  ASSUME NEW t, t \in {PlainTariff, [PlainTariff EXCEPT !.demandFree = TRUE], BlockTariff}
  PROVE  /\ t.windows = <<>> /\ t.fixed = 7 /\ t.energy = <<[season |-> "all", window |-> None, rate |-> 2]>>
         /\ t.ratchet \in {None, 95}
         /\ t.demand = <<[basis |-> "NCP", interval |-> 4, tiers |-> <<Tier(24, 3), Tier(None, 5)>>, window |-> None,
                          season |-> "all", period |-> "month"]>>
         /\ t.blocks = None \/ t = BlockTariff
<1> DEFINE p == PlainTariff
<1>1. /\ p.windows = <<>> /\ p.fixed = 7 /\ p.energy = <<[season |-> "all", window |-> None, rate |-> 2]>>
      /\ p.ratchet = None /\ p.blocks = None
      /\ p.demand = <<[basis |-> "NCP", interval |-> 4, tiers |-> <<Tier(24, 3), Tier(None, 5)>>, window |-> None,
                       season |-> "all", period |-> "month"]>>
  BY DEF PlainTariff, Component, Flat
<1>2. DOMAIN p = {"windows", "summer", "winter", "energy", "ratchet", "blocks", "fixed", "demandFree", "demand"}
  BY DEF PlainTariff
<1>3. CASE t = PlainTariff
  BY <1>1, <1>3
<1>4. CASE t = [PlainTariff EXCEPT !.demandFree = TRUE]
  <2>1. t = [p EXCEPT !.demandFree = TRUE]
    BY <1>4
  <2> HIDE DEF p
  <2>2. /\ t.windows = p.windows /\ t.fixed = p.fixed /\ t.energy = p.energy /\ t.ratchet = p.ratchet
        /\ t.blocks = p.blocks /\ t.demand = p.demand
    BY <1>2, <2>1
  <2> QED BY <1>1, <2>2
<1>5. CASE t = BlockTariff
  <2>1. PICK b : t = [p EXCEPT !.ratchet = 95, !.blocks = b]
    BY <1>5 DEF BlockTariff
  <2> HIDE DEF p
  <2>2. t.windows = p.windows /\ t.fixed = p.fixed /\ t.energy = p.energy /\ t.ratchet = 95 /\ t.demand = p.demand
    BY <1>2, <2>1
  <2> QED BY <1>1, <1>5, <2>2
<1> QED BY <1>3, <1>4, <1>5

(* And of the one by time of use. *)
LEMMA TouTariffIs ==
  /\ TouTariff.windows = OnOff /\ TouTariff.fixed = 7 /\ TouTariff.ratchet = 80 /\ TouTariff.blocks = None
  /\ TouTariff.summer = {6, 7, 8, 9} /\ TouTariff.winter = {12, 1, 2, 3} /\ TouTariff.demandFree = FALSE
  /\ TouTariff.energy = <<[season |-> "summer", window |-> "on", rate |-> 3], [season |-> "summer", window |-> "off", rate |-> 1],
                          [season |-> "winter", window |-> None, rate |-> 2]>>
  /\ TouTariff.demand = <<Component("TOU", 2, <<Tier(None, 4)>>, "on", "summer", "day"),
                          Component("NCP", 4, <<Tier(12, 5), Tier(36, 1), Tier(None, 0)>>, None, "all", "month"),
                          Component("CP", 2, <<Tier(None, 1)>>, None, "summer_peak", "month")>>
BY DEF TouTariff, PlainTariff

(* Their ladders rise, and their components are numbers of a meter. *)
LEMMA GridLadders ==
  /\ IsRising(<<Tier(24, 3), Tier(None, 5)>>)
  /\ IsRising(<<Tier(None, 4)>>)
  /\ IsRising(<<Tier(12, 5), Tier(36, 1), Tier(None, 0)>>)
  /\ IsRising(<<Tier(None, 1)>>)
<1>1. \A u, r : Tier(u, r).upto = u /\ Tier(u, r).rate = r
  BY DEF Tier
<1>2. ASSUME NEW r \in Nat PROVE IsRising(<<Tier(None, r)>>)
  <2> DEFINE s == <<Tier(None, r)>>
  <2>1. DOMAIN s = 1..1 /\ s[1].upto = None /\ s[1].rate = r
    BY <1>1
  <2> HIDE DEF s
  <2>2. /\ 1 \in Nat \ {0} /\ \A i \in 1..1 : s[i].rate \in Nat /\ 1..(1 - 1) = {}
    BY <2>1
  <2>3. IsRising(s)
    BY <2>1, <2>2 DEF IsRising
  <2> QED BY <2>3 DEF s
<1>3. IsRising(<<Tier(24, 3), Tier(None, 5)>>)
  <2> DEFINE s == <<Tier(24, 3), Tier(None, 5)>>
  <2>1. DOMAIN s = 1..2 /\ s[1].upto = 24 /\ s[1].rate = 3 /\ s[2].upto = None /\ s[2].rate = 5
    BY <1>1
  <2> HIDE DEF s
  <2>2. 2 \in Nat \ {0} /\ (\A i \in 1..2 : s[i].rate \in Nat) /\ 1..(2 - 1) = {1}
    BY <2>1
  <2>3. IsRising(s)
    BY <2>1, <2>2 DEF IsRising
  <2> QED BY <2>3 DEF s
<1>4. IsRising(<<Tier(12, 5), Tier(36, 1), Tier(None, 0)>>)
  <2> DEFINE s == <<Tier(12, 5), Tier(36, 1), Tier(None, 0)>>
  <2>1. /\ DOMAIN s = 1..3 /\ s[1].upto = 12 /\ s[1].rate = 5 /\ s[2].upto = 36 /\ s[2].rate = 1
        /\ s[3].upto = None /\ s[3].rate = 0
    BY <1>1
  <2> HIDE DEF s
  <2>2. 3 \in Nat \ {0} /\ (\A i \in 1..3 : s[i].rate \in Nat) /\ 1..(3 - 1) = {1, 2}
    BY <2>1
  <2>3. (\A i \in {1, 2} : s[i].upto \in Nat) /\ \A i, j \in {1, 2} : i <= j => s[i].upto <= s[j].upto
    BY <2>1
  <2>4. IsRising(s)
    BY <2>1, <2>2, <2>3 DEF IsRising
  <2> QED BY <2>4 DEF s
<1> QED BY <1>2, <1>3, <1>4

(* Each of them has a meter, and ladders that rise. *)
GridTariffs == {PlainTariff, [PlainTariff EXCEPT !.demandFree = TRUE], TouTariff, BlockTariff}
LEMMA GridIsMetered ==
  ASSUME NEW t \in GridTariffs
  PROVE  /\ AreMetered(t) /\ t.fixed \in Nat /\ (t.ratchet = None \/ t.ratchet \in 0..100)
         /\ \A i \in DOMAIN t.demand : IsRising(t.demand[i].tiers)
<1>1. ASSUME NEW c, c.interval \in Nat \ {0}, IsRising(c.tiers) PROVE IsMetered(c)
  BY <1>1, RisingIsLadder DEF IsMetered
<1>2. CASE t = TouTariff
  <2>1. /\ DOMAIN t.demand = 1..3
        /\ t.demand[1].interval = 2 /\ t.demand[1].tiers = <<Tier(None, 4)>>
        /\ t.demand[2].interval = 4 /\ t.demand[2].tiers = <<Tier(12, 5), Tier(36, 1), Tier(None, 0)>>
        /\ t.demand[3].interval = 2 /\ t.demand[3].tiers = <<Tier(None, 1)>>
    BY <1>2, TouTariffIs DEF Component
  <2>2. t.fixed = 7 /\ t.ratchet = 80
    BY <1>2, TouTariffIs
  <2>3. \A i \in 1..3 : t.demand[i].interval \in Nat \ {0} /\ IsRising(t.demand[i].tiers)
    BY <2>1, GridLadders
  <2> QED BY <1>1, <2>1, <2>2, <2>3 DEF AreMetered
<1>3. CASE t # TouTariff
  <2>1. t \in {PlainTariff, [PlainTariff EXCEPT !.demandFree = TRUE], BlockTariff}
    BY <1>3 DEF GridTariffs
  <2>2. /\ DOMAIN t.demand = 1..1 /\ t.demand[1].interval = 4 /\ t.demand[1].tiers = <<Tier(24, 3), Tier(None, 5)>>
        /\ t.fixed = 7 /\ t.ratchet \in {None, 95}
    BY <2>1, FlatTariffsAre
  <2>3. \A i \in 1..1 : t.demand[i].interval \in Nat \ {0} /\ IsRising(t.demand[i].tiers)
    BY <2>2, GridLadders
  <2>4. t.ratchet = None \/ (t.ratchet \in Nat /\ t.ratchet \in 0..100)
    BY <2>2
  <2> QED BY <1>1, <2>2, <2>3, <2>4 DEF AreMetered
<1> QED BY <1>2, <1>3

(* A number below another is what is left of it in the division. *)
LEMMA RemainderOfLess == ASSUME NEW d \in Nat \ {0}, NEW a \in Nat, a < d PROVE a % d = a
OBVIOUS

(* The windows of the grid: the second is all that the first is not. *)
LEMMA GridWindows ==
  ASSUME NEW t \in Nat
  PROVE  LET m == t % DayMinutes
         IN  /\ m \in Nat
             /\ m \in CyclicMinutes(OnOff[1]) <=> m \in 2..4
             /\ WindowAt(TouTariff, t) = IF m \in 2..4 THEN "on" ELSE "off"
<1> DEFINE m == t % DayMinutes
           w == TouTariff.windows
<1>1. DayMinutes \in Nat \ {0} /\ DayMinutes > 5
  BY BillingAssumption, GridAssumption
<1>2. m \in Nat /\ m < DayMinutes
  BY <1>1
<1>3. /\ OnOff[1].ranges = {<<2, 5>>} /\ OnOff[1].name = "on" /\ OnOff[2].ranges = {<<5, 2>>} /\ OnOff[2].name = "off"
      /\ DOMAIN OnOff = {1, 2}
  BY DEF OnOff
<1>4. w = OnOff
  BY TouTariffIs
<1>5. CyclicMinutes(OnOff[1]) = 2..4
  <2>1. (5 - 2) % DayMinutes = 3
    BY <1>1, RemainderOfLess
  <2>2. \A i \in 0..2 : (2 + i) % DayMinutes = 2 + i
    <3> TAKE i \in 0..2
    <3>1. 2 + i \in Nat /\ 2 + i < DayMinutes
      BY <1>1
    <3> QED BY <1>1, <3>1, RemainderOfLess
  <2>3. {(2 + i) % DayMinutes : i \in 0..2} = 2..4
    <3>1. {(2 + i) % DayMinutes : i \in 0..2} = {2 + i : i \in 0..2}
      BY <2>2
    <3>2. {2 + i : i \in 0..2} = 2..4
      <4>1. \A x \in 2..4 : x - 2 \in 0..2 /\ x = 2 + (x - 2)
        OBVIOUS
      <4>2. \A i \in 0..2 : 2 + i \in 2..4
        OBVIOUS
      <4> QED BY <4>1, <4>2
    <3> QED BY <3>1, <3>2
  <2>4. CyclicMinutes(OnOff[1])
          = UNION {{(r[1] + i) % DayMinutes : i \in 0..(((r[2] - r[1]) % DayMinutes) - 1)} : r \in {<<2, 5>>}}
    BY <1>3 DEF CyclicMinutes
  <2>5. UNION {{(r[1] + i) % DayMinutes : i \in 0..(((r[2] - r[1]) % DayMinutes) - 1)} : r \in {<<2, 5>>}}
          = {(2 + i) % DayMinutes : i \in 0..(((5 - 2) % DayMinutes) - 1)}
    OBVIOUS
  <2>6. 0..(((5 - 2) % DayMinutes) - 1) = 0..2
    BY <2>1
  <2> QED BY <2>3, <2>4, <2>5, <2>6
<1>6. Contains24(OnOff[1], t) <=> m \in 2..4
  <2>1. Contains24(OnOff[1], t) <=> (2 <= m /\ m < 5)
    BY <1>3 DEF Contains24
  <2> HIDE DEF m
  <2> QED BY <1>2, <2>1
<1>7. Contains24(OnOff[2], t) <=> m \notin 2..4
  <2>1. Contains24(OnOff[2], t) <=> (m >= 5 \/ m < 2)
    BY <1>3 DEF Contains24
  <2> HIDE DEF m
  <2> QED BY <1>2, <2>1
<1> DEFINE held == {i \in DOMAIN w : Contains24(w[i], t)}
<1>8. held = IF m \in 2..4 THEN {1} ELSE {2}
  <2> HIDE DEF m, w
  <2> QED BY <1>3, <1>4, <1>6, <1>7
<1>9. Min({1}) = 1 /\ Min({2}) = 2
  BY DEF Min
<1>10. WindowAt(TouTariff, t) = IF held = {} THEN "all" ELSE w[Min(held)].name
  BY DEF WindowAt
<1> HIDE DEF held, m, w
<1>11. WindowAt(TouTariff, t) = IF m \in 2..4 THEN "on" ELSE "off"
  BY <1>3, <1>4, <1>8, <1>9, <1>10
<1> QED BY <1>2, <1>5, <1>11 DEF m

(* The rates of the grid's tariff with windows, in each season. *)
TouRate(season, w) == CASE season = "summer" /\ w = "on" -> 3 [] season = "summer" /\ w = "off" -> 1 [] season = "winter" -> 2
LEMMA TouRates ==
  ASSUME NEW season \in {"summer", "winter", "transition"}, NEW w \in {"on", "off"}
  PROVE  EnergyRate(TouTariff, season, w) = IF season = "transition" THEN None ELSE TouRate(season, w)
<1> DEFINE es == TouTariff.energy
<1>1. /\ Len(es) = 3 /\ es[1].season = "summer" /\ es[2].season = "summer" /\ es[3].season = "winter"
      /\ es[1].window = "on" /\ es[2].window = "off" /\ es[3].window = None
      /\ es[1].rate = 3 /\ es[2].rate = 1 /\ es[3].rate = 2
  BY TouTariffIs
<1>2. None # "on" /\ None # "off" /\ None # 3 /\ None # 2 /\ None # 1
  BY GridAssumption, BillingAssumption
<1> HIDE DEF es
<1>3. 1..3 = {1, 2, 3}
  OBVIOUS
<1>4. \A v : Declared(TouTariff, season, v) = {i \in {1, 2, 3} : es[i].season = season /\ es[i].window = v}
  <2>1. \A i \in {1, 2, 3} : SeasonApplies(es[i].season, season) <=> es[i].season = season
    BY <1>1 DEF SeasonApplies
  <2> QED BY <1>1, <1>3, <2>1 DEF Declared, es
<1>5. CASE season = "summer" /\ w = "on"
  <2>1. Declared(TouTariff, season, w) = {1}
    BY <1>1, <1>2, <1>4, <1>5
  <2>2. RateOf(TouTariff, season, w) = 3
    BY <1>1, <2>1, FirstDeclaredRate DEF es
  <2> QED BY <1>2, <1>5, <2>2 DEF EnergyRate, TouRate
<1>6. CASE season = "summer" /\ w = "off"
  <2>1. Declared(TouTariff, season, w) = {2}
    BY <1>1, <1>2, <1>4, <1>6
  <2>2. RateOf(TouTariff, season, w) = 1
    BY <1>1, <2>1, FirstDeclaredRate DEF es
  <2> QED BY <1>2, <1>6, <2>2 DEF EnergyRate, TouRate
<1>7. CASE season = "winter"
  <2>1. Declared(TouTariff, season, w) = {} /\ Declared(TouTariff, season, None) = {3}
    BY <1>1, <1>2, <1>4, <1>7
  <2>2. RateOf(TouTariff, season, w) = None /\ RateOf(TouTariff, season, None) = 2
    BY <1>1, <2>1, FirstDeclaredRate DEF es
  <2> QED BY <1>2, <1>7, <2>2 DEF EnergyRate, TouRate
<1>8. CASE season = "transition"
  <2>1. Declared(TouTariff, season, w) = {} /\ Declared(TouTariff, season, None) = {}
    BY <1>1, <1>2, <1>4, <1>8
  <2>2. RateOf(TouTariff, season, w) = None /\ RateOf(TouTariff, season, None) = None
    BY <2>1, FirstDeclaredRate
  <2> QED BY <1>8, <2>2 DEF EnergyRate
<1> QED BY <1>5, <1>6, <1>7, <1>8

(* The minute's rate as the property finds it: the one rate there is for the minute. *)
LEMMA MinuteRateIs ==
  ASSUME NEW q, q.tariff \in GridTariffs, NEW t \in Nat, NEW season, season = SeasonOf(q.tariff, q.month),
         EnergyRate(q.tariff, season, WindowAt(q.tariff, t)) # None
  PROVE  /\ EnergyRate(q.tariff, season, WindowAt(q.tariff, t)) = MinuteRate(q, t)
         /\ EnergyRate(q.tariff, season, WindowAt(q.tariff, t)) \in Nat
<1> DEFINE tariff == q.tariff
           w == IF tariff.windows = <<>> THEN "all" ELSE IF t % DayMinutes \in CyclicMinutes(tariff.windows[1]) THEN "on" ELSE "off"
           rates == {e \in ToSet(tariff.energy) : e.window \in {None, w} /\ e.season \in {"all", SeasonOf(tariff, q.month)}}
<1>1. MinuteRate(q, t) = (CHOOSE e \in rates : TRUE).rate
  BY DEF MinuteRate
<1>2. season \in {"summer", "winter", "transition"}
  BY DEF SeasonOf
<1>3. CASE tariff = TouTariff
  <2> DEFINE on == t % DayMinutes \in 2..4
  <2>1. tariff.windows = OnOff /\ OnOff # <<>>
    BY <1>3, TouTariffIs DEF OnOff
  <2>2. w = (IF on THEN "on" ELSE "off") /\ WindowAt(tariff, t) = w
    BY <1>3, <2>1, GridWindows
  <2>3. EnergyRate(tariff, season, w) = (IF season = "transition" THEN None ELSE TouRate(season, w)) /\ w \in {"on", "off"}
    BY <1>2, <1>3, <2>2, TouRates
  <2>4. season \in {"summer", "winter"} /\ EnergyRate(tariff, season, w) = TouRate(season, w)
    BY <1>2, <2>2, <2>3
  <2> DEFINE e1 == [season |-> "summer", window |-> "on", rate |-> 3]
             e2 == [season |-> "summer", window |-> "off", rate |-> 1]
             e3 == [season |-> "winter", window |-> None, rate |-> 2]
  <2>5. ToSet(tariff.energy) = {e1, e2, e3}
    <3> DEFINE es == <<e1, e2, e3>>
    <3>1. tariff.energy = es /\ DOMAIN es = {1, 2, 3} /\ es[1] = e1 /\ es[2] = e2 /\ es[3] = e3
      BY <1>3, TouTariffIs
    <3> HIDE DEF es, e1, e2, e3
    <3>2. ToSet(es) = {es[i] : i \in DOMAIN es}
      BY DEF ToSet
    <3> QED BY <3>1, <3>2
  <2>6. /\ e1.season = "summer" /\ e1.window = "on" /\ e1.rate = 3 /\ e2.season = "summer" /\ e2.window = "off" /\ e2.rate = 1
        /\ e3.season = "winter" /\ e3.window = None /\ e3.rate = 2
    OBVIOUS
  <2>7. None # "on" /\ None # "off"
    BY GridAssumption
  <2>8. rates = {e \in {e1, e2, e3} : e.window \in {None, w} /\ e.season \in {"all", season}}
    BY <2>5
  <2> HIDE DEF e1, e2, e3, rates, w, tariff, on
  <2>9. rates = IF season = "winter" THEN {e3} ELSE IF w = "on" THEN {e1} ELSE {e2}
    BY <2>3, <2>4, <2>6, <2>7, <2>8
  <2>10. (CHOOSE e \in rates : TRUE).rate = TouRate(season, w) /\ TouRate(season, w) \in Nat
    <3>1. CASE season = "winter"
      <4>1. (CHOOSE e \in rates : TRUE) = e3
        BY <2>9, <3>1
      <4> QED BY <2>6, <3>1, <4>1 DEF TouRate
    <3>2. CASE season = "summer" /\ w = "on"
      <4>1. (CHOOSE e \in rates : TRUE) = e1
        BY <2>9, <3>2
      <4> QED BY <2>6, <3>2, <4>1 DEF TouRate
    <3>3. CASE season = "summer" /\ w = "off"
      <4>1. (CHOOSE e \in rates : TRUE) = e2
        BY <2>9, <3>3
      <4> QED BY <2>6, <3>3, <4>1 DEF TouRate
    <3> QED BY <2>3, <2>4, <3>1, <3>2, <3>3
  <2>11. EnergyRate(q.tariff, season, WindowAt(q.tariff, t)) = TouRate(season, w)
    BY <2>2, <2>4 DEF tariff
  <2> QED BY <1>1, <2>10, <2>11
<1>4. CASE tariff # TouTariff
  <2> DEFINE flat == [season |-> "all", window |-> None, rate |-> 2]
  <2>1. tariff.windows = <<>> /\ tariff.energy = <<flat>>
    BY <1>4, FlatTariffsAre DEF GridTariffs
  <2>2. w = "all" /\ ToSet(tariff.energy) = {flat}
    <3> DEFINE es == <<flat>>
    <3>1. DOMAIN es = {1} /\ es[1] = flat
      OBVIOUS
    <3> HIDE DEF es, flat
    <3>2. ToSet(es) = {flat}
      BY <3>1 DEF ToSet
    <3>3. w = "all"
      BY <2>1
    <3> QED BY <2>1, <3>2, <3>3 DEF es
  <2>3. flat.season = "all" /\ flat.window = None /\ flat.rate = 2
    OBVIOUS
  <2>4. 2 # None
    BY BillingAssumption
  <2>5. WindowAt(tariff, t) = "all"
    <3>1. DOMAIN tariff.windows = {}
      BY <2>1
    <3> QED BY <3>1 DEF WindowAt
  <2>6. EnergyRate(tariff, season, "all") = 2
    <3> HIDE DEF tariff, w
    <3> QED BY <2>1, <2>4, RateOfPlainTariff
  <2> HIDE DEF flat, w
  <2>7. rates = {flat}
    BY <2>2, <2>3
  <2> HIDE DEF rates
  <2>8. (CHOOSE e \in rates : TRUE) = flat
    BY <2>7
  <2>9. EnergyRate(q.tariff, season, WindowAt(q.tariff, t)) = 2
    BY <2>5, <2>6
  <2> DEFINE found == CHOOSE e \in rates : TRUE
  <2>10. MinuteRate(q, t) = found.rate /\ found = flat
    BY <1>1, <2>8
  <2> HIDE DEF found, tariff
  <2>11. MinuteRate(q, t) = 2
    BY <2>3, <2>10
  <2> QED BY <2>9, <2>11
<1> QED BY <1>3, <1>4

-----------------------------------------------------------------------------
(* The blocks of hours-use, and what they cost: a number. *)
AreBlocks(blocks) ==
  /\ blocks.baseMinutes \in Nat /\ blocks.minFixed \in Nat /\ blocks.minPerKw \in Nat
  /\ IsLadder(blocks.first)
  /\ \E n \in Nat : DOMAIN blocks.tail = 1..n
  /\ \A i \in DOMAIN blocks.tail :
       /\ blocks.tail[i].rate \in Nat
       /\ \/ blocks.tail[i].upto = None
          \/ blocks.tail[i].upto \in Nat /\ blocks.tail[i].upto >= blocks.baseMinutes
LEMMA BlocksAreNatural ==
  ASSUME NEW blocks, AreBlocks(blocks), NEW energy \in Nat, NEW billed \in Nat
  PROVE  BlockCost(blocks, energy, billed) \in Nat
<1> DEFINE base == blocks.baseMinutes * billed
           Hours(i) == IF i = 0 THEN blocks.baseMinutes ELSE blocks.tail[i].upto
           Ladder == [i \in DOMAIN blocks.tail |->
                        [upto |-> IF blocks.tail[i].upto = None THEN None ELSE (Hours(i) - blocks.baseMinutes) * billed,
                         rate |-> blocks.tail[i].rate]]
           low == Min({energy, base})
           high == Max({0, energy - base})
<1>1. base \in Nat
  BY TimesIsMonotone DEF AreBlocks
<1> HIDE DEF base
<1>2. low \in Nat
  BY <1>1, MinOfTwo
<1>3. high \in Nat
  <2>1. energy - base \in Int
    BY <1>1
  <2> QED BY <2>1, MaxWithZero
<1>4. IsLadder(Ladder)
  <2>1. ASSUME NEW i \in DOMAIN blocks.tail, blocks.tail[i].upto # None
        PROVE  (Hours(i) - blocks.baseMinutes) * billed \in Nat
    <3>1. i # 0
      BY DEF AreBlocks
    <3>2. Hours(i) - blocks.baseMinutes \in Nat
      BY <2>1, <3>1 DEF AreBlocks
    <3> HIDE DEF Hours
    <3> QED BY <3>2, TimesIsMonotone
  <2>2. \A i \in DOMAIN blocks.tail : /\ Ladder[i].rate = blocks.tail[i].rate
                                      /\ Ladder[i].upto = IF blocks.tail[i].upto = None THEN None
                                                          ELSE (Hours(i) - blocks.baseMinutes) * billed
    OBVIOUS
  <2>3. DOMAIN Ladder = DOMAIN blocks.tail
    OBVIOUS
  <2> HIDE DEF Ladder, Hours
  <2> QED BY <2>1, <2>2, <2>3 DEF IsLadder, AreBlocks
<1>5. BlockCost(blocks, energy, billed) = Price(blocks.first, low) + Price(Ladder, high)
  BY DEF BlockCost, base
<1> HIDE DEF Ladder, low, high
<1>6. Price(blocks.first, low) \in Nat /\ Price(Ladder, high) \in Nat
  BY <1>2, <1>3, <1>4, PriceIsNatural DEF AreBlocks
<1> QED BY <1>5, <1>6

(* The greater of two numbers is one of them. *)
LEMMA MaxOfTwo == ASSUME NEW a \in Nat, NEW b \in Nat PROVE Max({a, b}) \in Nat
<1>1. {a, b} = {a} \cup {b} /\ IsFiniteSet({a})
  BY FS_Singleton
<1>2. IsFiniteSet({a} \cup {b})
  BY <1>1, FS_AddElement
<1>3. Max({a, b}) \in {a, b}
  BY <1>1, <1>2, MaxIsGreatest
<1> QED BY <1>3

(* What hours-use bills is a number. *)
LEMMA HoursUseIsNatural ==
  ASSUME NEW curve, IsCurve(curve), NEW tariff, AreMetered(tariff), tariff.demand # <<>> => 1 \in DOMAIN tariff.demand,
         AreBlocks(tariff.blocks), NEW days \in Nat, NEW historical \in Nat
  PROVE  HoursUseBill(curve, tariff, days, historical) \in Nat
<1> DEFINE interval == IF tariff.demand = <<>> THEN 30 ELSE tariff.demand[1].interval
           peak == PeakReading(curve, interval, 0..CurveEnd(curve))
           floor == RatchetFloor(tariff, historical)
           billed == Max({peak, floor})
           total == EnergyIn(curve, 0, CurveEnd(curve))
           energy == Scale * days * total
           cost == BlockCost(tariff.blocks, energy, billed)
           least == tariff.blocks.minFixed + tariff.blocks.minPerKw * billed
<1>1. interval \in Nat \ {0}
  BY DEF AreMetered, IsMetered
<1>2. peak \in Nat
  <2> HIDE DEF interval
  <2> QED BY <1>1, PeakIsNatural
<1>3. floor \in Nat
  <2>1. CASE tariff.ratchet = None
    BY <2>1 DEF RatchetFloor
  <2>2. CASE tariff.ratchet # None
    <3>1. tariff.ratchet * historical * Scale \in Nat
      BY <2>2, BillingAssumption, TimesIsMonotone DEF AreMetered
    <3> QED BY <2>2, <3>1 DEF RatchetFloor
  <2> QED BY <2>1, <2>2
<1>4. billed \in Nat
  <2> HIDE DEF peak, floor
  <2> QED BY <1>2, <1>3, MaxOfTwo
<1>5. total \in Nat
  <2> DEFINE T == 0..(CurveEnd(curve) - 1)
  <2>1. IsFiniteSet(T)
    <3>1. CurveEnd(curve) \in Nat
      BY PointsOfCurve DEF IsCurve, CurveEnd
    <3> QED BY <3>1, FS_Interval
  <2>2. total = LoadsOver(curve, T)
    BY ZenonT(60) DEF EnergyIn, LoadsOver, MapThenSumSet, MapThenFoldSet, SumFunctionOnSet, FoldFunctionOnSet
  <2> HIDE DEF T, total
  <2> QED BY <2>1, <2>2, EnergyIsNatural
<1> HIDE DEF billed, total
<1>6. energy \in Nat
  BY <1>5, BillingAssumption, TimesIsMonotone
<1> HIDE DEF energy
<1>7. cost \in Nat /\ least \in Nat
  <2> DEFINE blocks == tariff.blocks
  <2> HIDE DEF blocks
  <2>1. AreBlocks(blocks)
    BY DEF blocks
  <2>2. BlockCost(blocks, energy, billed) \in Nat
    BY <1>4, <1>6, <2>1, BlocksAreNatural
  <2>3. blocks.minFixed + blocks.minPerKw * billed \in Nat
    <3>1. blocks.minPerKw * billed \in Nat /\ blocks.minFixed \in Nat
      BY <1>4, <2>1, TimesIsMonotone DEF AreBlocks
    <3> QED BY <3>1
  <2> QED BY <2>2, <2>3 DEF blocks
<1>8. HoursUseBill(curve, tariff, days, historical) = Max({cost, least})
  BY DEF HoursUseBill, billed, energy, total
<1> HIDE DEF cost, least
<1> QED BY <1>7, <1>8, MaxOfTwo

(* The blocks of the grid are such blocks. *)
LEMMA BlockTariffIs == AreBlocks(BlockTariff.blocks) /\ 1 \in DOMAIN BlockTariff.demand
<1> DEFINE first == <<Tier(24, 4), Tier(None, 3)>>
           tail == <<Tier(5, 2), Tier(None, 1)>>
           b == [baseMinutes |-> 3, first |-> first, tail |-> tail, minFixed |-> 0, minPerKw |-> 10]
<1>1. BlockTariff.blocks = b
  <2> DEFINE p == PlainTariff
  <2>1. "blocks" \in DOMAIN p
    BY DEF PlainTariff
  <2>2. BlockTariff = [p EXCEPT !.ratchet = 95, !.blocks = b]
    BY DEF BlockTariff
  <2> HIDE DEF p, b
  <2> QED BY <2>1, <2>2
<1>2. /\ b.baseMinutes = 3 /\ b.first = first /\ b.tail = tail /\ b.minFixed = 0 /\ b.minPerKw = 10
  OBVIOUS
<1>3. /\ DOMAIN first = 1..2 /\ first[1].upto = 24 /\ first[1].rate = 4 /\ first[2].upto = None /\ first[2].rate = 3
      /\ DOMAIN tail = 1..2 /\ tail[1].upto = 5 /\ tail[1].rate = 2 /\ tail[2].upto = None /\ tail[2].rate = 1
  BY DEF Tier
<1>4. DOMAIN BlockTariff.demand = {1}
  BY FlatTariffsAre
<1> HIDE DEF first, tail, b
<1>5. IsLadder(first)
  BY <1>3 DEF IsLadder
<1>6. AreBlocks(b)
  <2>1. \A i \in 1..2 : /\ tail[i].rate \in Nat
                        /\ tail[i].upto = None \/ (tail[i].upto \in Nat /\ tail[i].upto >= 3)
    BY <1>3
  <2> QED BY <1>2, <1>3, <1>5, <2>1 DEF AreBlocks
<1> QED BY <1>1, <1>4, <1>6

(* In a season the tariff has rates for, every minute has one. *)
LEMMA MinutesHaveRates ==
  ASSUME NEW q, q.tariff \in GridTariffs, NEW t \in Nat, q.tariff # TouTariff \/ SeasonOf(q.tariff, q.month) # "transition"
  PROVE  EnergyRate(q.tariff, SeasonOf(q.tariff, q.month), WindowAt(q.tariff, t)) # None
<1> DEFINE tariff == q.tariff
           season == SeasonOf(tariff, q.month)
<1>1. season \in {"summer", "winter", "transition"}
  BY DEF SeasonOf
<1>2. CASE tariff = TouTariff
  <2>1. WindowAt(TouTariff, t) \in {"on", "off"}
    BY GridWindows
  <2> DEFINE w == WindowAt(TouTariff, t)
  <2> HIDE DEF w, season
  <2>2. EnergyRate(TouTariff, season, w) = TouRate(season, w) /\ season \in {"summer", "winter"} /\ w \in {"on", "off"}
    BY <1>1, <1>2, <2>1, TouRates DEF w, season
  <2>3. TouRate(season, w) \in Nat
    BY <2>2 DEF TouRate
  <2> QED BY <1>2, <2>2, <2>3, BillingAssumption DEF w, season
<1>3. CASE tariff # TouTariff
  <2>1. tariff.windows = <<>> /\ tariff.energy = <<[season |-> "all", window |-> None, rate |-> 2]>>
    BY <1>3, FlatTariffsAre DEF GridTariffs
  <2>2. 2 # None
    BY BillingAssumption
  <2>3. WindowAt(tariff, t) = "all"
    <3>1. DOMAIN tariff.windows = {}
      BY <2>1
    <3> QED BY <3>1 DEF WindowAt
  <2> HIDE DEF tariff, season
  <2>4. EnergyRate(tariff, season, "all") = 2
    BY <2>1, <2>2, RateOfPlainTariff
  <2>5. EnergyRate(tariff, season, WindowAt(tariff, t)) # None
    BY <2>2, <2>3, <2>4
  <2> QED BY <2>5 DEF tariff, season
<1> QED BY <1>2, <1>3

(* A question of the bill: a load that ends with its curve, and one of the tariffs. *)
IsBillQuestion(q) ==
  /\ IsCurve(q.curve) /\ IsOrdered(q.curve) /\ q.tariff \in GridTariffs /\ q.days \in Nat /\ q.historical \in Nat
MinuteByMinute(q) ==
  MapThenSumSet(LAMBDA t : LoadOf(q.curve, t) * MinuteRate(q, t), Minutes(q.curve)) + DemandByUnit(q) + q.tariff.fixed

(* Without blocks, when every minute has a rate and the meter its peaks, the bill is the sum minute by minute. *)
LEMMA BillIsMinuteByMinute ==
  ASSUME NEW q, IsBillQuestion(q), q.tariff.blocks = None,
         \A t \in Minutes(q.curve) : EnergyRate(q.tariff, SeasonOf(q.tariff, q.month), WindowAt(q.tariff, t)) # None,
         \/ q.tariff.demandFree
         \/ q.coincident # None
         \/ \A i \in InSeason(q.tariff, SeasonOf(q.tariff, q.month)) : q.tariff.demand[i].basis # "CP"
  PROVE  AnswerBill(q) = MinuteByMinute(q) /\ AnswerBill(q) \in Nat
<1> DEFINE tariff == q.tariff
           season == SeasonOf(tariff, q.month)
           T == Minutes(q.curve)
           f == [t \in T |-> LoadOf(q.curve, t) * EnergyRate(tariff, season, WindowAt(tariff, t))]
           g == [t \in T |-> LoadOf(q.curve, t) * MinuteRate(q, t)]
<1>1. IsCurve(q.curve) /\ AreMetered(tariff) /\ tariff.fixed \in Nat /\ q.days \in Nat /\ q.historical \in Nat
      /\ \A i \in DOMAIN tariff.demand : IsRising(tariff.demand[i].tiers)
  BY GridIsMetered DEF IsBillQuestion
<1>2. \A t \in T : /\ EnergyRate(tariff, season, WindowAt(tariff, t)) = MinuteRate(q, t)
                   /\ EnergyRate(tariff, season, WindowAt(tariff, t)) \in Nat
  <2> TAKE t \in T
  <2>1. t \in Nat
    BY <1>1, PointsOfCurve DEF Minutes, IsCurve, CurveEnd
  <2> QED BY <2>1, MinuteRateIs DEF IsBillQuestion
<1>3. f = g
  <2> HIDE DEF tariff, season, T
  <2> QED BY <1>2
<1>4. MapThenSumSet(LAMBDA t : LoadOf(q.curve, t) * MinuteRate(q, t), T) = SumFunctionOnSet(g, T)
  <2> HIDE DEF T
  <2> QED BY ZenonT(60) DEF MapThenSumSet, MapThenFoldSet, SumFunctionOnSet, FoldFunctionOnSet
<1>5. \A w \in DOMAIN EnergyByWindow(q.curve, tariff) : EnergyRate(tariff, season, w) \in Nat
  <2>1. DOMAIN EnergyByWindow(q.curve, tariff) = {WindowAt(tariff, t) : t \in T}
    BY DEF EnergyByWindow, Minutes
  <2> HIDE DEF tariff, season, T
  <2> QED BY <1>2, <2>1
<1>6. /\ AnswerBill(q) = SumFunctionOnSet(f, T) + DemandCost(q.curve, tariff, season, q.days, q.historical, q.coincident) + tariff.fixed
      /\ AnswerBill(q) \in Nat
  <2> DEFINE curve == q.curve
             month == q.month
             coincident == q.coincident
  <2>1. AnswerBill(q) = Bill(curve, tariff, month, q.days, q.historical, coincident)
    BY DEF AnswerBill
  <2> HIDE DEF curve, month, coincident, tariff
  <2>2. /\ IsCurve(curve) /\ tariff.blocks = None
        /\ \A w \in DOMAIN EnergyByWindow(curve, tariff) : EnergyRate(tariff, SeasonOf(tariff, month), w) \in Nat
        /\ \/ tariff.demandFree
           \/ coincident # None
           \/ \A i \in InSeason(tariff, SeasonOf(tariff, month)) : tariff.demand[i].basis # "CP"
    BY <1>1, <1>5 DEF curve, month, coincident, tariff
  <2>3. /\ Bill(curve, tariff, month, q.days, q.historical, coincident)
             = SumFunctionOnSet([t \in Minutes(curve) |-> LoadOf(curve, t) * EnergyRate(tariff, SeasonOf(tariff, month), WindowAt(tariff, t))], Minutes(curve))
                 + DemandCost(curve, tariff, SeasonOf(tariff, month), q.days, q.historical, coincident) + tariff.fixed
        /\ Bill(curve, tariff, month, q.days, q.historical, coincident) \in Nat
    BY <1>1, <2>2, BillIsSum
  <2> QED BY <2>1, <2>3 DEF curve, month, coincident
<1>7. DemandByUnit(q) = DemandCost(q.curve, tariff, season, q.days, q.historical, q.coincident)
  BY <1>1, DemandAddsUp
<1> HIDE DEF f, g, T
<1> QED BY <1>3, <1>4, <1>6, <1>7 DEF MinuteByMinute, T

(* tariff.py: whatever the load, the length of the day and the past peaks are, *)
(* each of the grid's tariffs bills each minute at the rate of its window and  *)
(* each component unit by unit up its ladder, for no more than the highest of  *)
(* the day and of the past; and a bill is missing only where a season has no   *)
(* rate or a meter no system peak.                                             *)
THEOREM BillsAddUp ==
  ASSUME IsAnswered("bill") => IsBillQuestion(question) /\ answer = AnswerBill(question)
  PROVE  BillAddsUp
<1> DEFINE q == question
           tariff == q.tariff
           season == SeasonOf(tariff, q.month)
           roof == Scale * Max({InstantPeak(q.curve), q.historical})
<1> SUFFICES ASSUME IsAnswered("bill")
             PROVE  /\ tariff.blocks = None /\ answer # None => answer = MinuteByMinute(q)
                    /\ answer = None => (tariff = TouTariff /\ (season = "transition" \/ q.coincident = None))
                    /\ \A i \in DOMAIN tariff.demand :
                         (tariff.demand[i].basis = "CP" => q.coincident # None) =>
                           Billed(q.curve, tariff.demand[i], tariff, q.historical, q.coincident) <= roof
  BY DEF BillAddsUp, MinuteByMinute, Minutes
<1>1. IsBillQuestion(q) /\ answer = AnswerBill(q)
  OBVIOUS
<1>2. /\ IsCurve(q.curve) /\ IsOrdered(q.curve) /\ q.historical \in Nat /\ q.days \in Nat /\ tariff \in GridTariffs
      /\ AreMetered(tariff) /\ (tariff.ratchet = None \/ tariff.ratchet \in 0..100)
  BY <1>1, GridIsMetered DEF IsBillQuestion
<1>3. Minutes(q.curve) \subseteq Nat
  BY <1>2, PointsOfCurve DEF Minutes, IsCurve, CurveEnd
<1>4. ASSUME tariff.blocks = None, answer # None PROVE answer = MinuteByMinute(q)
  <2> DEFINE energy == EnergyByWindow(q.curve, tariff)
  <2>1. /\ ~ \E w \in DOMAIN energy : EnergyRate(tariff, season, w) = None
        /\ ~ (/\ ~tariff.demandFree /\ q.coincident = None
              /\ \E i \in InSeason(tariff, season) : tariff.demand[i].basis = "CP")
    BY <1>1, <1>4, Zenon DEF AnswerBill, Bill, InSeason
  <2>2. DOMAIN energy = {WindowAt(tariff, t) : t \in Minutes(q.curve)}
    BY DEF EnergyByWindow, Minutes
  <2>3. \A t \in Minutes(q.curve) : EnergyRate(tariff, season, WindowAt(tariff, t)) # None
    <3> HIDE DEF energy, tariff, season
    <3> QED BY <2>1, <2>2
  <2> HIDE DEF q
  <2> QED BY <1>1, <1>4, <2>1, <2>3, BillIsMinuteByMinute
<1>5. ASSUME ~ (tariff = TouTariff /\ (season = "transition" \/ q.coincident = None)) PROVE answer # None
  <2>1. CASE tariff.blocks = None
    <3>1. \A t \in Minutes(q.curve) : EnergyRate(tariff, season, WindowAt(tariff, t)) # None
      <4> TAKE t \in Minutes(q.curve)
      <4> QED BY <1>2, <1>3, <1>5, MinutesHaveRates
    <3>2. q.coincident # None \/ \A i \in InSeason(tariff, season) : tariff.demand[i].basis # "CP"
      <4>1. ASSUME tariff # TouTariff PROVE \A i \in DOMAIN tariff.demand : tariff.demand[i].basis # "CP"
        BY <1>2, <4>1, FlatTariffsAre DEF GridTariffs
      <4> HIDE DEF tariff, season
      <4> QED BY <1>5, <4>1 DEF InSeason
    <3> HIDE DEF q
    <3>3. AnswerBill(q) \in Nat
      BY <1>1, <2>1, <3>1, <3>2, BillIsMinuteByMinute
    <3> QED BY <1>1, <3>3, BillingAssumption
  <2>2. CASE tariff.blocks # None
    <3>1. tariff = BlockTariff
      <4>1. TouTariff.blocks = None
        BY TouTariffIs
      <4>2. tariff # TouTariff => tariff.blocks = None \/ tariff = BlockTariff
        BY <1>2, FlatTariffsAre DEF GridTariffs
      <4> QED BY <2>2, <4>1, <4>2
    <3>2. HoursUseBill(q.curve, tariff, q.days, q.historical) \in Nat
      BY <1>2, <3>1, BlockTariffIs, HoursUseIsNatural
    <3>3. tariff.fixed \in Nat
      BY <1>2, GridIsMetered
    <3>4. answer = HoursUseBill(q.curve, tariff, q.days, q.historical) + tariff.fixed
      BY <1>1, <2>2, Zenon DEF AnswerBill, Bill
    <3> DEFINE hours == HoursUseBill(q.curve, tariff, q.days, q.historical)
    <3> HIDE DEF hours, tariff
    <3>5. answer \in Nat
      BY <3>2, <3>3, <3>4 DEF hours
    <3> QED BY <3>5, BillingAssumption
  <2> QED BY <2>1, <2>2
<1>6. ASSUME NEW i \in DOMAIN tariff.demand
      PROVE  Billed(q.curve, tariff.demand[i], tariff, q.historical, q.coincident) <= roof
  <2>1. IsMetered(tariff.demand[i])
    BY <1>2 DEF AreMetered
  <2> DEFINE c == tariff.demand[i]
             curve == q.curve
             historical == q.historical
  <2> HIDE DEF c, curve, historical, tariff
  <2>2. IsCurve(curve) /\ IsOrdered(curve) /\ IsMetered(c) /\ historical \in Nat
        /\ (tariff.ratchet = None \/ tariff.ratchet \in 0..100)
    BY <1>2, <2>1 DEF c, curve, historical
  <2>3. Billed(curve, c, tariff, historical, q.coincident) <= Scale * Max({InstantPeak(curve), historical})
    BY <2>2, BilledIsUnderTheRoof
  <2> QED BY <2>3 DEF c, curve, historical
<1> HIDE DEF tariff, season, roof
<1> QED BY <1>4, <1>5, <1>6

-----------------------------------------------------------------------------
(* What a sublist picks: each of its places once, in their order; and what the list begins with, if it is all picked. *)
IsSublist(place, picked, s, places) ==
  /\ \A k \in DOMAIN picked : place[k] \in places /\ picked[k] = s[place[k]]
  /\ \A k, l \in DOMAIN picked : k < l => place[k] < place[l]
  /\ \A i \in places : \E k \in DOMAIN picked : place[k] = i
  /\ \A m \in Nat : 1..m \subseteq places => \A k \in 1..m : k \in DOMAIN picked /\ place[k] = k
LEMMA SublistPicks ==
  ASSUME NEW s, NEW places, places \subseteq Nat \ {0}, IsFiniteSet(places)
  PROVE  /\ DOMAIN Sublist(s, places) = 1..Cardinality(places) /\ Cardinality(places) \in Nat
         /\ \E place : IsSublist(place, Sublist(s, places), s, places)
<1> DEFINE N == Cardinality(places)
           SpotOf(k) == CHOOSE i \in places : Cardinality({j \in places : j < i}) = k - 1
           place == [k \in 1..N |-> SpotOf(k)]
           rank == [i \in places |-> Cardinality(PlacesBefore(places, i))]
           picked == Sublist(s, places)
<1>1. N \in Nat
  BY FS_CardinalityType
<1>2. picked = [k \in 1..N |-> s[SpotOf(k)]]
  BY DEF Sublist
<1>3. ASSUME NEW i \in places PROVE rank[i] \in Nat /\ rank[i] < N /\ rank[i] = Cardinality(PlacesBefore(places, i))
  <2>1. PlacesBefore(places, i) \subseteq places \ {i} /\ IsFiniteSet(places \ {i}) /\ Cardinality(places \ {i}) = N - 1
    <3>1. i \in Nat /\ ~(i < i)
      OBVIOUS
    <3>2. PlacesBefore(places, i) \subseteq places \ {i}
      BY <3>1 DEF PlacesBefore
    <3>3. IsFiniteSet(places \ {i}) /\ Cardinality(places \ {i}) = Cardinality(places) - 1
      <4> HIDE DEF N, SpotOf, place, rank, picked
      <4> QED BY FS_RemoveElement
    <3> QED BY <3>2, <3>3
  <2>2. IsFiniteSet(PlacesBefore(places, i)) /\ Cardinality(PlacesBefore(places, i)) <= Cardinality(places \ {i})
    BY <2>1, FS_Subset
  <2>3. Cardinality(PlacesBefore(places, i)) \in Nat
    BY <2>2, FS_CardinalityType
  <2> QED BY <1>1, <2>1, <2>2, <2>3
<1>4. ASSUME NEW i \in places, NEW j \in places, i < j PROVE rank[i] < rank[j]
  <2> DEFINE A == PlacesBefore(places, i)
             B == PlacesBefore(places, j)
  <2>1. A \subseteq B \ {i} /\ i \in B /\ B \subseteq places
    <3>1. i \in Nat /\ j \in Nat /\ \A x \in places : x \in Nat
      OBVIOUS
    <3>2. \A x \in places : x < i => x < j /\ x # i
      BY <1>4, <3>1
    <3> QED BY <1>4, <3>2 DEF PlacesBefore
  <2>2. rank[i] = Cardinality(A) /\ rank[j] = Cardinality(B)
    OBVIOUS
  <2> HIDE DEF A, B, rank
  <2>3. IsFiniteSet(B)
    BY <2>1, FS_Subset
  <2>4. IsFiniteSet(B \ {i}) /\ Cardinality(B \ {i}) = Cardinality(B) - 1
    BY <2>1, <2>3, FS_RemoveElement
  <2>5. Cardinality(A) <= Cardinality(B \ {i})
    BY <2>1, <2>4, FS_Subset
  <2>6. rank[i] \in Nat /\ rank[j] \in Nat
    BY <1>3
  <2> QED BY <2>2, <2>4, <2>5, <2>6
<1>5. ASSUME NEW k \in 1..N PROVE SpotOf(k) \in places /\ rank[SpotOf(k)] = k - 1
  <2>1. \E i \in places : Cardinality(PlacesBefore(places, i)) = k - 1
    <3>1. k - 1 \in Nat /\ k - 1 < N
      BY <1>1
    <3> QED BY <3>1, RankExists
  <2>2. \E i \in places : Cardinality({j \in places : j < i}) = k - 1
    BY <2>1 DEF PlacesBefore
  <2>3. SpotOf(k) \in places /\ Cardinality({j \in places : j < SpotOf(k)}) = k - 1
    BY <2>2
  <2> QED BY <2>3 DEF PlacesBefore
<1>6. \A k \in 1..N : place[k] = SpotOf(k) /\ picked[k] = s[SpotOf(k)]
  BY <1>2
<1>7. DOMAIN picked = 1..N
  BY <1>2
<1> HIDE DEF SpotOf, place, rank, picked, N
<1>8. \A k \in 1..N : place[k] \in places /\ picked[k] = s[place[k]] /\ rank[place[k]] = k - 1 /\ place[k] \in Nat
  BY <1>5, <1>6
<1>9. \A i, j \in places : rank[i] = rank[j] => i = j
  <2> SUFFICES ASSUME NEW i \in places, NEW j \in places, rank[i] = rank[j] PROVE i = j
    OBVIOUS
  <2>1. ~(i < j) /\ ~(j < i)
    BY <1>3, <1>4
  <2> QED BY <2>1
<1>10. \A k, l \in 1..N : k < l => place[k] < place[l]
  <2> SUFFICES ASSUME NEW k \in 1..N, NEW l \in 1..N, k < l PROVE place[k] < place[l]
    OBVIOUS
  <2>1. rank[place[k]] < rank[place[l]]
    BY <1>1, <1>8
  <2>2. place[k] # place[l] /\ ~(place[l] < place[k])
    BY <1>3, <1>4, <1>8, <2>1
  <2> QED BY <1>8, <2>2
<1>11. \A i \in places : \E k \in 1..N : place[k] = i
  <2> TAKE i \in places
  <2>1. rank[i] + 1 \in 1..N /\ (rank[i] + 1) - 1 = rank[i]
    BY <1>1, <1>3
  <2>2. place[rank[i] + 1] = i
    BY <1>8, <1>9, <2>1
  <2> QED BY <2>1, <2>2
<1>12. ASSUME NEW m \in Nat, 1..m \subseteq places, NEW k \in 1..m PROVE k \in 1..N /\ place[k] = k
  <2>1. PlacesBefore(places, k) = 1..(k - 1)
    <3>1. \A x \in places : x \in Nat /\ x # 0
      OBVIOUS
    <3>2. \A x \in 1..(k - 1) : x \in places /\ x < k
      BY <1>12
    <3>3. \A x \in places : x < k => x \in 1..(k - 1)
      BY <3>1
    <3> QED BY <3>2, <3>3 DEF PlacesBefore
  <2>2. Cardinality(1..(k - 1)) = k - 1
    <3>1. 1 \in Int /\ k - 1 \in Int /\ (1 > k - 1 <=> k = 1)
      OBVIOUS
    <3>2. Cardinality(1..(k - 1)) = IF 1 > k - 1 THEN 0 ELSE (k - 1) - 1 + 1
      BY <3>1, FS_Interval
    <3> QED BY <3>1, <3>2
  <2>3. k \in places /\ rank[k] = k - 1 /\ rank[k] < N
    BY <1>3, <1>12, <2>1, <2>2
  <2>4. k \in 1..N
    BY <1>1, <2>3
  <2> QED BY <1>8, <1>9, <2>3, <2>4
<1>13. IsSublist(place, picked, s, places)
  BY <1>7, <1>8, <1>10, <1>11, <1>12 DEF IsSublist
<1> QED BY <1>1, <1>7, <1>13 DEF picked, N

(* A function from the first numbers is a sequence. *)
LEMMA SequenceOf ==
  ASSUME NEW S, NEW n \in Nat, NEW f, f \in [1..n -> S]
  PROVE  f \in Seq(S) /\ Len(f) = n
BY DEF Seq

(* One sequence after another. *)
LEMMA OneAfterAnother ==
  ASSUME NEW S, NEW a \in Seq(S), NEW b \in Seq(S)
  PROVE  /\ a \o b \in Seq(S) /\ Len(a \o b) = Len(a) + Len(b)
         /\ \A i \in 1..Len(a) : (a \o b)[i] = a[i]
         /\ \A i \in 1..Len(b) : (a \o b)[Len(a) + i] = b[i]
OBVIOUS

(* What a sequence begins with. *)
LEMMA BeginningOf ==
  ASSUME NEW S, NEW a \in Seq(S), NEW m \in 0..Len(a)
  PROVE  /\ ToSet(SubSeq(a, 1, m)) = {a[i] : i \in 1..m}
         /\ m # 0 => Head(a) = a[1]
<1>1. SubSeq(a, 1, m) \in Seq(S) /\ Len(SubSeq(a, 1, m)) = m /\ \A i \in 1..m : SubSeq(a, 1, m)[i] = a[i]
  OBVIOUS
<1>2. DOMAIN SubSeq(a, 1, m) = 1..m
  BY <1>1
<1>3. m # 0 => Head(a) = a[1]
  OBVIOUS
<1> QED BY <1>1, <1>2, <1>3 DEF ToSet

(* A sublist is a sequence of what stands at its places, and begins as the list does. *)
Differs(s, places) == \A i, j \in places : s[i] = s[j] => i = j
LEMMA SublistIs ==
  ASSUME NEW s, NEW places, places \subseteq Nat \ {0}, IsFiniteSet(places)
  PROVE  LET d == Sublist(s, places)
         IN  /\ d \in Seq(ToSet(d)) /\ Len(d) = Cardinality(places) /\ Len(d) \in Nat /\ DOMAIN d = 1..Len(d)
             /\ ToSet(d) = {s[i] : i \in places}
             /\ Differs(s, places) => Differs(d, DOMAIN d)
             /\ \A m \in Nat : 1..m \subseteq places => \A k \in 1..m : k \in DOMAIN d /\ d[k] = s[k]
<1> DEFINE d == Sublist(s, places)
           N == Cardinality(places)
<1>1. DOMAIN d = 1..N /\ N \in Nat /\ \E place : IsSublist(place, d, s, places)
  BY SublistPicks
<1>2. PICK place : IsSublist(place, d, s, places)
  BY <1>1
<1>3. d \in [1..N -> ToSet(d)]
  <2>1. d = [n \in 1..N |-> d[n]]
    BY DEF Sublist
  <2> HIDE DEF d, N
  <2>2. \A n \in 1..N : d[n] \in ToSet(d)
    BY <1>1 DEF ToSet
  <2> QED BY <2>1, <2>2
<1> HIDE DEF d, N
<1>4. d \in Seq(ToSet(d)) /\ Len(d) = N
  BY <1>1, <1>3, SequenceOf
<1>5. /\ \A k \in DOMAIN d : place[k] \in places /\ d[k] = s[place[k]]
      /\ \A i \in places : \E k \in DOMAIN d : place[k] = i
  BY <1>2, Zenon DEF IsSublist
<1>6. ToSet(d) = {s[i] : i \in places}
  <2>1. \A k \in DOMAIN d : \E i \in places : s[i] = d[k]
    BY <1>5
  <2>2. \A i \in places : \E k \in DOMAIN d : s[i] = d[k]
    BY <1>5
  <2>3. {d[k] : k \in DOMAIN d} = {s[i] : i \in places}
    BY <2>1, <2>2
  <2> QED BY <2>3 DEF ToSet
<1>7. ASSUME Differs(s, places) PROVE Differs(d, DOMAIN d)
  <2> SUFFICES ASSUME NEW k \in DOMAIN d, NEW l \in DOMAIN d, d[k] = d[l] PROVE k = l
    BY DEF Differs
  <2>1. place[k] \in places /\ place[l] \in places /\ s[place[k]] = s[place[l]]
    BY <1>5
  <2>2. place[k] = place[l] /\ place[k] \in Nat
    BY <1>7, <2>1 DEF Differs
  <2>3. ~(k < l) /\ ~(l < k)
    BY <1>2, <2>2 DEF IsSublist
  <2> QED BY <1>1, <2>3
<1>8. \A m \in Nat : 1..m \subseteq places => \A k \in 1..m : k \in DOMAIN d /\ d[k] = s[k]
  BY <1>2 DEF IsSublist
<1> QED BY <1>1, <1>4, <1>6, <1>7, <1>8 DEF d, N

(* Dropping what is repeated leaves each of its elements once, and what it begins with if that repeats nothing. *)
LEMMA DedupeIs ==
  ASSUME NEW s, s \in Seq(ToSet(s))
  PROVE  LET d == Dedupe(s)
         IN  /\ d \in Seq(ToSet(d)) /\ Len(d) \in Nat /\ DOMAIN d = 1..Len(d) /\ ToSet(d) = ToSet(s) /\ Differs(d, DOMAIN d)
             /\ \A m \in 0..Len(s) : Differs(s, 1..m) => \A k \in 1..m : k \in DOMAIN d /\ d[k] = s[k]
<1> DEFINE places == {i \in DOMAIN s : \A j \in 1..(i - 1) : s[j] # s[i]}
           d == Dedupe(s)
<1>1. DOMAIN s = 1..Len(s) /\ Len(s) \in Nat
  BY MembersOfSequence
<1>2. d = Sublist(s, places)
  BY DEF Dedupe
<1>3. places \subseteq 1..Len(s) /\ \A i \in 1..Len(s) : i \in places <=> \A j \in 1..(i - 1) : s[j] # s[i]
  BY <1>1
<1> HIDE DEF places, d
<1>4. places \subseteq Nat \ {0} /\ IsFiniteSet(places)
  <2>1. IsFiniteSet(1..Len(s))
    BY <1>1, FS_Interval
  <2>2. IsFiniteSet(places)
    BY <1>3, <2>1, FS_Subset
  <2>3. places \subseteq Nat \ {0}
    BY <1>1, <1>3
  <2> QED BY <2>2, <2>3
<1>5. /\ d \in Seq(ToSet(d)) /\ Len(d) \in Nat /\ DOMAIN d = 1..Len(d)
      /\ ToSet(d) = {s[i] : i \in places}
      /\ Differs(s, places) => Differs(d, DOMAIN d)
      /\ \A m \in Nat : 1..m \subseteq places => \A k \in 1..m : k \in DOMAIN d /\ d[k] = s[k]
  BY <1>2, <1>4, SublistIs
<1>6. Differs(s, places)
  <2> SUFFICES ASSUME NEW i \in places, NEW j \in places, s[i] = s[j] PROVE i = j
    BY DEF Differs
  <2>1. i \in 1..Len(s) /\ j \in 1..Len(s)
    BY <1>3
  <2>2. ~(i < j) /\ ~(j < i)
    BY <1>1, <1>3, <2>1
  <2> QED BY <1>1, <2>1, <2>2
<1>7. ToSet(s) = {s[i] : i \in places}
  <2>1. ASSUME NEW x \in DOMAIN s PROVE \E i \in places : s[i] = s[x]
    <3> DEFINE same == {j \in 1..Len(s) : s[j] = s[x]}
    <3>1. same \subseteq Nat /\ same # {}
      BY <1>1
    <3>2. PICK i \in same : \A j \in same : i <= j
      <4> HIDE DEF same
      <4> QED BY <3>1, LeastNumber
    <3>3. i \in 1..Len(s) /\ s[i] = s[x] /\ \A j \in 1..(i - 1) : s[j] # s[i]
      BY <1>1, <3>2
    <3> QED BY <1>3, <3>3
  <2> QED BY <1>1, <1>3, <2>1 DEF ToSet
<1>8. ASSUME NEW m \in 0..Len(s), Differs(s, 1..m) PROVE 1..m \subseteq places
  <2> SUFFICES ASSUME NEW i \in 1..m PROVE i \in places
    OBVIOUS
  <2>1. i \in 1..Len(s) /\ \A j \in 1..(i - 1) : j \in 1..m /\ j # i
    BY <1>1
  <2> QED BY <1>3, <1>8, <2>1 DEF Differs
<1>9. \A m \in 0..Len(s) : m \in Nat
  BY <1>1
<1> QED BY <1>5, <1>6, <1>7, <1>8, <1>9 DEF d

(* An artifact with a default regime, which resolve_intent demands, whose regimes and objectives have names of their own; *)
(* and the objectives it calls floors.                                                                                    *)
IsArtifact(artifact) ==
  /\ artifact.regimes \in Seq(ToSet(artifact.regimes))
  /\ \A i \in DOMAIN artifact.regimes : artifact.regimes[i].priority \in Seq(ToSet(artifact.regimes[i].priority))
  /\ \A i, j \in DOMAIN artifact.regimes : artifact.regimes[i].key = artifact.regimes[j].key => i = j
  /\ \E i \in DOMAIN artifact.regimes : artifact.regimes[i].hours = <<>> /\ artifact.regimes[i].signals = {}
  /\ DOMAIN artifact.kinds \subseteq ToSet(KeyOrder)
Floors(artifact) == {k \in DOMAIN artifact.kinds : artifact.kinds[k] = "floor"}
(* What stands at some places of a sequence is a sequence, and begins as it does when its first place is taken. *)
LEMMA ThoseOf ==
  ASSUME NEW s, s \in Seq(ToSet(s)), NEW I, I \subseteq DOMAIN s
  PROVE  /\ I \subseteq Nat \ {0} /\ IsFiniteSet(I)
         /\ LET d == Sublist(s, I)
            IN  /\ d \in Seq(ToSet(d)) /\ Len(d) \in Nat /\ DOMAIN d = 1..Len(d) /\ ToSet(d) = {s[i] : i \in I}
                /\ Differs(s, I) => Differs(d, DOMAIN d)
                /\ 1 \in I => 1 \in DOMAIN d /\ d[1] = s[1]
<1>1. DOMAIN s = 1..Len(s) /\ Len(s) \in Nat
  BY MembersOfSequence
<1>2. I \subseteq Nat \ {0} /\ IsFiniteSet(I)
  <2>1. IsFiniteSet(1..Len(s))
    BY <1>1, FS_Interval
  <2> QED BY <1>1, <2>1, FS_Subset
<1> DEFINE d == Sublist(s, I)
<1> HIDE DEF d
<1>3. /\ d \in Seq(ToSet(d)) /\ Len(d) \in Nat /\ DOMAIN d = 1..Len(d) /\ ToSet(d) = {s[i] : i \in I}
      /\ Differs(s, I) => Differs(d, DOMAIN d)
      /\ \A m \in Nat : 1..m \subseteq I => \A k \in 1..m : k \in DOMAIN d /\ d[k] = s[k]
  BY <1>2, SublistIs DEF d
<1>4. 1 \in I => 1 \in DOMAIN d /\ d[1] = s[1]
  <2>1. 1 \in I => 1..1 \subseteq I
    OBVIOUS
  <2>2. 1 \in Nat /\ 1 \in 1..1
    OBVIOUS
  <2> QED BY <1>3, <2>1, <2>2
<1> QED BY <1>2, <1>3, <1>4 DEF d

(* The floors of an artifact, each once, readiness before the others. *)
LEMMA FloorsAre ==
  ASSUME NEW artifact, IsArtifact(artifact)
  PROVE  LET floors == FloorsOf(artifact)
         IN  /\ floors \in Seq(ToSet(floors)) /\ Len(floors) \in Nat /\ DOMAIN floors = 1..Len(floors)
             /\ ToSet(floors) = Floors(artifact) /\ Differs(floors, DOMAIN floors)
             /\ IsFiniteSet(Floors(artifact)) /\ Cardinality(Floors(artifact)) = Len(floors)
             /\ "readiness" \in Floors(artifact) => 1 \in DOMAIN floors /\ floors[1] = "readiness"
<1> DEFINE C == CanonicalFloorOrder
           K == KeyOrder
           IsFloor(k) == k \in DOMAIN artifact.kinds /\ artifact.kinds[k] = "floor"
           I == {i \in DOMAIN C : IsFloor(C[i])}
           J == {i \in DOMAIN K : IsFloor(K[i]) /\ ~Contains(C, K[i])}
           a == Sublist(C, I)
           b == Sublist(K, J)
           floors == FloorsOf(artifact)
<1>1. floors = a \o b
  BY DEF FloorsOf, Those
<1>2. C \in Seq(ToSet(C)) /\ DOMAIN C = {1, 2} /\ Len(C) = 2 /\ C[1] = "readiness" /\ C[2] = "service_completion"
  BY DEF CanonicalFloorOrder, ToSet
<1>3. K \in Seq(ToSet(K)) /\ \A i, j \in DOMAIN K : K[i] = K[j] => i = j
  BY KeyAssumption
<1>4. \A k : k \in Floors(artifact) <=> IsFloor(k)
  BY DEF Floors
<1>5. I \subseteq DOMAIN C /\ (\A i \in DOMAIN C : i \in I <=> C[i] \in Floors(artifact))
      /\ J \subseteq DOMAIN K /\ (\A i \in DOMAIN K : i \in J <=> C[1] # K[i] /\ C[2] # K[i] /\ K[i] \in Floors(artifact))
  <2>1. \A k : Contains(C, k) <=> (C[1] = k \/ C[2] = k)
    BY <1>2 DEF Contains
  <2> HIDE DEF C, K
  <2> QED BY <1>4, <2>1
<1> HIDE DEF C, K, I, J, a, b, floors, IsFloor
<1>6. /\ a \in Seq(ToSet(a)) /\ Len(a) \in Nat /\ DOMAIN a = 1..Len(a) /\ ToSet(a) = {C[i] : i \in I}
      /\ Differs(C, I) => Differs(a, DOMAIN a)
      /\ 1 \in I => 1 \in DOMAIN a /\ a[1] = C[1]
  BY <1>2, <1>5, ThoseOf DEF a
<1>7. /\ b \in Seq(ToSet(b)) /\ Len(b) \in Nat /\ DOMAIN b = 1..Len(b) /\ ToSet(b) = {K[i] : i \in J}
      /\ Differs(K, J) => Differs(b, DOMAIN b)
  BY <1>3, <1>5, ThoseOf DEF b
<1>8. Differs(C, I) /\ Differs(K, J)
  BY <1>2, <1>3, <1>5 DEF Differs
<1> DEFINE S == ToSet(a) \cup ToSet(b)
<1>9. a \in Seq(S) /\ b \in Seq(S)
  <2>1. a \in [1..Len(a) -> S] /\ b \in [1..Len(b) -> S]
    <3>1. \A i \in 1..Len(a) : a[i] \in S
      BY <1>6 DEF ToSet
    <3>2. \A i \in 1..Len(b) : b[i] \in S
      BY <1>7 DEF ToSet
    <3> HIDE DEF S
    <3> QED BY <1>6, <1>7, <3>1, <3>2
  <2> HIDE DEF S
  <2> QED BY <1>6, <1>7, <2>1, SequenceOf
<1> HIDE DEF S
<1>10. /\ floors \in Seq(S) /\ Len(floors) = Len(a) + Len(b)
       /\ \A i \in 1..Len(a) : floors[i] = a[i]
       /\ \A i \in 1..Len(b) : floors[Len(a) + i] = b[i]
  BY <1>1, <1>9, OneAfterAnother
<1>11. DOMAIN floors = 1..Len(floors) /\ Len(floors) \in Nat
  BY <1>6, <1>7, <1>10, MembersOfSequence
<1>12. \A i \in 1..Len(floors) : (i \in 1..Len(a) /\ floors[i] = a[i]) \/ (i - Len(a) \in 1..Len(b) /\ floors[i] = b[i - Len(a)])
  <2> TAKE i \in 1..Len(floors)
  <2>1. CASE i <= Len(a)
    BY <1>6, <1>10, <1>11, <2>1
  <2>2. CASE i > Len(a)
    <3>1. i - Len(a) \in 1..Len(b) /\ Len(a) + (i - Len(a)) = i
      BY <1>6, <1>7, <1>10, <1>11, <2>2
    <3> QED BY <1>10, <3>1
  <2> QED BY <1>6, <1>11, <2>1, <2>2
<1>13. ToSet(a) \cap ToSet(b) = {} /\ ToSet(a) \cup ToSet(b) = Floors(artifact)
  <2>1. \A k : k \in ToSet(a) <=> k \in Floors(artifact) /\ (k = C[1] \/ k = C[2])
    BY <1>2, <1>5, <1>6
  <2>2. \A k : k \in ToSet(b) <=> k \in Floors(artifact) /\ ~(k = C[1] \/ k = C[2])
    <3>1. \A k \in Floors(artifact) : \E i \in DOMAIN K : K[i] = k
      BY DEF IsArtifact, Floors, ToSet, K
    <3> QED BY <1>5, <1>7, <3>1
  <2> QED BY <2>1, <2>2
<1>14. ToSet(floors) = Floors(artifact)
  <2>1. \A i \in DOMAIN floors : floors[i] \in ToSet(a) \cup ToSet(b)
    BY <1>6, <1>7, <1>11, <1>12 DEF ToSet
  <2>2. \A k \in ToSet(a) : \E i \in DOMAIN floors : floors[i] = k
    <3>1. \A i \in 1..Len(a) : i \in DOMAIN floors
      BY <1>6, <1>7, <1>10, <1>11
    <3> QED BY <1>6, <1>10, <3>1 DEF ToSet
  <2>3. \A k \in ToSet(b) : \E i \in DOMAIN floors : floors[i] = k
    <3>1. \A i \in 1..Len(b) : Len(a) + i \in DOMAIN floors
      BY <1>6, <1>7, <1>10, <1>11
    <3> QED BY <1>7, <1>10, <3>1, ZenonT(60) DEF ToSet
  <2>4. ToSet(floors) = {floors[i] : i \in DOMAIN floors}
    BY DEF ToSet
  <2> QED BY <1>13, <2>1, <2>2, <2>3, <2>4
<1>15. Differs(floors, DOMAIN floors)
  <2> SUFFICES ASSUME NEW i \in DOMAIN floors, NEW j \in DOMAIN floors, floors[i] = floors[j] PROVE i = j
    BY DEF Differs
  <2>1. i \in 1..Len(floors) /\ j \in 1..Len(floors) /\ i \in Int /\ j \in Int
    BY <1>11
  <2>2. CASE i \in 1..Len(a) /\ floors[i] = a[i] /\ j \in 1..Len(a) /\ floors[j] = a[j]
    BY <1>6, <1>8, <2>2, ZenonT(60) DEF Differs
  <2>3. CASE /\ i - Len(a) \in 1..Len(b) /\ floors[i] = b[i - Len(a)]
             /\ j - Len(a) \in 1..Len(b) /\ floors[j] = b[j - Len(a)]
    <3>1. i - Len(a) = j - Len(a)
      BY <1>7, <1>8, <2>3 DEF Differs
    <3> QED BY <1>6, <2>1, <3>1
  <2>4. \A k \in 1..Len(a), l \in 1..Len(b) : a[k] # b[l]
    <3>1. \A k \in 1..Len(a) : a[k] \in ToSet(a)
      BY <1>6 DEF ToSet
    <3>2. \A l \in 1..Len(b) : b[l] \in ToSet(b)
      BY <1>7 DEF ToSet
    <3> QED BY <1>13, <3>1, <3>2
  <2> QED BY <1>12, <2>1, <2>2, <2>3, <2>4
<1>16. IsFiniteSet(Floors(artifact)) /\ Cardinality(Floors(artifact)) = Len(floors)
  <2>1. IsFiniteSet(DOMAIN floors) /\ Cardinality(DOMAIN floors) = Len(floors)
    <3> DEFINE n == Len(floors)
    <3> HIDE DEF n
    <3>1. n \in Nat /\ DOMAIN floors = 1..n
      BY <1>11 DEF n
    <3>2. 1 \in Int /\ n \in Int
      BY <3>1
    <3>3. IsFiniteSet(1..n) /\ Cardinality(1..n) = IF 1 > n THEN 0 ELSE n - 1 + 1
      BY <3>2, FS_Interval
    <3> QED BY <3>1, <3>3 DEF n
  <2>2. \A i, j \in DOMAIN floors : floors[i] = floors[j] => i = j
    BY <1>15 DEF Differs
  <2>3. /\ IsFiniteSet({floors[i] : i \in DOMAIN floors})
        /\ Cardinality({floors[i] : i \in DOMAIN floors}) = Cardinality(DOMAIN floors)
    BY <2>1, <2>2, CountByName
  <2> QED BY <1>14, <2>1, <2>3 DEF ToSet
<1>17. "readiness" \in Floors(artifact) => 1 \in DOMAIN floors /\ floors[1] = "readiness"
  <2> SUFFICES ASSUME "readiness" \in Floors(artifact) PROVE 1 \in DOMAIN floors /\ floors[1] = "readiness"
    OBVIOUS
  <2>1. 1 \in DOMAIN a /\ a[1] = "readiness"
    BY <1>2, <1>5, <1>6
  <2> QED BY <1>6, <1>7, <1>10, <1>11, <2>1
<1>18. floors \in Seq(ToSet(floors))
  <2>1. floors \in [1..Len(floors) -> ToSet(floors)]
    <3>1. \A i \in 1..Len(floors) : floors[i] \in ToSet(floors)
      BY <1>11 DEF ToSet
    <3>2. floors \in [1..Len(floors) -> S]
      BY <1>10
    <3> QED BY <3>1, <3>2
  <2> QED BY <1>11, <2>1, SequenceOf
<1> QED BY <1>11, <1>14, <1>15, <1>16, <1>17, <1>18 DEF floors

(* What a regime orders: the floors first, each objective once, none that is not declared. *)
LEMMA ActiveIs ==
  ASSUME NEW artifact, IsArtifact(artifact), NEW regime, regime.priority \in Seq(ToSet(regime.priority))
  PROVE  LET active == BuildActive(artifact, regime)
             p == active.priority
         IN  /\ active.regime = regime.key
             /\ p \in Seq(ToSet(p)) /\ DOMAIN p = 1..Len(p) /\ Len(p) \in Nat
             /\ Differs(p, DOMAIN p) /\ ToSet(p) \subseteq DOMAIN artifact.kinds
             /\ ToSet(SubSeq(p, 1, Cardinality(Floors(artifact)))) = Floors(artifact)
             /\ "readiness" \in Floors(artifact) => 1 \in DOMAIN p /\ p[1] = "readiness"
<1> DEFINE active == BuildActive(artifact, regime)
           p == active.priority
           floors == FloorsOf(artifact)
           listed == regime.priority
           I == {i \in DOMAIN listed : listed[i] \in DOMAIN artifact.kinds /\ ~Contains(floors, listed[i])}
           soft == Sublist(listed, I)
           all == floors \o soft
           S == ToSet(floors) \cup ToSet(soft)
<1>1. active = [regime |-> regime.key, priority |-> Dedupe(all)]
  BY DEF BuildActive, Those
<1>2. active.regime = regime.key /\ p = Dedupe(all)
  BY <1>1
<1>3. I \subseteq DOMAIN listed /\ \A i \in I : listed[i] \in DOMAIN artifact.kinds
  OBVIOUS
<1> HIDE DEF I, active, p, floors, soft, all, listed
<1>4. /\ floors \in Seq(ToSet(floors)) /\ Len(floors) \in Nat /\ DOMAIN floors = 1..Len(floors)
      /\ ToSet(floors) = Floors(artifact) /\ Differs(floors, DOMAIN floors)
      /\ IsFiniteSet(Floors(artifact)) /\ Cardinality(Floors(artifact)) = Len(floors)
      /\ "readiness" \in Floors(artifact) => 1 \in DOMAIN floors /\ floors[1] = "readiness"
  BY FloorsAre DEF floors
<1>5. soft \in Seq(ToSet(soft)) /\ Len(soft) \in Nat /\ DOMAIN soft = 1..Len(soft) /\ ToSet(soft) = {listed[i] : i \in I}
  <2>1. listed \in Seq(ToSet(listed))
    BY DEF listed
  <2> QED BY <1>3, <2>1, ThoseOf DEF soft
<1>6. floors \in Seq(S) /\ soft \in Seq(S)
  <2>1. floors \in [1..Len(floors) -> S] /\ soft \in [1..Len(soft) -> S]
    <3>1. floors \in [1..Len(floors) -> ToSet(floors)] /\ soft \in [1..Len(soft) -> ToSet(soft)]
      BY <1>4, <1>5
    <3> QED BY <3>1
  <2> HIDE DEF S
  <2> QED BY <1>4, <1>5, <2>1, SequenceOf
<1>7. S \subseteq DOMAIN artifact.kinds
  BY <1>3, <1>4, <1>5 DEF Floors
<1> HIDE DEF S
<1>8. all \in Seq(S) /\ Len(all) = Len(floors) + Len(soft) /\ \A i \in 1..Len(floors) : all[i] = floors[i]
  BY <1>6, OneAfterAnother DEF all
<1>9. DOMAIN all = 1..Len(all) /\ Len(all) \in Nat /\ (\A i \in DOMAIN all : all[i] \in S)
  BY <1>8, MembersOfSequence
<1>10. all \in Seq(ToSet(all)) /\ ToSet(all) \subseteq S
  <2>1. ToSet(all) = {all[i] : i \in 1..Len(all)}
    BY <1>9 DEF ToSet
  <2>2. all \in [1..Len(all) -> S]
    BY <1>8
  <2>3. all \in [1..Len(all) -> ToSet(all)]
    BY <2>1, <2>2
  <2> QED BY <1>9, <2>1, <2>3, SequenceOf
<1>11. /\ p \in Seq(ToSet(p)) /\ Len(p) \in Nat /\ DOMAIN p = 1..Len(p) /\ ToSet(p) = ToSet(all) /\ Differs(p, DOMAIN p)
       /\ \A m \in 0..Len(all) : Differs(all, 1..m) => \A k \in 1..m : k \in DOMAIN p /\ p[k] = all[k]
  BY <1>2, <1>10, DedupeIs
<1> DEFINE m == Len(floors)
<1>12. \A k \in 1..m : k \in DOMAIN p /\ p[k] = floors[k]
  <2>1. m \in 0..Len(all)
    BY <1>4, <1>5, <1>8
  <2>2. Differs(all, 1..m)
    BY <1>4, <1>8 DEF Differs
  <2> QED BY <1>8, <1>11, <2>1, <2>2
<1>13. m \in 0..Len(p)
  <2>1. m # 0 => m \in 1..m
    BY <1>4
  <2> QED BY <1>4, <1>11, <1>12, <2>1
<1>14. ToSet(SubSeq(p, 1, m)) = {p[i] : i \in 1..m}
  BY <1>11, <1>13, BeginningOf
<1>15. {p[i] : i \in 1..m} = {floors[i] : i \in DOMAIN floors}
  BY <1>4, <1>12
<1>16. ToSet(SubSeq(p, 1, Cardinality(Floors(artifact)))) = Floors(artifact)
  BY <1>4, <1>14, <1>15 DEF ToSet
<1>17. "readiness" \in Floors(artifact) => 1 \in DOMAIN p /\ p[1] = "readiness"
  BY <1>4, <1>12
<1> QED BY <1>2, <1>7, <1>10, <1>11, <1>16, <1>17 DEF active, p

(* The pass that readiness asks for comes before all others. *)
LEMMA ReadinessFirst ==
  ASSUME NEW active, active.priority \in Seq(ToSet(active.priority)), 1 \in DOMAIN active.priority, active.priority[1] = "readiness"
  PROVE  PassSequence(active) # <<>> /\ Head(PassSequence(active)) = "min_tardy"
<1> DEFINE p == active.priority
           passes == [i \in DOMAIN p |-> SolverPass(p[i])]
           I == {i \in DOMAIN passes : passes[i] \notin {"none", "shield"}}
           d == Sublist(passes, I)
           seq == PassSequence(active)
<1>1. seq = Dedupe(d)
  BY DEF PassSequence, Those
<1>2. DOMAIN p = 1..Len(p) /\ Len(p) \in Nat
  BY MembersOfSequence
<1>3. DOMAIN passes = 1..Len(p) /\ passes[1] = "min_tardy" /\ 1 \in I /\ I \subseteq DOMAIN passes
  BY <1>2 DEF SolverPass
<1>4. passes \in [1..Len(p) -> ToSet(passes)]
  BY <1>2 DEF ToSet
<1> HIDE DEF p, passes, I, d, seq
<1>5. passes \in Seq(ToSet(passes))
  BY <1>2, <1>4, SequenceOf
<1>6. d \in Seq(ToSet(d)) /\ DOMAIN d = 1..Len(d) /\ Len(d) \in Nat /\ 1 \in DOMAIN d /\ d[1] = "min_tardy"
  BY <1>3, <1>5, ThoseOf DEF d
<1>7. /\ seq \in Seq(ToSet(seq)) /\ Len(seq) \in Nat /\ DOMAIN seq = 1..Len(seq)
      /\ \A m \in 0..Len(d) : Differs(d, 1..m) => \A k \in 1..m : k \in DOMAIN seq /\ seq[k] = d[k]
  BY <1>1, <1>6, DedupeIs
<1>8. 1 \in DOMAIN seq /\ seq[1] = "min_tardy"
  <2>1. Differs(d, 1..1) /\ 1 \in 0..Len(d) /\ 1 \in 1..1
    BY <1>6 DEF Differs
  <2> QED BY <1>6, <1>7, <2>1
<1>9. Head(seq) = seq[1]
  <2>1. 1 \in 0..Len(seq) /\ 1 # 0
    BY <1>7, <1>8
  <2> QED BY <1>7, <2>1, BeginningOf
<1>10. seq # <<>>
  BY <1>8
<1> QED BY <1>8, <1>9, <1>10 DEF seq


(* The first regime that bears on the signals, or on the clock alone, and matches; 0 when there is none. *)
Bears(artifact, hour, signals, asks) ==
  {i \in 1..Len(artifact.regimes) : (artifact.regimes[i].signals # {} <=> asks) /\ Matches(artifact.regimes[i], hour, signals)}
LEMMA FirstRegimeIs ==
  ASSUME NEW artifact, artifact.regimes \in Seq(ToSet(artifact.regimes)), NEW hour, NEW signals, NEW asks \in BOOLEAN
  PROVE  LET first == FirstRegime(artifact, hour, signals, asks)
         IN  /\ first = 0 => Bears(artifact, hour, signals, asks) = {}
             /\ first # 0 => first \in Bears(artifact, hour, signals, asks)
<1> DEFINE I == Bears(artifact, hour, signals, asks)
           first == FirstRegime(artifact, hour, signals, asks)
<1>1. first = IF I # {} THEN Min(I) ELSE 0
  BY Zenon DEF FirstRegime, SelectInSeq, Bears
<1>2. I \subseteq Nat \ {0}
  <2>1. Len(artifact.regimes) \in Nat
    BY MembersOfSequence
  <2> QED BY <2>1 DEF Bears
<1> HIDE DEF I, first
<1>3. I # {} => Min(I) \in I
  <2>1. I \subseteq Nat
    BY <1>2
  <2> QED BY <2>1, MinIsLeast
<1> QED BY <1>1, <1>2, <1>3 DEF I, first

(* The regime in force is one that matches, and one that asks for a signal whenever one that does matches; none is only   *)
(* in force when a signal is unheard of.                                                                                  *)
LEMMA ResolvedIs ==
  ASSUME NEW artifact, IsArtifact(artifact), NEW hour \in 0..23, NEW signals
  PROVE  LET resolved == ResolveIntent(artifact, hour, signals)
         IN  /\ ~(signals \subseteq KnownSignals(artifact)) => resolved = Refused
             /\ signals \subseteq KnownSignals(artifact) =>
                  \E i \in Bears(artifact, hour, signals, TRUE) \cup Bears(artifact, hour, signals, FALSE) :
                    /\ resolved = BuildActive(artifact, artifact.regimes[i])
                    /\ Bears(artifact, hour, signals, TRUE) # {} => i \in Bears(artifact, hour, signals, TRUE)
<1> DEFINE resolved == ResolveIntent(artifact, hour, signals)
           asking == FirstRegime(artifact, hour, signals, TRUE)
           onTheClock == FirstRegime(artifact, hour, signals, FALSE)
           first == IF asking # 0 THEN asking ELSE onTheClock
           A == Bears(artifact, hour, signals, TRUE)
           C == Bears(artifact, hour, signals, FALSE)
<1>1. hour % 24 = hour
  <2>1. hour \in Nat /\ hour < 24 /\ 24 \in Nat \ {0}
    OBVIOUS
  <2> QED BY <2>1, RemainderOfLess
<1>2. resolved = IF ~(signals \subseteq KnownSignals(artifact)) \/ first = 0 THEN Refused
                 ELSE BuildActive(artifact, artifact.regimes[first])
  BY <1>1, Zenon DEF ResolveIntent
<1>3. artifact.regimes \in Seq(ToSet(artifact.regimes))
  BY DEF IsArtifact
<1>4. DOMAIN artifact.regimes = 1..Len(artifact.regimes)
  BY <1>3, MembersOfSequence
<1>5. /\ asking = 0 => A = {}
      /\ asking # 0 => asking \in A
      /\ onTheClock = 0 => C = {}
      /\ onTheClock # 0 => onTheClock \in C
  <2>1. TRUE \in BOOLEAN /\ FALSE \in BOOLEAN
    OBVIOUS
  <2> QED BY <1>3, <2>1, FirstRegimeIs
<1>6. C # {}
  <2>1. PICK i \in 1..Len(artifact.regimes) : artifact.regimes[i].hours = <<>> /\ artifact.regimes[i].signals = {}
    BY <1>4 DEF IsArtifact
  <2>2. i \in C
    BY <2>1 DEF Bears, Matches
  <2> QED BY <2>2
<1> HIDE DEF resolved, asking, onTheClock, A, C
<1>7. first # 0 /\ first \in A \cup C /\ (A # {} => first \in A)
  BY <1>5, <1>6
<1> QED BY <1>2, <1>7 DEF resolved, A, C

(* The questions about a regime: such an artifact, an hour of the day, and signals of which at most one is unheard of. *)
IsRegimeQuestion(q) ==
  /\ IsArtifact(q.intent) /\ q.now \in 0..23
  /\ "unknown" \notin KnownSignals(q.intent) /\ q.signals \subseteq KnownSignals(q.intent) \cup {"unknown"}

(* intent.py's resolve_intent and solve.py's sequencer: for every artifact  *)
(* with a default regime, at every hour and under all signals it knows, the *)
(* regime in force was raised, its floors lead, and readiness plans first.  *)
THEOREM TheConductorPlansWhatFired ==
  ASSUME IsAnswered("regime") => IsRegimeQuestion(question) /\ answer = AnswerRegime(question)
  PROVE  ConductorPlansWhatFired
<1> SUFFICES ASSUME IsAnswered("regime") PROVE ConductorPlansWhatFired
  BY DEF ConductorPlansWhatFired
<1> DEFINE q == question
           active == answer.active
           R == q.intent.regimes
           A == Bears(q.intent, q.now, q.signals, TRUE)
           C == Bears(q.intent, q.now, q.signals, FALSE)
           chosen == {r \in ToSet(R) : r.key = active.regime}
           floors == {k \in DOMAIN q.intent.kinds : q.intent.kinds[k] = "floor"}
           Fires(r) == r.signals # {} /\ r.signals \subseteq q.signals
<1>1. IsRegimeQuestion(q) /\ answer = AnswerRegime(q)
  OBVIOUS
<1>2. active = ResolveIntent(q.intent, q.now, q.signals) /\ answer.passes = PassSequence(active)
  BY <1>1 DEF AnswerRegime
<1>3. IsArtifact(q.intent) /\ q.now \in 0..23
  BY <1>1 DEF IsRegimeQuestion
<1>4. "unknown" \in q.signals => active = Refused
  <2>1. "unknown" \in q.signals => ~(q.signals \subseteq KnownSignals(q.intent))
    BY <1>1 DEF IsRegimeQuestion
  <2> QED BY <1>2, <1>3, <2>1, ResolvedIs
<1>5. ASSUME "unknown" \notin q.signals
      PROVE  /\ \A r \in chosen : Matches(r, q.now, q.signals)
             /\ (\E r \in ToSet(R) : Fires(r) /\ r.hours = <<>>) => \A r \in chosen : Fires(r)
             /\ chosen # {}
             /\ ToSet(SubSeq(active.priority, 1, Cardinality(floors))) = floors
             /\ ToSet(active.priority) \subseteq DOMAIN q.intent.kinds
             /\ "readiness" \in floors => Head(answer.passes) = "min_tardy"
             /\ \A i, j \in DOMAIN active.priority : i # j => active.priority[i] # active.priority[j]
  <2>1. q.signals \subseteq KnownSignals(q.intent)
    BY <1>1, <1>5 DEF IsRegimeQuestion
  <2>2. PICK i \in A \cup C : active = BuildActive(q.intent, R[i]) /\ (A # {} => i \in A)
    BY <1>2, <1>3, <2>1, ResolvedIs
  <2>3. DOMAIN R = 1..Len(R)
    BY <1>3, MembersOfSequence DEF IsArtifact
  <2>4. i \in DOMAIN R /\ Matches(R[i], q.now, q.signals) /\ (i \in A => R[i].signals # {})
    BY <2>2, <2>3 DEF Bears
  <2>5. R[i].priority \in Seq(ToSet(R[i].priority))
    BY <1>3, <2>4 DEF IsArtifact
  <2>6. /\ active.regime = R[i].key
        /\ active.priority \in Seq(ToSet(active.priority)) /\ DOMAIN active.priority = 1..Len(active.priority)
        /\ Differs(active.priority, DOMAIN active.priority) /\ ToSet(active.priority) \subseteq DOMAIN q.intent.kinds
        /\ ToSet(SubSeq(active.priority, 1, Cardinality(Floors(q.intent)))) = Floors(q.intent)
        /\ "readiness" \in Floors(q.intent) => 1 \in DOMAIN active.priority /\ active.priority[1] = "readiness"
    BY <1>3, <2>2, <2>5, ActiveIs, SMTT(30)
  <2>7. chosen = {R[i]}
    <3>1. \A r \in chosen : r = R[i]
      <4> SUFFICES ASSUME NEW j \in DOMAIN R, R[j].key = active.regime PROVE R[j] = R[i]
        BY DEF ToSet
      <4>1. R[j].key = R[i].key
        BY <2>6
      <4> QED BY <1>3, <2>4, <4>1 DEF IsArtifact
    <3>2. R[i] \in chosen
      BY <2>4, <2>6 DEF ToSet
    <3> QED BY <3>1, <3>2
  <2>8. (\E r \in ToSet(R) : Fires(r) /\ r.hours = <<>>) => Fires(R[i])
    <3> SUFFICES ASSUME NEW j \in DOMAIN R, Fires(R[j]), R[j].hours = <<>> PROVE Fires(R[i])
      BY DEF ToSet
    <3>1. j \in A
      BY <2>3 DEF Bears, Matches
    <3> QED BY <2>2, <2>4, <3>1 DEF Matches
  <2>9. "readiness" \in floors => Head(answer.passes) = "min_tardy"
    BY <1>2, <2>6, ReadinessFirst DEF Floors
  <2>10. floors = Floors(q.intent)
    BY DEF Floors
  <2>11. \A k, l \in DOMAIN active.priority : k # l => active.priority[k] # active.priority[l]
    BY <2>6 DEF Differs
  <2> HIDE DEF active, floors, R, A, C, q
  <2> QED BY <2>4, <2>6, <2>7, <2>8, <2>9, <2>10, <2>11
<1> QED BY <1>4, <1>5 DEF ConductorPlansWhatFired

(* The grid's curves are loads that end with the curve. *)
LEMMA GridCurves == \A curve \in Curves : IsCurve(curve) /\ IsOrdered(curve)
<1> SUFFICES ASSUME NEW curve \in Curves PROVE IsCurve(curve) /\ IsOrdered(curve)
  OBVIOUS
<1>1. PICK k \in {0, 2, 5} \X {0, 1, 4} \X {1, 3} : curve = Curve(k)
  BY DEF Curves
<1> DEFINE a == [from |-> 0, kw |-> k[1]]
           b == [from |-> 2, kw |-> k[2]]
           c == [from |-> 5, kw |-> k[3]]
           d == [from |-> 8, kw |-> 0]
           P == [from : Nat, kw : Nat]
<1>2. /\ a \in P /\ b \in P /\ c \in P /\ d \in P
      /\ a.from = 0 /\ b.from = 2 /\ c.from = 5 /\ d.from = 8
  OBVIOUS
<1>3. curve = <<a, b, c, d>>
  BY <1>1 DEF Curve
<1> HIDE DEF a, b, c, d, P
<1>4. <<a, b, c, d>> \in Seq(P) /\ Len(<<a, b, c, d>>) = 4
  BY <1>2
<1>5. /\ DOMAIN <<a, b, c, d>> = {1, 2, 3, 4}
      /\ <<a, b, c, d>>[1] = a /\ <<a, b, c, d>>[2] = b /\ <<a, b, c, d>>[3] = c /\ <<a, b, c, d>>[4] = d
  OBVIOUS
<1>6. CurveEnd(curve) = 8 /\ DOMAIN curve = {1, 2, 3, 4}
      /\ curve[1] = a /\ curve[2] = b /\ curve[3] = c /\ curve[4] = d
  BY <1>2, <1>3, <1>4, <1>5 DEF CurveEnd
<1> QED BY <1>2, <1>3, <1>4, <1>6 DEF IsCurve, IsOrdered, P

(* The grid's storage questions are curves and batteries. *)
LEMMA StorageGrid == \A q \in StorageQuestions : IsStorageQuestion(q)
<1> SUFFICES ASSUME NEW q \in StorageQuestions PROVE IsStorageQuestion(q)
  OBVIOUS
<1>1. /\ q.curve \in Curves /\ q.step \in {1, 2}
      /\ q.battery \in {Battery(p, e, f) : p \in 0..4, e \in {0, 5, 20}, f \in {50, 100}}
  BY DEF StorageQuestions
<1>2. IsCurve(q.curve)
  BY <1>1, GridCurves
<1>3. IsBattery(q.battery)
  <2>1. PICK p \in 0..4, e \in {0, 5, 20}, f \in {50, 100} : q.battery = Battery(p, e, f)
    BY <1>1
  <2>2. /\ q.battery.power = p /\ q.battery.units = 1 /\ q.battery.energy = e /\ q.battery.efficiency = f
        /\ q.battery.socMin = 10 /\ q.battery.socMax = 90
    BY <2>1 DEF Battery
  <2>3. StoragePower(q.battery) \in Nat /\ UsableEnergy(q.battery) \in Nat
    BY <2>2 DEF StoragePower, UsableEnergy
  <2> QED BY <2>2, <2>3 DEF IsBattery
<1> QED BY <1>1, <1>2, <1>3 DEF IsStorageQuestion

(* Its refusals are counts of finitely many pairs. *)
LEMMA LearnGrid == \A q \in LearnQuestions : IsLearnQuestion(q)
<1> SUFFICES ASSUME NEW q \in LearnQuestions PROVE IsLearnQuestion(q)
  OBVIOUS
<1>1. q.batch.said \in [Said -> {0, 1, 3}] /\ q.capable \in {<<>>} \cup [{"block_points"} -> {0, 2, 4}]
  BY DEF LearnQuestions
<1>2. \A p \in Said : p = <<p[1], p[2]>>
  BY DEF Said
<1>3. IsFiniteSet(Said)
  <2> DEFINE A == {"resource_faulted", "target_occupied"}
             B == {"e1", "e2", NoEntity}
             C == {<<"target_unknown", "e1">>, <<"superseded", "e2">>, <<"odd", "e1">>}
  <2>1. IsFiniteSet(A) /\ IsFiniteSet(B) /\ IsFiniteSet(C)
    <3>1. \A x, S : IsFiniteSet(S) => IsFiniteSet(S \cup {x})
      BY FS_AddElement
    <3>2. /\ A = (({} \cup {"resource_faulted"}) \cup {"target_occupied"}) /\ B = ((({} \cup {"e1"}) \cup {"e2"}) \cup {NoEntity})
          /\ C = ((({} \cup {<<"target_unknown", "e1">>}) \cup {<<"superseded", "e2">>}) \cup {<<"odd", "e1">>})
      OBVIOUS
    <3> HIDE DEF A, B, C
    <3> QED BY <3>1, <3>2, FS_EmptySet
  <2> HIDE DEF A, B, C
  <2>2. IsFiniteSet(A \X B)
    BY <2>1, FS_Product
  <2> QED BY <2>1, <2>2, FS_Union DEF Said, A, B, C
<1>4. \A k \in DOMAIN q.capable : q.capable[k] \in Nat
  BY <1>1
<1> QED BY <1>1, <1>2, <1>3, <1>4 DEF IsLearnQuestion, IsBatch

(* Its assets have numbers on them, and the worse of two is. *)
LEMMA RecallGrid == AsksForARecall => IsRecallQuestion(question)
<1> SUFFICES ASSUME AsksForARecall PROVE IsRecallQuestion(question)
  OBVIOUS
<1>1. PICK a \in Assets, e \in {2, 20}, g \in {30, 31}, y \in BOOLEAN :
        \E w \in {x \in Worse(a) : x.soc <= a.soc} :
          question = [kind |-> "recall", asset |-> a, worse |-> w, site |-> [now |-> 950, eta |-> e, congestion |-> g], accepts |-> y]
  BY DEF AsksForARecall
<1>2. PICK w \in {x \in Worse(a) : x.soc <= a.soc} :
        question = [kind |-> "recall", asset |-> a, worse |-> w, site |-> [now |-> 950, eta |-> e, congestion |-> g], accepts |-> y]
  BY <1>1
<1>3. /\ a = [soc |-> a.soc, reserve |-> 20, fault |-> a.fault, faults |-> a.faults, comms |-> a.comms, soil |-> a.soil,
              km |-> a.km, hours |-> 0]
      /\ a.soc \in {20, 28, 33, 36, 80} /\ a.fault \in {0, 1, 2} /\ a.faults \in {0, 3} /\ a.comms \in {FreshComms, 89, 90}
      /\ a.soil \in {34, 35, 50} /\ a.km \in {0, 8000}
  <2>1. PICK s \in {20, 28, 33, 36, 80}, f \in {0, 1, 2}, n \in {0, 3}, c \in {FreshComms, 89, 90}, l \in {34, 35, 50}, k \in {0, 8000} :
          a = Asset_(s, f, n, c, l, k)
    BY DEF Assets
  <2> QED BY <2>1 DEF Asset_
<1>4. IsAsset(a)
  BY <1>3 DEF IsAsset, FreshComms
<1>5. IsAsset(w) /\ IsWorse(w, a)
  <2>1. CASE w = [a EXCEPT !.soc = 28]
    <3>1. /\ w.soc = 28 /\ w.reserve = 20 /\ w.fault = a.fault /\ w.faults = a.faults /\ w.comms = a.comms
          /\ w.soil = a.soil /\ w.km = a.km /\ w.hours = 0
      BY <1>3, <2>1
    <3> QED BY <1>2, <1>3, <3>1 DEF IsAsset, IsWorse, FreshComms
  <2>2. CASE w = [a EXCEPT !.fault = Least(a.fault, 1)]
    <3>1. /\ w.soc = a.soc /\ w.reserve = 20 /\ w.fault = Least(a.fault, 1) /\ w.faults = a.faults /\ w.comms = a.comms
          /\ w.soil = a.soil /\ w.km = a.km /\ w.hours = 0
      BY <1>3, <2>2
    <3> QED BY <1>3, <3>1 DEF IsAsset, IsWorse, FreshComms, Least
  <2>3. CASE w = [a EXCEPT !.faults = 3]
    <3>1. /\ w.soc = a.soc /\ w.reserve = 20 /\ w.fault = a.fault /\ w.faults = 3 /\ w.comms = a.comms
          /\ w.soil = a.soil /\ w.km = a.km /\ w.hours = 0
      BY <1>3, <2>3
    <3> QED BY <1>3, <3>1 DEF IsAsset, IsWorse, FreshComms
  <2>4. CASE w = [a EXCEPT !.comms = Most(a.comms, 90)]
    <3>1. /\ w.soc = a.soc /\ w.reserve = 20 /\ w.fault = a.fault /\ w.faults = a.faults /\ w.comms = Most(a.comms, 90)
          /\ w.soil = a.soil /\ w.km = a.km /\ w.hours = 0
      BY <1>3, <2>4
    <3> QED BY <1>3, <3>1 DEF IsAsset, IsWorse, FreshComms, Most
  <2>5. CASE w = [a EXCEPT !.soil = 50]
    <3>1. /\ w.soc = a.soc /\ w.reserve = 20 /\ w.fault = a.fault /\ w.faults = a.faults /\ w.comms = a.comms
          /\ w.soil = 50 /\ w.km = a.km /\ w.hours = 0
      BY <1>3, <2>5
    <3> QED BY <1>3, <3>1 DEF IsAsset, IsWorse, FreshComms
  <2>6. CASE w = [a EXCEPT !.km = 8000]
    <3>1. /\ w.soc = a.soc /\ w.reserve = 20 /\ w.fault = a.fault /\ w.faults = a.faults /\ w.comms = a.comms
          /\ w.soil = a.soil /\ w.km = 8000 /\ w.hours = 0
      BY <1>3, <2>6
    <3> QED BY <1>3, <3>1 DEF IsAsset, IsWorse, FreshComms
  <2> QED BY <2>1, <2>2, <2>3, <2>4, <2>5, <2>6 DEF Worse
<1>6. /\ question.asset = a /\ question.worse = w /\ question.accepts = y
      /\ question.site.now = 950 /\ question.site.eta = e /\ question.site.congestion = g
  BY <1>2
<1> QED BY <1>4, <1>5, <1>6 DEF IsRecallQuestion, IsSite

(* And its charges are percentages at a temperature the table knows. *)
LEMMA WearGrid == \A q \in WearQuestions : IsWearQuestion(q)
BY DEF WearQuestions, IsWearQuestion

(* The fleets of the grid are ones the sizer can be asked about. *)
LEMMA SizingGrid == \A q \in SizingQuestions : IsSizingQuestion(q)
<1> SUFFICES ASSUME NEW q \in SizingQuestions PROVE IsSizingQuestion(q)
  OBVIOUS
<1> DEFINE few == {<<FleetClass(n, kw, c)>> : n \in {2, 10}, kw \in {4, 11}, c \in {1, 2}}
           mixed == <<FleetClass(4, 11, 1), FleetClass(1, 3, 1)>>
           classes == q.fleet.classes
<1>1. /\ classes \in few \cup {mixed} /\ q.fleet.window \in {6, 10, 24} /\ q.fleet.base \in {0, 6}
      /\ q.options \in {{}, {10, 40}, {20, 90}} /\ q.efficiency \in {50, 90} /\ q.demandRate \in {0, 3}
  BY DEF SizingQuestions
<1>2. \A n, kw, k \in Nat : IsClass(FleetClass(n, kw, k))
  BY DEF FleetClass, IsClass
<1>3. AreClasses(classes)
  <2>1. CASE classes \in few
    <3>1. PICK n \in {2, 10}, kw \in {4, 11}, k \in {1, 2} : classes = <<FleetClass(n, kw, k)>>
      BY <2>1
    <3>2. DOMAIN classes = 1..1 /\ classes[1] = FleetClass(n, kw, k)
      BY <3>1
    <3> HIDE DEF classes, few, mixed
    <3>3. IsClass(classes[1])
      BY <1>2, <3>2
    <3> QED BY <3>2, <3>3 DEF AreClasses
  <2>2. CASE classes = mixed
    <3>1. DOMAIN classes = 1..2 /\ classes[1] = FleetClass(4, 11, 1) /\ classes[2] = FleetClass(1, 3, 1)
      BY <2>2
    <3> HIDE DEF classes, few, mixed
    <3>2. IsClass(classes[1]) /\ IsClass(classes[2])
      BY <1>2, <3>1
    <3> QED BY <3>1, <3>2 DEF AreClasses
  <2> QED BY <1>1, <2>1, <2>2
<1> HIDE DEF few, mixed
<1> QED BY <1>1, <1>3 DEF IsSizingQuestion, IsFleet

(* And its bills are of such a curve by one of the tariffs. *)
LEMMA BillGrid == \A q \in BillQuestions : IsBillQuestion(q)
<1> SUFFICES ASSUME NEW q \in BillQuestions PROVE IsBillQuestion(q)
  OBVIOUS
<1>1. q.curve \in Curves /\ q.tariff \in GridTariffs /\ q.days \in {1, 3} /\ q.historical \in {0, 4}
  BY DEF BillQuestions, GridTariffs
<1> QED BY <1>1, GridCurves DEF IsBillQuestion

(* The regimes of the grid: the kernel's six in an order of their own, each with the signal it asks for. *)
AreRegimes(R) ==
  /\ R \in Seq(ToSet(R)) /\ DOMAIN R = {1, 2, 3, 4, 5, 6}
  /\ \A i \in DOMAIN R : R[i].priority \in Seq(ToSet(R[i].priority))
  /\ \A i, j \in DOMAIN R : R[i].key = R[j].key => i = j
  /\ \E i \in DOMAIN R : R[i].hours = <<>> /\ R[i].signals = {}
  /\ \A i \in DOMAIN R : R[i].signals \subseteq {"weather_hold", "grid_peak_imminent", "demand_surge"}
  /\ \E i \in DOMAIN R : R[i].signals = {"weather_hold"}
  /\ \E i \in DOMAIN R : R[i].signals = {"grid_peak_imminent"}
  /\ \E i \in DOMAIN R : R[i].signals = {"demand_surge"}
IsRegime(r, key, hours, signals) ==
  r.key = key /\ r.hours = hours /\ r.signals = signals /\ r.priority \in Seq(ToSet(r.priority))
AreSix(K) ==
  /\ IsRegime(K[1], "weather_event", <<>>, {"weather_hold"})
  /\ IsRegime(K[2], "grid_peak", <<>>, {"grid_peak_imminent"})
  /\ IsRegime(K[3], "demand_surge", <<>>, {"demand_surge"})
  /\ IsRegime(K[4], "dispatch_rush", <<5, 10>>, {})
  /\ IsRegime(K[5], "overnight", <<20, 5>>, {})
  /\ IsRegime(K[6], "steady_state", <<>>, {})
LEMMA GridRegimesAre ==
  /\ KernelRegimes \in Seq(ToSet(KernelRegimes)) /\ DOMAIN KernelRegimes = {1, 2, 3, 4, 5, 6} /\ Len(KernelRegimes) = 6
  /\ AreSix(KernelRegimes)
<1>1. \A a, b, c, d : <<a, b, c, d>> \in Seq(ToSet(<<a, b, c, d>>))
  <2> SUFFICES ASSUME NEW a, NEW b, NEW c, NEW d PROVE <<a, b, c, d>> \in Seq(ToSet(<<a, b, c, d>>))
    OBVIOUS
  <2> DEFINE s == <<a, b, c, d>>
  <2>1. DOMAIN s = {1, 2, 3, 4} /\ s[1] = a /\ s[2] = b /\ s[3] = c /\ s[4] = d
    OBVIOUS
  <2> HIDE DEF s
  <2>2. {a, b, c, d} \subseteq ToSet(s)
    BY <2>1 DEF ToSet
  <2> QED BY <2>2 DEF s
<1> DEFINE K == KernelRegimes
<1>2. /\ DOMAIN K = {1, 2, 3, 4, 5, 6} /\ Len(K) = 6
      /\ K[1] = Regime("weather_event", <<>>, {"weather_hold"}, <<"readiness", "service_completion", "risk_hedge", "degradation">>)
      /\ K[2] = Regime("grid_peak", <<>>, {"grid_peak_imminent"}, <<"bess_peak_shave", "energy_cost", "risk_hedge", "degradation">>)
      /\ K[3] = Regime("demand_surge", <<>>, {"demand_surge"}, <<"readiness", "throughput", "deadhead", "staging">>)
      /\ K[4] = Regime("dispatch_rush", <<5, 10>>, {}, <<"readiness", "throughput", "deadhead", "energy_cost">>)
      /\ K[5] = Regime("overnight", <<20, 5>>, {}, <<"service_completion", "energy_cost", "degradation", "dwell">>)
      /\ K[6].key = "steady_state" /\ K[6].hours = <<>> /\ K[6].signals = {}
      /\ K[6].priority = <<"readiness", "service_completion", "energy_cost", "degradation", "throughput">>
  BY DEF KernelRegimes, Regime
<1>3. \A key, hours, signals, a, b, c, d : IsRegime(Regime(key, hours, signals, <<a, b, c, d>>), key, hours, signals)
  <2> SUFFICES ASSUME NEW key, NEW hours, NEW signals, NEW a, NEW b, NEW c, NEW d
               PROVE  IsRegime(Regime(key, hours, signals, <<a, b, c, d>>), key, hours, signals)
    OBVIOUS
  <2> DEFINE s == <<a, b, c, d>>
             r == Regime(key, hours, signals, s)
  <2>1. s \in Seq(ToSet(s))
    BY <1>1
  <2> HIDE DEF s
  <2>2. r.key = key /\ r.hours = hours /\ r.signals = signals /\ r.priority = s
    BY DEF Regime
  <2> HIDE DEF r
  <2>3. IsRegime(r, key, hours, signals)
    BY <2>1, <2>2 DEF IsRegime
  <2> QED BY <2>3 DEF r, s
<1>4. K[6].priority \in Seq(ToSet(K[6].priority))
  <2> DEFINE s == <<"readiness", "service_completion", "energy_cost", "degradation", "throughput">>
  <2>1. DOMAIN s = {1, 2, 3, 4, 5} /\ s[1] = "readiness" /\ s[2] = "service_completion" /\ s[3] = "energy_cost"
        /\ s[4] = "degradation" /\ s[5] = "throughput"
    OBVIOUS
  <2> HIDE DEF s
  <2>2. {"readiness", "service_completion", "energy_cost", "degradation", "throughput"} \subseteq ToSet(s)
    BY <2>1 DEF ToSet
  <2>3. s \in Seq(ToSet(s))
    BY <2>2 DEF s
  <2> QED BY <1>2, <2>3 DEF s
<1>5. K \in Seq(ToSet(K))
  <2>1. K = [i \in 1..6 |-> K[i]]
    BY DEF KernelRegimes
  <2> HIDE DEF K
  <2>2. \A i \in 1..6 : K[i] \in ToSet(K)
    BY <1>2 DEF ToSet
  <2>3. K \in [1..6 -> ToSet(K)]
    BY <2>1, <2>2
  <2> QED BY <2>3, SequenceOf
<1> HIDE DEF K
<1>6. IsRegime(K[6], "steady_state", <<>>, {})
  BY <1>2, <1>4 DEF IsRegime
<1>7. AreSix(K)
  BY <1>2, <1>3, <1>6 DEF AreSix
<1> QED BY <1>2, <1>5, <1>7 DEF K


(* The six, read from either end, are such regimes. *)
LEMMA TheseAreRegimes ==
  ASSUME NEW R, R \in Seq(ToSet(R)), DOMAIN R = {1, 2, 3, 4, 5, 6}, NEW K, AreSix(K),
         \/ R[1] = K[1] /\ R[2] = K[2] /\ R[3] = K[3] /\ R[4] = K[4] /\ R[5] = K[5] /\ R[6] = K[6]
         \/ R[1] = K[6] /\ R[2] = K[5] /\ R[3] = K[4] /\ R[4] = K[3] /\ R[5] = K[2] /\ R[6] = K[1]
  PROVE  AreRegimes(R)
<1> DEFINE a == K[1]
           b == K[2]
           c == K[3]
           d == K[4]
           e == K[5]
           f == K[6]
<1>0. /\ IsRegime(a, "weather_event", <<>>, {"weather_hold"}) /\ IsRegime(b, "grid_peak", <<>>, {"grid_peak_imminent"})
      /\ IsRegime(c, "demand_surge", <<>>, {"demand_surge"}) /\ IsRegime(d, "dispatch_rush", <<5, 10>>, {})
      /\ IsRegime(e, "overnight", <<20, 5>>, {}) /\ IsRegime(f, "steady_state", <<>>, {})
      /\ \/ R[1] = a /\ R[2] = b /\ R[3] = c /\ R[4] = d /\ R[5] = e /\ R[6] = f
         \/ R[1] = f /\ R[2] = e /\ R[3] = d /\ R[4] = c /\ R[5] = b /\ R[6] = a
  BY DEF AreSix
<1> HIDE DEF a, b, c, d, e, f
<1>1. \A i \in DOMAIN R : R[i] \in {a, b, c, d, e, f}
  BY <1>0
<1>2. \A x \in {a, b, c, d, e, f} : \E i \in DOMAIN R : R[i] = x
  BY <1>0
<1>3. \A i \in DOMAIN R : R[i].priority \in Seq(ToSet(R[i].priority))
  <2>1. \A x \in {a, b, c, d, e, f} : x.priority \in Seq(ToSet(x.priority))
    BY <1>0 DEF IsRegime
  <2> QED BY <1>1, <2>1
<1>4. \A i, j \in DOMAIN R : R[i].key = R[j].key => i = j
  <2>1. /\ a.key = "weather_event" /\ b.key = "grid_peak" /\ c.key = "demand_surge" /\ d.key = "dispatch_rush"
        /\ e.key = "overnight" /\ f.key = "steady_state"
    BY <1>0 DEF IsRegime
  <2> QED BY <1>0, <2>1
<1>5. \E i \in DOMAIN R : R[i].hours = <<>> /\ R[i].signals = {}
  BY <1>0, <1>2, SMTT(30) DEF IsRegime
<1>6. \A i \in DOMAIN R : R[i].signals \subseteq {"weather_hold", "grid_peak_imminent", "demand_surge"}
  <2>1. \A x \in {a, b, c, d, e, f} : x.signals \subseteq {"weather_hold", "grid_peak_imminent", "demand_surge"}
    BY <1>0, SMTT(30) DEF IsRegime
  <2> QED BY <1>1, <2>1
<1>7. /\ \E i \in DOMAIN R : R[i].signals = {"weather_hold"}
      /\ \E i \in DOMAIN R : R[i].signals = {"grid_peak_imminent"}
      /\ \E i \in DOMAIN R : R[i].signals = {"demand_surge"}
  <2>1. a.signals = {"weather_hold"} /\ b.signals = {"grid_peak_imminent"} /\ c.signals = {"demand_surge"}
    BY <1>0 DEF IsRegime
  <2> QED BY <1>2, <2>1
<1> QED BY <1>3, <1>4, <1>5, <1>6, <1>7 DEF AreRegimes

(* The artifacts of the grid: the order of their regimes, and the objectives of their kinds. *)
LEMMA GridArtifacts ==
  ASSUME NEW artifact \in Artifacts
  PROVE  AreRegimes(artifact.regimes) /\ DOMAIN artifact.kinds = ToSet(KernelKeys)
<1> DEFINE K == KernelRegimes
           last == Regime("steady_state", <<>>, {}, <<"energy_cost", "readiness", "unheard_of", "dwell", "energy_cost">>)
           R == artifact.regimes
<1>1. /\ DOMAIN artifact.kinds = ToSet(KernelKeys)
      /\ R = K \/ R = Reverse(K) \/ R = Append(SubSeq(K, 1, 5), last)
  <2> DEFINE keys == ToSet(KernelKeys)
             backwards == Reverse(K)
             late == Append(SubSeq(K, 1, 5), last)
  <2>1. PICK F, G : artifact \in {[kinds |-> KindOf(F), regimes |-> K], [[kinds |-> KindOf(F), regimes |-> K] EXCEPT !.regimes = backwards],
                                  [[kinds |-> KindOf(F), regimes |-> K] EXCEPT !.kinds = KindOf(G), !.regimes = late]}
    BY DEF Artifacts, KernelArtifact
  <2>2. DOMAIN KindOf(F) = keys /\ DOMAIN KindOf(G) = keys
    BY DEF KindOf
  <2> HIDE DEF keys, K, backwards, late, last
  <2>3. \/ artifact.kinds = KindOf(F) /\ R = K
        \/ artifact.kinds = KindOf(F) /\ R = backwards
        \/ artifact.kinds = KindOf(G) /\ R = late
    <3> DEFINE first == [kinds |-> KindOf(F), regimes |-> K]
    <3>1. CASE artifact = first
      BY <3>1
    <3>2. CASE artifact = [first EXCEPT !.regimes = backwards]
      BY <3>2
    <3>3. CASE artifact = [first EXCEPT !.kinds = KindOf(G), !.regimes = late]
      BY <3>3
    <3> QED BY <2>1, <3>1, <3>2, <3>3
  <2> QED BY <2>2, <2>3 DEF keys, K, backwards, late, last
<1>2. IsRegime(last, "steady_state", <<>>, {})
  <2> DEFINE s == <<"energy_cost", "readiness", "unheard_of", "dwell", "energy_cost">>
  <2>1. DOMAIN s = {1, 2, 3, 4, 5} /\ s[1] = "energy_cost" /\ s[2] = "readiness" /\ s[3] = "unheard_of"
        /\ s[4] = "dwell" /\ s[5] = "energy_cost"
    OBVIOUS
  <2>2. last.key = "steady_state" /\ last.hours = <<>> /\ last.signals = {} /\ last.priority = s
    BY DEF Regime
  <2> HIDE DEF s
  <2>3. {"energy_cost", "readiness", "unheard_of", "dwell"} \subseteq ToSet(s)
    BY <2>1 DEF ToSet
  <2>4. s \in Seq(ToSet(s))
    BY <2>3 DEF s
  <2> QED BY <2>2, <2>4 DEF IsRegime
<1> HIDE DEF K, last, R
<1>3. /\ K \in Seq(ToSet(K)) /\ DOMAIN K = {1, 2, 3, 4, 5, 6} /\ Len(K) = 6
      /\ AreSix(K)
  BY GridRegimesAre DEF K
<1>4. \A i \in 1..6 : K[i] \in ToSet(K)
  BY <1>3 DEF ToSet
<1>5. ASSUME R = K PROVE AreRegimes(R)
  BY <1>3, <1>5, TheseAreRegimes
<1>6. ASSUME R = Reverse(K) PROVE AreRegimes(R)
  <2>1. R = [i \in 1..6 |-> K[6 - i + 1]]
    BY <1>3, <1>6 DEF Reverse
  <2>2. DOMAIN R = {1, 2, 3, 4, 5, 6} /\ R[1] = K[6] /\ R[2] = K[5] /\ R[3] = K[4] /\ R[4] = K[3] /\ R[5] = K[2] /\ R[6] = K[1]
    BY <2>1
  <2>3. R \in Seq(ToSet(R))
    <3>1. \A i \in 1..6 : R[i] \in ToSet(R)
      BY <2>2 DEF ToSet
    <3>2. R \in [1..6 -> ToSet(R)]
      BY <2>1, <3>1
    <3> QED BY <3>2, SequenceOf
  <2> QED BY <1>3, <2>2, <2>3, TheseAreRegimes
<1>7. ASSUME R = Append(SubSeq(K, 1, 5), last) PROVE AreRegimes(R)
  <2> DEFINE S == ToSet(K) \cup {last}
             five == SubSeq(K, 1, 5)
  <2>1. /\ five = [i \in 1..5 |-> K[i]] /\ Len(five) = 5
    <3>1. K \in Seq(ToSet(K)) /\ 5 <= Len(K)
      BY <1>3
    <3> QED BY <3>1
  <2> HIDE DEF S, five
  <2>2. five \in Seq(S) /\ last \in S /\ Len(five) = 5 /\ \A i \in 1..5 : five[i] = K[i]
    <3>1. \A i \in 1..5 : K[i] \in S
      BY <1>4 DEF S
    <3>2. five \in [1..5 -> S]
      BY <2>1, <3>1
    <3>3. last \in S
      BY DEF S
    <3> QED BY <2>1, <3>2, <3>3, SequenceOf
  <2>3. R \in Seq(S) /\ Len(R) = 6 /\ (\A i \in 1..5 : R[i] = K[i]) /\ R[6] = last
    BY <1>7, <2>2 DEF five
  <2>4. DOMAIN R = 1..6
    BY <2>3
  <2>5. DOMAIN R = {1, 2, 3, 4, 5, 6} /\ R[1] = K[1] /\ R[2] = K[2] /\ R[3] = K[3] /\ R[4] = K[4] /\ R[5] = K[5] /\ R[6] = last
    BY <2>3, <2>4
  <2>6. R \in Seq(ToSet(R))
    <3>1. \A i \in 1..6 : R[i] \in ToSet(R)
      BY <2>4 DEF ToSet
    <3>2. R = [i \in 1..6 |-> R[i]]
      BY <2>3, <2>4
    <3>3. R \in [1..6 -> ToSet(R)]
      BY <3>1, <3>2
    <3> QED BY <3>3, SequenceOf
  <2>7. AreSix(R)
    BY <1>2, <1>3, <2>5 DEF AreSix
  <2> QED BY <2>5, <2>6, <2>7, TheseAreRegimes
<1> QED BY <1>1, <1>5, <1>6, <1>7 DEF R

(* The grid asks about such an artifact, at an hour of the day, under signals of which one is unheard of. *)
LEMMA RegimeGrid == \A q \in RegimeQuestions : IsRegimeQuestion(q)
<1> SUFFICES ASSUME NEW q \in RegimeQuestions PROVE IsRegimeQuestion(q)
  OBVIOUS
<1> DEFINE artifact == q.intent
           R == artifact.regimes
           heard == {"weather_hold", "grid_peak_imminent", "demand_surge"}
<1>1. artifact \in Artifacts /\ q.now \in 0..23 /\ q.signals \subseteq heard \cup {"unknown"}
  BY DEF RegimeQuestions
<1>2. AreRegimes(R) /\ DOMAIN artifact.kinds = ToSet(KernelKeys)
  BY <1>1, GridArtifacts, SMTT(30)
<1>3. IsArtifact(artifact)
  BY <1>2, GridAssumption DEF IsArtifact, AreRegimes
<1>4. KnownSignals(artifact) = heard
  <2> DEFINE known == KnownSignals(artifact)
  <2>1. \A x : x \in known <=> \E i \in DOMAIN R : x \in R[i].signals
    BY DEF KnownSignals
  <2> HIDE DEF known, R
  <2>2. \A x \in known : x \in heard
    BY <1>2, <2>1 DEF AreRegimes
  <2>3. "weather_hold" \in known /\ "grid_peak_imminent" \in known /\ "demand_surge" \in known
    BY <1>2, <2>1 DEF AreRegimes
  <2>4. known = heard
    BY <2>2, <2>3
  <2> QED BY <2>4 DEF known
<1>5. "unknown" \notin heard
  OBVIOUS
<1> QED BY <1>1, <1>3, <1>4, <1>5 DEF IsRegimeQuestion

(* A sum over one or two. *)
LEMMA SumOfTwo ==
  ASSUME NEW f, NEW a, NEW b, a # b, f[a] \in Nat, f[b] \in Nat
  PROVE  SumFunctionOnSet(f, {a}) = f[a] /\ SumFunctionOnSet(f, {a, b}) = f[a] + f[b]
<1>1. IsFiniteSet({a}) /\ IsFiniteSet({a, b})
  <2>1. \A x, S : IsFiniteSet(S) => IsFiniteSet(S \cup {x})
    BY FS_AddElement
  <2>2. IsFiniteSet({})
    BY FS_EmptySet
  <2>3. IsFiniteSet({} \cup {a}) /\ {} \cup {a} = {a} /\ {a} \cup {b} = {a, b}
    BY <2>1, <2>2
  <2>4. IsFiniteSet({a} \cup {b})
    BY <2>1, <2>3
  <2> QED BY <2>3, <2>4
<1>2. SumFunctionOnSet(f, {b}) = f[b] + SumFunctionOnSet(f, {b} \ {b}) /\ SumFunctionOnSet(f, {a}) = f[a] + SumFunctionOnSet(f, {a} \ {a})
  <2>1. IsFiniteSet({b}) /\ f[b] \in Int /\ f[a] \in Int
    BY <1>1, FS_Subset
  <2>2. (\A x \in {a} : f[x] \in Int) /\ (\A x \in {b} : f[x] \in Int) /\ a \in {a} /\ b \in {b}
    BY <2>1
  <2> QED BY <1>1, <2>1, <2>2, SumTakesOut
<1>3. SumFunctionOnSet(f, {a, b}) = f[a] + SumFunctionOnSet(f, {a, b} \ {a})
  <2>1. (\A x \in {a, b} : f[x] \in Int) /\ a \in {a, b}
    OBVIOUS
  <2> QED BY <1>1, <2>1, SumTakesOut
<1>4. {a} \ {a} = {} /\ {b} \ {b} = {} /\ {a, b} \ {a} = {b} /\ SumFunctionOnSet(f, {}) = 0
  BY SumOfNone
<1> DEFINE none == SumFunctionOnSet(f, {})
           one == SumFunctionOnSet(f, {a})
           other == SumFunctionOnSet(f, {b})
           both == SumFunctionOnSet(f, {a, b})
<1>5. one = f[a] + none /\ other = f[b] + none /\ both = f[a] + other /\ none = 0
  BY <1>2, <1>3, <1>4
<1> HIDE DEF none, one, other, both
<1>6. one = f[a] /\ both = f[a] + f[b]
  BY <1>5
<1> QED BY <1>6 DEF one, both

(* What is added up over a window is the sum of its hours' fields. *)
LEMMA SumOverIs ==
  ASSUME NEW section, NEW now, NEW width
  PROVE  LET W == WindowHours(now, width)
         IN  /\ SumOver(section, now, width, LAMBDA e : e.expected) = SumFunctionOnSet([h \in W |-> EntryAt(section, h).expected], W)
             /\ SumOver(section, now, width, LAMBDA e : e.baseline) = SumFunctionOnSet([h \in W |-> EntryAt(section, h).baseline], W)
<1> DEFINE W == WindowHours(now, width)
<1>1. /\ SumOver(section, now, width, LAMBDA e : e.expected) = MapThenSumSet(LAMBDA h : EntryAt(section, h).expected, W)
      /\ SumOver(section, now, width, LAMBDA e : e.baseline) = MapThenSumSet(LAMBDA h : EntryAt(section, h).baseline, W)
  BY Zenon DEF SumOver
<1> HIDE DEF W
<1>2. MapThenSumSet(LAMBDA h : EntryAt(section, h).expected, W) = SumFunctionOnSet([h \in W |-> EntryAt(section, h).expected], W)
  BY ZenonT(60) DEF MapThenSumSet, MapThenFoldSet, SumFunctionOnSet, FoldFunctionOnSet
<1>3. MapThenSumSet(LAMBDA h : EntryAt(section, h).baseline, W) = SumFunctionOnSet([h \in W |-> EntryAt(section, h).baseline], W)
  BY ZenonT(60) DEF MapThenSumSet, MapThenFoldSet, SumFunctionOnSet, FoldFunctionOnSet
<1> QED BY <1>1, <1>2, <1>3 DEF W

(* The hours of a short forecast: now and the two that follow, past midnight. *)
After(now, i) == (now + i) % 24
LEMMA ThreeHours ==
  ASSUME NEW now \in 0..23
  PROVE  /\ After(now, 1) \in 0..23 /\ After(now, 2) \in 0..23
         /\ now # After(now, 1) /\ now # After(now, 2) /\ After(now, 1) # After(now, 2)
         /\ WindowHours(now, 1) = {now} /\ WindowHours(now, 2) = {now, After(now, 1)}
<1>1. \A i \in {0, 1, 2} : After(now, i) = IF now + i < 24 THEN now + i ELSE now + i - 24
  BY DEF After
<1>2. After(now, 0) = now
  BY <1>1
<1>3. WindowHours(now, 1) = {After(now, 0)} /\ WindowHours(now, 2) = {After(now, 0), After(now, 1)}
  <2>1. 0..(1 - 1) = {0} /\ 0..(2 - 1) = {0, 1}
    OBVIOUS
  <2> QED BY <2>1 DEF WindowHours, After
<1> QED BY <1>1, <1>2, <1>3

(* An hour's entry is the one that is there, when no other is of that hour. *)
IsThree(section) ==
  /\ DOMAIN section = {1, 2, 3} /\ Len(section) = 3
  /\ section[1].hour # section[2].hour /\ section[1].hour # section[3].hour /\ section[2].hour # section[3].hour
LEMMA EntryIs ==
  ASSUME NEW section, IsThree(section), NEW i \in {1, 2, 3}
  PROVE  EntryAt(section, section[i].hour) = section[i]
<1> DEFINE h == section[i].hour
           I == {k \in 1..Len(section) : section[k].hour = h}
           first == IF I # {} THEN Min(I) ELSE 0
<1>1. SelectInSeq(section, LAMBDA e : e.hour = h) = first
  BY Zenon DEF SelectInSeq
<1>2. I = {i}
  BY DEF IsThree
<1>3. Min({i}) = i
  BY DEF Min
<1>4. first = i
  BY <1>2, <1>3
<1> HIDE DEF I, first, h
<1> QED BY <1>1, <1>4 DEF EntryAt, h

(* The two parts of a short forecast: its hours are there, and none twice. *)
IsTable(f, now) ==
  /\ IsThree(f.arrivals) /\ f.arrivals[1].hour = now /\ f.arrivals[2].hour = After(now, 1) /\ f.arrivals[3].hour = After(now, 2)
  /\ IsThree(f.load) /\ f.load[1].hour = After(now, 1) /\ f.load[2].hour = now /\ f.load[3].hour = After(now, 2)
  /\ f.arrivals # Missing /\ f.load # Missing

(* Of the arrivals the first is read, and the second when the window is two hours. *)
ArrivalsRead(width) == IF width = 2 THEN {1, 2} ELSE {1}
Expected(f, width) == f.arrivals[1].expected + IF width = 2 THEN f.arrivals[2].expected ELSE 0
Baseline(f, width) == f.arrivals[1].baseline + IF width = 2 THEN f.arrivals[2].baseline ELSE 0
SurgeIsRead(f, now, thr) ==
  LET w == thr.surgeWindow
      a == f.arrivals
  IN  /\ (\E i \in ArrivalsRead(w) : ~IsQuantity(a[i].expected) \/ ~IsQuantity(a[i].baseline)) => ~SurgeReadable(f, now, thr)
      /\ (\A i \in ArrivalsRead(w) : a[i].expected \in Nat /\ a[i].baseline \in Nat) =>
           /\ SurgeReadable(f, now, thr) <=> Baseline(f, w) > 0
           /\ SurgeHit(f, now, thr) <=> 10 * Expected(f, w) >= thr.surgeMultiplier * Baseline(f, w)
LEMMA SurgeOf ==
  ASSUME NEW f, NEW now \in 0..23, IsTable(f, now), NEW thr, thr.surgeWindow \in {1, 2}
  PROVE  SurgeIsRead(f, now, thr)
<1> DEFINE w == thr.surgeWindow
           a == f.arrivals
           next == After(now, 1)
           W == WindowHours(now, w)
           expected == [h \in W |-> EntryAt(a, h).expected]
           baseline == [h \in W |-> EntryAt(a, h).baseline]
<1>1. now # next /\ W = (IF w = 2 THEN {now, next} ELSE {now})
  BY ThreeHours
<1>2. EntryAt(a, now) = a[1] /\ EntryAt(a, next) = a[2]
  <2>1. IsThree(a) /\ a[1].hour = now /\ a[2].hour = next
    BY DEF IsTable
  <2>2. EntryAt(a, a[1].hour) = a[1] /\ EntryAt(a, a[2].hour) = a[2]
    BY <2>1, EntryIs
  <2> QED BY <2>1, <2>2
<1>3. W \subseteq HoursOf(a)
  <2>1. DOMAIN a = {1, 2, 3} /\ a[1].hour = now /\ a[2].hour = next
    BY DEF IsTable, IsThree
  <2> QED BY <1>1, <2>1 DEF HoursOf
<1>4. /\ SumOver(a, now, w, LAMBDA e : e.expected) = SumFunctionOnSet(expected, W)
      /\ SumOver(a, now, w, LAMBDA e : e.baseline) = SumFunctionOnSet(baseline, W)
  BY SumOverIs
<1>5. /\ expected[now] = a[1].expected /\ baseline[now] = a[1].baseline
      /\ w = 2 => expected[next] = a[2].expected /\ baseline[next] = a[2].baseline
  <2>1. now \in W /\ (w = 2 => next \in W)
    BY <1>1
  <2> QED BY <1>2, <2>1
<1>6. SurgeReadable(f, now, thr) <=> /\ \A h \in W : IsQuantity(EntryAt(a, h).expected) /\ IsQuantity(EntryAt(a, h).baseline)
                                     /\ SumFunctionOnSet(baseline, W) > 0
  BY <1>3, <1>4 DEF SurgeReadable
<1>7. SurgeHit(f, now, thr) <=> 10 * SumFunctionOnSet(expected, W) >= thr.surgeMultiplier * SumFunctionOnSet(baseline, W)
  BY <1>4 DEF SurgeHit
<1>8. (\A h \in W : IsQuantity(EntryAt(a, h).expected) /\ IsQuantity(EntryAt(a, h).baseline))
        <=> \A i \in ArrivalsRead(w) : IsQuantity(a[i].expected) /\ IsQuantity(a[i].baseline)
  BY <1>1, <1>2 DEF ArrivalsRead
<1>9. ASSUME \A i \in ArrivalsRead(w) : a[i].expected \in Nat /\ a[i].baseline \in Nat
      PROVE  /\ SumFunctionOnSet(expected, W) = Expected(f, w) /\ SumFunctionOnSet(baseline, W) = Baseline(f, w)
             /\ \A i \in ArrivalsRead(w) : IsQuantity(a[i].expected) /\ IsQuantity(a[i].baseline)
  <2>1. \A i \in ArrivalsRead(w) : IsQuantity(a[i].expected) /\ IsQuantity(a[i].baseline)
    BY <1>9, QuantityAssumption DEF IsQuantity
  <2>2. a[1].expected \in Nat /\ a[1].baseline \in Nat /\ (w = 2 => a[2].expected \in Nat /\ a[2].baseline \in Nat)
    BY <1>9 DEF ArrivalsRead
  <2> HIDE DEF expected, baseline, W, w
  <2>3. CASE w = 2
    <3>1. W = {now, next}
      BY <1>1, <2>3
    <3>2. /\ expected[now] = a[1].expected /\ baseline[now] = a[1].baseline
          /\ expected[next] = a[2].expected /\ baseline[next] = a[2].baseline
      BY <1>5, <2>3
    <3>3. /\ now # next /\ expected[now] \in Nat /\ expected[next] \in Nat
          /\ baseline[now] \in Nat /\ baseline[next] \in Nat
      BY <1>1, <2>2, <2>3, <3>2
    <3> HIDE DEF next
    <3>4. SumFunctionOnSet(expected, {now, next}) = expected[now] + expected[next]
      BY <3>3, SumOfTwo, ZenonT(60)
    <3>5. SumFunctionOnSet(baseline, {now, next}) = baseline[now] + baseline[next]
      BY <3>3, SumOfTwo, ZenonT(60)
    <3> QED BY <2>1, <2>3, <3>1, <3>2, <3>4, <3>5 DEF Expected, Baseline
  <2>4. CASE w # 2
    <3>1. W = {now} /\ IsFiniteSet({now}) /\ now \in {now} /\ {now} \ {now} = {}
      <4>1. IsFiniteSet({} \cup {now}) /\ {} \cup {now} = {now}
        BY FS_EmptySet, FS_AddElement
      <4> QED BY <1>1, <2>4, <4>1
    <3>2. (\A x \in {now} : expected[x] \in Int) /\ (\A x \in {now} : baseline[x] \in Int)
      BY <1>5, <2>2
    <3>3. SumFunctionOnSet(expected, W) = expected[now] + SumFunctionOnSet(expected, {})
      BY <3>1, <3>2, SumTakesOut
    <3>4. SumFunctionOnSet(baseline, W) = baseline[now] + SumFunctionOnSet(baseline, {})
      BY <3>1, <3>2, SumTakesOut
    <3>5. SumFunctionOnSet(expected, {}) = 0 /\ SumFunctionOnSet(baseline, {}) = 0
      BY SumOfNone
    <3>6. SumFunctionOnSet(expected, W) = a[1].expected + 0 /\ SumFunctionOnSet(baseline, W) = a[1].baseline + 0
      BY <1>5, <3>3, <3>4, <3>5
    <3> QED BY <2>1, <2>4, <3>6 DEF Expected, Baseline
  <2> QED BY <2>3, <2>4
<1> HIDE DEF W, expected, baseline, w
<1> QED BY <1>6, <1>7, <1>8, <1>9 DEF w, SurgeIsRead

(* Of the load the second, and the first when the window is two hours. *)
LoadsRead(width) == IF width = 2 THEN {1, 2} ELSE {2}
Peak(f, width) == IF width = 2 THEN Max({f.load[2].p90, f.load[1].p90}) ELSE f.load[2].p90
PeakIsRead(f, now, thr, target) ==
  LET w == thr.peakWindow
      l == f.load
  IN  /\ (\E i \in LoadsRead(w) : ~IsQuantity(l[i].p90)) => ~PeakReadable(f, now, thr)
      /\ (\A i \in LoadsRead(w) : l[i].p90 \in Nat) =>
           PeakReadable(f, now, thr) /\ (PeakHit(f, now, thr, target) <=> 10 * Peak(f, w) >= thr.peakFraction * target)
LEMMA PeakOf ==
  ASSUME NEW f, NEW now \in 0..23, IsTable(f, now), NEW thr, thr.peakWindow \in {1, 2}, NEW target
  PROVE  PeakIsRead(f, now, thr, target)
<1> DEFINE w == thr.peakWindow
           l == f.load
           next == After(now, 1)
           W == WindowHours(now, w)
<1>1. now # next /\ W = (IF w = 2 THEN {now, next} ELSE {now})
  BY ThreeHours
<1>2. IsThree(l) /\ l[2].hour = now /\ l[1].hour = next
  BY DEF IsTable
<1>3. EntryAt(l, now) = l[2] /\ EntryAt(l, next) = l[1]
  <2>1. EntryAt(l, l[1].hour) = l[1] /\ EntryAt(l, l[2].hour) = l[2]
    BY <1>2, EntryIs
  <2> QED BY <1>2, <2>1
<1>4. W \subseteq HoursOf(l)
  <2>1. DOMAIN l = {1, 2, 3}
    BY <1>2 DEF IsThree
  <2> QED BY <1>1, <1>2, <2>1 DEF HoursOf
<1>5. PeakReadable(f, now, thr) <=> \A i \in LoadsRead(w) : IsQuantity(l[i].p90)
  BY <1>1, <1>3, <1>4 DEF PeakReadable, LoadsRead
<1>6. (\A i \in LoadsRead(w) : l[i].p90 \in Nat) => \A i \in LoadsRead(w) : IsQuantity(l[i].p90)
  BY QuantityAssumption DEF IsQuantity
<1>7. ASSUME \A i \in LoadsRead(w) : l[i].p90 \in Nat
      PROVE  Max({EntryAt(l, h).p90 : h \in W}) = Peak(f, w)
  <2>1. CASE w = 2
    <3>1. {EntryAt(l, h).p90 : h \in W} = {l[2].p90, l[1].p90}
      BY <1>1, <1>3, <2>1
    <3> QED BY <2>1, <3>1 DEF Peak
  <2>2. CASE w # 2
    <3>1. {EntryAt(l, h).p90 : h \in W} = {l[2].p90}
      BY <1>1, <1>3, <2>2
    <3>2. l[2].p90 \in Nat
      BY <1>7 DEF LoadsRead
    <3>3. \A x \in Nat : Max({x}) = x
      BY DEF Max
    <3> QED BY <2>2, <3>1, <3>2, <3>3 DEF Peak
  <2> QED BY <2>1, <2>2
<1>8. PeakHit(f, now, thr, target) <=> 10 * Max({EntryAt(l, h).p90 : h \in W}) >= thr.peakFraction * target
  BY DEF PeakHit
<1> HIDE DEF W, w
<1> QED BY <1>5, <1>6, <1>7, <1>8 DEF w, PeakIsRead

(* What a legible call makes of a short forecast: nothing when an hour it reads cannot be read, else what its figures say. *)
IsLegible(target, thresholds) ==
  /\ IsQuantity(target) /\ target # 0
  /\ \A n \in DOMAIN thresholds : IsOverride(n, thresholds[n])
IsRead(f, thr) ==
  /\ \A i \in ArrivalsRead(thr.surgeWindow) : f.arrivals[i].expected \in Nat /\ f.arrivals[i].baseline \in Nat
  /\ \A i \in LoadsRead(thr.peakWindow) : f.load[i].p90 \in Nat
IsSpoiled(f, thr) ==
  \/ \E i \in ArrivalsRead(thr.surgeWindow) : ~IsQuantity(f.arrivals[i].expected) \/ ~IsQuantity(f.arrivals[i].baseline)
  \/ \E i \in LoadsRead(thr.peakWindow) : ~IsQuantity(f.load[i].p90)
RaisedBy(f, thr, target, weather) ==
  (IF 10 * Expected(f, thr.surgeWindow) >= thr.surgeMultiplier * Baseline(f, thr.surgeWindow) THEN {"demand_surge"} ELSE {})
    \cup (IF 10 * Peak(f, thr.peakWindow) >= thr.peakFraction * target THEN {"grid_peak_imminent"} ELSE {})
    \cup (IF weather THEN {"weather_hold"} ELSE {})

(* Its two sections are read at all: neither is absent or empty, and every entry has an hour. *)
LEMMA SectionsAre ==
  ASSUME NEW f, NEW now \in 0..23, IsTable(f, now)
  PROVE  IsSection(f.arrivals) /\ IsSection(f.load)
<1>1. 0..23 \subseteq Nat /\ After(now, 1) \in 0..23 /\ After(now, 2) \in 0..23
  BY ThreeHours
<1>2. \A x \in Nat : x # Missing
  BY QuantityAssumption DEF Unreadable
<1>3. DOMAIN <<>> = {}
  OBVIOUS
<1>4. DOMAIN f.arrivals = {1, 2, 3} /\ DOMAIN f.load = {1, 2, 3}
  BY DEF IsTable, IsThree
<1>5. f.arrivals # <<>> /\ f.load # <<>>
  BY <1>3, <1>4
<1>6. (\A i \in {1, 2, 3} : f.arrivals[i].hour # Missing) /\ (\A i \in {1, 2, 3} : f.load[i].hour # Missing)
  BY <1>1, <1>2 DEF IsTable
<1> QED BY <1>4, <1>5, <1>6 DEF IsSection, IsTable

(* So a legible call refuses what it cannot read, and raises what the figures it reads say. *)
LEMMA ForecastSaid ==
  ASSUME NEW f, NEW now \in 0..23, IsTable(f, now), NEW target, NEW weather, NEW thresholds, IsLegible(target, thresholds),
         InForce(thresholds).surgeWindow \in {1, 2}, InForce(thresholds).peakWindow \in {1, 2}
  PROVE  LET thr == InForce(thresholds)
             said == ForecastSignals(f, target, now, weather, thresholds)
         IN  /\ IsSpoiled(f, thr) => said = {"refused"}
             /\ IsRead(f, thr) /\ Baseline(f, thr.surgeWindow) > 0 => said = RaisedBy(f, thr, target, weather)
<1> DEFINE thr == InForce(thresholds)
           said == ForecastSignals(f, target, now, weather, thresholds)
<1>1. said = IF ~SurgeReadable(f, now, thr) \/ ~PeakReadable(f, now, thr) THEN {"refused"} ELSE Raised(f, now, target, weather, thr)
  <2>1. IsSection(f.arrivals) /\ IsSection(f.load)
    BY SectionsAre
  <2>2. IsQuantity(target) /\ target # 0 /\ ~\E n \in DOMAIN thresholds : ~IsOverride(n, thresholds[n])
    BY DEF IsLegible
  <2> QED BY <2>1, <2>2 DEF ForecastSignals
<1>2. thr.surgeWindow \in {1, 2} /\ thr.peakWindow \in {1, 2}
  OBVIOUS
<1> HIDE DEF thr, said
<1>3. SurgeIsRead(f, now, thr) /\ PeakIsRead(f, now, thr, target)
  BY <1>2, SurgeOf, PeakOf
<1>4. IsSpoiled(f, thr) => ~SurgeReadable(f, now, thr) \/ ~PeakReadable(f, now, thr)
  BY <1>3 DEF IsSpoiled, SurgeIsRead, PeakIsRead
<1>5. ASSUME IsRead(f, thr), Baseline(f, thr.surgeWindow) > 0
      PROVE  said = RaisedBy(f, thr, target, weather)
  <2>1. /\ \A i \in ArrivalsRead(thr.surgeWindow) : f.arrivals[i].expected \in Nat /\ f.arrivals[i].baseline \in Nat
        /\ \A i \in LoadsRead(thr.peakWindow) : f.load[i].p90 \in Nat
    BY <1>5 DEF IsRead
  <2>2. /\ SurgeReadable(f, now, thr) <=> Baseline(f, thr.surgeWindow) > 0
        /\ SurgeHit(f, now, thr) <=> 10 * Expected(f, thr.surgeWindow) >= thr.surgeMultiplier * Baseline(f, thr.surgeWindow)
    BY <1>3, <2>1 DEF SurgeIsRead
  <2>3. PeakReadable(f, now, thr) /\ (PeakHit(f, now, thr, target) <=> 10 * Peak(f, thr.peakWindow) >= thr.peakFraction * target)
    BY <1>3, <2>1 DEF PeakIsRead
  <2>4. said = Raised(f, now, target, weather, thr)
    BY <1>1, <1>5, <2>2, <2>3
  <2> QED BY <2>2, <2>3, <2>4, Zenon DEF Raised, RaisedBy
<1> QED BY <1>1, <1>4, <1>5 DEF thr, said

(* What the kernel's artifact makes of signals it knows: a regime whose first pass is readiness. *)
LEMMA KernelPlans ==
  ASSUME NEW now \in 0..23, NEW signals, signals \subseteq {"demand_surge", "grid_peak_imminent", "weather_hold"}
  PROVE  LET active == ResolveIntent(KernelArtifact, now, signals)
         IN  active # Refused /\ PassSequence(active) # <<>>
<1> DEFINE heard == {"weather_hold", "grid_peak_imminent", "demand_surge"}
           q == [kind |-> "regime", intent |-> KernelArtifact, now |-> 0, signals |-> heard]
           active == ResolveIntent(KernelArtifact, now, signals)
           R == KernelArtifact.regimes
<1>1. IsRegimeQuestion(q)
  <2>1. KernelArtifact \in Artifacts
    BY DEF Artifacts
  <2> HIDE DEF heard
  <2>2. heard \in SUBSET {"weather_hold", "grid_peak_imminent", "demand_surge", "unknown"}
    BY DEF heard
  <2>3. q \in RegimeQuestions
    BY <2>1, <2>2 DEF RegimeQuestions
  <2> QED BY <2>3, RegimeGrid
<1>2. IsArtifact(KernelArtifact) /\ signals \subseteq KnownSignals(KernelArtifact)
  <2>1. q.intent = KernelArtifact /\ q.signals = heard
    OBVIOUS
  <2>2. IsArtifact(KernelArtifact) /\ heard \subseteq KnownSignals(KernelArtifact) \cup {"unknown"}
    BY <1>1, <2>1 DEF IsRegimeQuestion
  <2> QED BY <2>2
<1>3. PICK i \in Bears(KernelArtifact, now, signals, TRUE) \cup Bears(KernelArtifact, now, signals, FALSE) : active = BuildActive(KernelArtifact, R[i])
  BY <1>2, ResolvedIs
<1>4. R[i].priority \in Seq(ToSet(R[i].priority))
  <2>1. DOMAIN R = 1..Len(R)
    BY <1>2, MembersOfSequence DEF IsArtifact
  <2> QED BY <1>2, <1>3, <2>1 DEF IsArtifact, Bears
<1>5. "readiness" \in Floors(KernelArtifact)
  <2>1. "readiness" \in ToSet(KernelKeys)
    BY DEF KernelKeys, ToSet
  <2>2. KernelArtifact.kinds = [k \in ToSet(KernelKeys) |-> IF k \in {"readiness", "service_completion"} THEN "floor" ELSE "objective"]
    BY DEF KernelArtifact, KindOf
  <2> QED BY <2>1, <2>2 DEF Floors
<1>6. /\ active.priority \in Seq(ToSet(active.priority))
      /\ 1 \in DOMAIN active.priority /\ active.priority[1] = "readiness"
  BY <1>2, <1>3, <1>4, <1>5, ActiveIs
<1>7. active # Refused
  <2>1. Refused.priority = <<>> /\ DOMAIN <<>> = {}
    BY DEF Refused
  <2> QED BY <1>6, <2>1
<1>8. PassSequence(active) # <<>>
  BY <1>6, ReadinessFirst
<1> QED BY <1>7, <1>8

(* What the conductor does with a call about the kernel's artifact, as its forecast was read. *)
KernelSignals == {"demand_surge", "grid_peak_imminent", "weather_hold"}
SignalsOf(call) == ForecastSignals(call.forecast, call.target, call.now, call.weather, call.thresholds)
Proposed(call) ==
  LET active == ResolveIntent(KernelArtifact, call.now, SignalsOf(call))
  IN  [outcome |-> "proposed", signals |-> SignalsOf(call), regime |-> active.regime,
       modes |-> IF call.regime THEN PassSequence(active) ELSE <<>>,
       grounding |-> Grounding(call.thresholds), runId |-> call.runId]
LEMMA Conducted ==
  ASSUME NEW call, call.intent = KernelArtifact, call.now \in 0..23, call.runId = "run", call.clash = FALSE
  PROVE  /\ call.target = Missing \/ SignalsOf(call) = {"refused"} => Orchestrate(call) = [outcome |-> "refused"]
         /\ call.target # Missing /\ SignalsOf(call) \subseteq KernelSignals => Orchestrate(call) = Proposed(call)
<1> DEFINE raised == SignalsOf(call)
           active == ResolveIntent(KernelArtifact, call.now, raised)
<1>1. Orchestrate(call) = IF call.target = Missing \/ raised = {"refused"} \/ active = Refused THEN [outcome |-> "refused"] ELSE Proposed(call)
  <2>1. call.runId # Missing
    BY GridAssumption
  <2> QED BY <2>1 DEF Orchestrate, SignalsOf, Proposed
<1> HIDE DEF raised, active
<1>2. raised \subseteq KernelSignals => active # Refused /\ raised # {"refused"}
  BY KernelPlans DEF active, KernelSignals
<1> QED BY <1>1, <1>2 DEF raised

(* A forecast of the grid and the same with one quantity spoiled, field by field. *)
IsForecastQuestion(q) ==
  /\ q.now \in 0..23 /\ q.e \in Nat /\ q.b \in Nat \ {0} /\ q.p \in Nat /\ q.q \in Nat
  /\ q.target \in {100, Missing} /\ q.regime \in BOOLEAN
  /\ q.spoiled[1] \in {1, 2, 3} /\ q.spoiled[2] \in {"expected", "baseline", "p90"} /\ q.by \in Unreadable
  /\ "peakFraction" \notin DOMAIN q.thresholds
  /\ (\A n \in DOMAIN q.thresholds : IsOverride(n, q.thresholds[n])) =>
       InForce(q.thresholds).surgeWindow \in {1, 2} /\ InForce(q.thresholds).peakWindow \in {1, 2}
CleanOf(q) == Forecast(q.now, q.e, q.b, q.p, q.q)
SpoiledOf(q) == Spoil(CleanOf(q), q.spoiled[1], q.spoiled[2], q.by)
LEMMA CleanIs ==
  ASSUME NEW q, IsForecastQuestion(q)
  PROVE  LET f == CleanOf(q)
             a == f.arrivals
             l == f.load
         IN  /\ IsTable(f, q.now)
             /\ a[1].expected = q.e /\ a[1].baseline = q.b /\ a[2].expected = 3 /\ a[2].baseline = 1
             /\ a[3].expected = 0 /\ a[3].baseline = 9 /\ l[1].p90 = q.q /\ l[2].p90 = q.p /\ l[3].p90 = 90
             /\ a \in [1..3 -> [hour : 0..23, expected : Quantity, baseline : Quantity]]
             /\ l \in [1..3 -> [hour : 0..23, p90 : Quantity]]
             /\ f = [arrivals |-> a, load |-> l]
<1> DEFINE f == CleanOf(q)
           a == f.arrivals
           l == f.load
           next == After(q.now, 1)
           later == After(q.now, 2)
           A == [hour : 0..23, expected : Quantity, baseline : Quantity]
           L == [hour : 0..23, p90 : Quantity]
<1>1. /\ a = <<Arrival(q.now, q.e, q.b), Arrival(next, 3, 1), Arrival(later, 0, 9)>>
      /\ l = <<[hour |-> next, p90 |-> q.q], [hour |-> q.now, p90 |-> q.p], [hour |-> later, p90 |-> 90]>>
      /\ f = [arrivals |-> a, load |-> l]
  BY DEF CleanOf, Forecast, After
<1>2. /\ q.now \in 0..23 /\ next \in 0..23 /\ later \in 0..23
      /\ q.now # next /\ q.now # later /\ next # later
  BY ThreeHours DEF IsForecastQuestion
<1>3. q.e \in Quantity /\ q.b \in Quantity /\ q.p \in Quantity /\ q.q \in Quantity /\ \A n \in Nat : n \in Quantity
  BY DEF IsForecastQuestion, Quantity
<1> HIDE DEF f, a, l, next, later
<1>4. DOMAIN a = {1, 2, 3} /\ Len(a) = 3 /\ DOMAIN l = {1, 2, 3} /\ Len(l) = 3
  BY <1>1
<1>5. /\ a[1] = Arrival(q.now, q.e, q.b) /\ a[2] = Arrival(next, 3, 1) /\ a[3] = Arrival(later, 0, 9)
      /\ l[1] = [hour |-> next, p90 |-> q.q] /\ l[2] = [hour |-> q.now, p90 |-> q.p] /\ l[3] = [hour |-> later, p90 |-> 90]
  BY <1>1
<1>6. a[1] \in A /\ a[2] \in A /\ a[3] \in A /\ l[1] \in L /\ l[2] \in L /\ l[3] \in L
  BY <1>2, <1>3, <1>5 DEF Arrival
<1>7. a = [i \in 1..3 |-> a[i]] /\ l = [i \in 1..3 |-> l[i]]
  BY <1>1
<1>8. a \in [1..3 -> A] /\ l \in [1..3 -> L]
  <2>1. (\A i \in 1..3 : a[i] \in A) /\ (\A i \in 1..3 : l[i] \in L)
    BY <1>6
  <2> HIDE DEF A, L
  <2> QED BY <1>7, <2>1
<1>9. a # Missing /\ l # Missing
  <2>1. a \in Seq(A) /\ l \in Seq(L)
    BY <1>8, SequenceOf
  <2> QED BY <2>1, QuantityAssumption DEF Arrivals, Loads
<1>10. /\ a[1].hour = q.now /\ a[2].hour = next /\ a[3].hour = later
       /\ l[1].hour = next /\ l[2].hour = q.now /\ l[3].hour = later
       /\ a[1].expected = q.e /\ a[1].baseline = q.b /\ a[2].expected = 3 /\ a[2].baseline = 1
       /\ a[3].expected = 0 /\ a[3].baseline = 9 /\ l[1].p90 = q.q /\ l[2].p90 = q.p /\ l[3].p90 = 90
  BY <1>5 DEF Arrival
<1>11. IsThree(a) /\ IsThree(l)
  BY <1>2, <1>4, <1>10 DEF IsThree
<1>12. IsTable(f, q.now)
  BY <1>9, <1>10, <1>11 DEF IsTable, a, l, next, later
<1> QED BY <1>1, <1>8, <1>10, <1>12 DEF f, a, l

(* What is spoiled is one quantity of one entry, and nothing else. *)
LEMMA SpoiledIs ==
  ASSUME NEW q, IsForecastQuestion(q)
  PROVE  LET f == CleanOf(q)
             g == SpoiledOf(q)
             Spoils(i, field) == i = q.spoiled[1] /\ field = q.spoiled[2]
         IN  /\ IsTable(g, q.now)
             /\ \A i \in {1, 2, 3} :
                  /\ g.arrivals[i].expected = (IF Spoils(i, "expected") THEN q.by ELSE f.arrivals[i].expected)
                  /\ g.arrivals[i].baseline = (IF Spoils(i, "baseline") THEN q.by ELSE f.arrivals[i].baseline)
                  /\ g.load[i].p90 = (IF Spoils(i, "p90") THEN q.by ELSE f.load[i].p90)
<1> DEFINE f == CleanOf(q)
           g == SpoiledOf(q)
           at == q.spoiled[1]
           field == q.spoiled[2]
           A == [hour : 0..23, expected : Quantity, baseline : Quantity]
           L == [hour : 0..23, p90 : Quantity]
           a == f.arrivals
           l == f.load
<1>1. /\ IsTable(f, q.now) /\ a \in [1..3 -> A] /\ l \in [1..3 -> L] /\ f = [arrivals |-> a, load |-> l]
  BY CleanIs
<1>2. at \in 1..3 /\ field \in {"expected", "baseline", "p90"} /\ q.by \in Quantity
  BY DEF IsForecastQuestion, Quantity
<1>3. g = IF field = "p90" THEN [f EXCEPT !.load[at].p90 = q.by] ELSE [f EXCEPT !.arrivals[at] = [@ EXCEPT ![field] = q.by]]
  BY DEF SpoiledOf, Spoil
<1> HIDE DEF f, g, at, field, a, l
<1>4. IsThree(a) /\ IsThree(l)
  BY <1>1 DEF IsTable, a, l
<1>5. CASE field = "p90"
  <2> DEFINE m == [l EXCEPT ![at] = [@ EXCEPT !.p90 = q.by]]
  <2>1. g.arrivals = a /\ g.load = m
    BY <1>1, <1>3, <1>5
  <2>2. m \in [1..3 -> L]
    BY <1>1, <1>2
  <2>3. \A i \in 1..3 : m[i].hour = l[i].hour /\ m[i].p90 = IF i = at THEN q.by ELSE l[i].p90
    BY <1>1, <1>2
  <2> HIDE DEF m
  <2>4. m \in Seq(L) /\ Len(m) = 3 /\ DOMAIN m = {1, 2, 3}
    <3>1. 3 \in Nat /\ DOMAIN m = {1, 2, 3}
      BY <2>2
    <3> HIDE DEF L
    <3>2. m \in Seq(L) /\ Len(m) = 3
      BY <2>2, SequenceOf
    <3> QED BY <3>1, <3>2
  <2>5. m # Missing
    BY <2>4, QuantityAssumption DEF Loads
  <2>6. IsThree(m)
    BY <1>4, <2>3, <2>4 DEF IsThree
  <2>7. IsTable(g, q.now)
    BY <1>1, <2>1, <2>3, <2>5, <2>6 DEF IsTable, a, l
  <2> QED BY <1>5, <2>1, <2>3, <2>7 DEF f, g, at, field, a, l
<1>6. CASE field # "p90"
  <2> DEFINE m == [a EXCEPT ![at] = [@ EXCEPT ![field] = q.by]]
  <2>1. g.arrivals = m /\ g.load = l
    BY <1>1, <1>3, <1>6
  <2>2. m \in [1..3 -> A]
    BY <1>1, <1>2, <1>6
  <2>3. \A i \in 1..3 : /\ m[i].hour = a[i].hour
                         /\ m[i].expected = (IF i = at /\ field = "expected" THEN q.by ELSE a[i].expected)
                         /\ m[i].baseline = (IF i = at /\ field = "baseline" THEN q.by ELSE a[i].baseline)
    BY <1>1, <1>2, <1>6
  <2> HIDE DEF m
  <2>4. m \in Seq(A) /\ Len(m) = 3 /\ DOMAIN m = {1, 2, 3}
    <3>1. 3 \in Nat /\ DOMAIN m = {1, 2, 3}
      BY <2>2
    <3> HIDE DEF A
    <3>2. m \in Seq(A) /\ Len(m) = 3
      BY <2>2, SequenceOf
    <3> QED BY <3>1, <3>2
  <2>5. m # Missing
    BY <2>4, QuantityAssumption DEF Arrivals
  <2>6. IsThree(m)
    BY <1>4, <2>3, <2>4 DEF IsThree
  <2>7. IsTable(g, q.now)
    BY <1>1, <2>1, <2>3, <2>5, <2>6 DEF IsTable, a, l
  <2> QED BY <1>6, <2>1, <2>3, <2>7 DEF f, g, at, field, a, l
<1> QED BY <1>5, <1>6

(* The hour that was spoiled is read exactly when its place is among those that are. *)
LEMMA ReadByPlace ==
  ASSUME NEW f, NEW now \in 0..23, IsTable(f, now), NEW i \in {1, 2, 3}, NEW width \in {1, 2}
  PROVE  /\ f.arrivals[i].hour \in WindowHours(now, width) <=> i \in ArrivalsRead(width)
         /\ f.load[i].hour \in WindowHours(now, width) <=> i \in LoadsRead(width)
<1>1. /\ now # After(now, 1) /\ now # After(now, 2) /\ After(now, 1) # After(now, 2)
      /\ WindowHours(now, width) = IF width = 2 THEN {now, After(now, 1)} ELSE {now}
  BY ThreeHours
<1>2. /\ f.arrivals[1].hour = now /\ f.arrivals[2].hour = After(now, 1) /\ f.arrivals[3].hour = After(now, 2)
      /\ f.load[1].hour = After(now, 1) /\ f.load[2].hour = now /\ f.load[3].hour = After(now, 2)
  BY DEF IsTable
<1> QED BY <1>1, <1>2 DEF ArrivalsRead, LoadsRead

(* What is legible of a question: the call is answered by what its forecast says. *)
IsLegibleQuestion(q) == q.target # Missing /\ \A n \in DOMAIN q.thresholds : IsOverride(n, q.thresholds[n])
LEMMA CallsAre ==
  ASSUME NEW q, IsForecastQuestion(q), NEW f, IsTable(f, q.now)
  PROVE  LET call == CallOf_(q, f)
             thr == InForce(q.thresholds)
         IN  /\ ~IsLegibleQuestion(q) => Orchestrate(call) = [outcome |-> "refused"]
             /\ IsLegibleQuestion(q) /\ IsSpoiled(f, thr) => Orchestrate(call) = [outcome |-> "refused"]
             /\ IsLegibleQuestion(q) /\ IsRead(f, thr) /\ Baseline(f, thr.surgeWindow) > 0 =>
                  Orchestrate(call) = Proposed(call) /\ SignalsOf(call) = RaisedBy(f, thr, 100, q.e = 8)
<1> DEFINE call == CallOf_(q, f)
           thr == InForce(q.thresholds)
           weather == q.e = 8
           said == ForecastSignals(f, q.target, q.now, weather, q.thresholds)
<1>1. /\ call.intent = KernelArtifact /\ call.now = q.now /\ call.runId = "run" /\ call.clash = FALSE
      /\ call.target = q.target /\ call.thresholds = q.thresholds /\ SignalsOf(call) = said
  BY DEF CallOf_, SignalsOf
<1>2. q.now \in 0..23
  BY DEF IsForecastQuestion
<1> HIDE DEF call, said, thr, weather
<1>3. /\ call.target = Missing \/ SignalsOf(call) = {"refused"} => Orchestrate(call) = [outcome |-> "refused"]
      /\ call.target # Missing /\ SignalsOf(call) \subseteq KernelSignals => Orchestrate(call) = Proposed(call)
  BY <1>1, <1>2, Conducted
<1>4. ASSUME ~IsLegibleQuestion(q) PROVE call.target = Missing \/ SignalsOf(call) = {"refused"}
  <2>1. (\E n \in DOMAIN q.thresholds : ~IsOverride(n, q.thresholds[n])) => said = {"refused"}
    BY DEF said, ForecastSignals
  <2> QED BY <1>1, <1>4, <2>1 DEF IsLegibleQuestion
<1>5. ASSUME IsLegibleQuestion(q)
      PROVE  /\ q.target = 100 /\ q.target # Missing
             /\ IsSpoiled(f, thr) => said = {"refused"}
             /\ IsRead(f, thr) /\ Baseline(f, thr.surgeWindow) > 0 => said = RaisedBy(f, thr, q.target, weather)
  <2>1. q.target = 100 /\ q.target # Missing /\ q.target # 0
    BY <1>5 DEF IsForecastQuestion, IsLegibleQuestion
  <2>2. IsLegible(q.target, q.thresholds)
    <3>1. 100 \notin Unreadable
      BY QuantityAssumption
    <3> QED BY <1>5, <2>1, <3>1 DEF IsLegible, IsLegibleQuestion, IsQuantity
  <2>3. InForce(q.thresholds).surgeWindow \in {1, 2} /\ InForce(q.thresholds).peakWindow \in {1, 2}
    BY <1>5 DEF IsForecastQuestion, IsLegibleQuestion
  <2>4. /\ IsSpoiled(f, InForce(q.thresholds)) => said = {"refused"}
        /\ IsRead(f, InForce(q.thresholds)) /\ Baseline(f, InForce(q.thresholds).surgeWindow) > 0 =>
             said = RaisedBy(f, InForce(q.thresholds), q.target, weather)
    BY <1>2, <2>2, <2>3, ForecastSaid DEF said
  <2> QED BY <2>1, <2>4 DEF thr
<1>6. RaisedBy(f, thr, 100, weather) \subseteq KernelSignals
  BY DEF RaisedBy, KernelSignals
<1> QED BY <1>1, <1>3, <1>4, <1>5, <1>6 DEF call, thr, weather

(* signals.py and orchestrate.py: for every hour, figure, threshold and     *)
(* field that is spoiled, what cannot be read refuses the call when a       *)
(* signal reads it and changes nothing when none does, and what is proposed *)
(* carries a signal exactly when its hours say so.                          *)
THEOREM CorruptionIsHeard ==
  ASSUME IsAnswered("forecast") => IsForecastQuestion(question) /\ answer = AnswerForecast(question)
  PROVE  CorruptionNeverHides
<1> SUFFICES ASSUME IsAnswered("forecast") PROVE CorruptionNeverHides
  BY DEF CorruptionNeverHides
<1> DEFINE q == question
           f == CleanOf(q)
           g == SpoiledOf(q)
           thr == InForce(q.thresholds)
           surge == thr.surgeWindow
           peak == thr.peakWindow
           at == q.spoiled[1]
           field == q.spoiled[2]
           legible == IsLegibleQuestion(q)
           hour == IF field = "p90" THEN f.load[at].hour ELSE f.arrivals[at].hour
           width == IF field = "p90" THEN peak ELSE surge
           depends == hour \in WindowHours(q.now, width)
<1>1. IsForecastQuestion(q) /\ answer = AnswerForecast(q)
  OBVIOUS
<1>2. answer.clean = Orchestrate(CallOf_(q, f)) /\ answer.spoiled = Orchestrate(CallOf_(q, g))
  BY <1>1 DEF AnswerForecast, CleanOf, SpoiledOf
<1>3. IsTable(f, q.now) /\ IsTable(g, q.now)
  BY <1>1, CleanIs, SpoiledIs
<1>4. at \in {1, 2, 3} /\ field \in {"expected", "baseline", "p90"} /\ q.by \in Unreadable /\ q.now \in 0..23
  BY <1>1 DEF IsForecastQuestion
<1>5. /\ ~legible => answer.clean = [outcome |-> "refused"]
      /\ legible /\ IsRead(f, thr) /\ Baseline(f, surge) > 0 =>
           answer.clean = Proposed(CallOf_(q, f)) /\ SignalsOf(CallOf_(q, f)) = RaisedBy(f, thr, 100, q.e = 8)
  BY <1>1, <1>2, <1>3, CallsAre
<1>6. /\ legible /\ IsSpoiled(g, thr) => answer.spoiled = [outcome |-> "refused"]
      /\ legible /\ IsRead(g, thr) /\ Baseline(g, surge) > 0 =>
           answer.spoiled = Proposed(CallOf_(q, g)) /\ SignalsOf(CallOf_(q, g)) = RaisedBy(g, thr, 100, q.e = 8)
  BY <1>1, <1>2, <1>3, CallsAre
<1>7. /\ f.arrivals[1].expected = q.e /\ f.arrivals[1].baseline = q.b /\ f.arrivals[2].expected = 3 /\ f.arrivals[2].baseline = 1
      /\ f.load[1].p90 = q.q /\ f.load[2].p90 = q.p
      /\ q.e \in Nat /\ q.b \in Nat \ {0} /\ q.p \in Nat /\ q.q \in Nat
  BY <1>1, CleanIs DEF IsForecastQuestion
<1>8. IsRead(f, thr) /\ Baseline(f, surge) > 0
  <2>1. Baseline(f, surge) > 0
    BY <1>7 DEF Baseline
  <2>2. ArrivalsRead(surge) \subseteq {1, 2} /\ LoadsRead(peak) \subseteq {1, 2}
    BY DEF ArrivalsRead, LoadsRead
  <2> QED BY <1>7, <2>1, <2>2 DEF IsRead
<1>9. legible => surge \in {1, 2} /\ peak \in {1, 2} /\ thr.peakFraction = 9
  <2>1. "peakFraction" \notin DOMAIN q.thresholds
    BY <1>1 DEF IsForecastQuestion
  <2>2. thr.peakFraction = 9
    BY <2>1 DEF InForce, Defaults
  <2> QED BY <1>1, <2>2 DEF IsForecastQuestion, IsLegibleQuestion
<1>10. \A i \in {1, 2, 3} :
         /\ g.arrivals[i].expected = (IF i = at /\ "expected" = field THEN q.by ELSE f.arrivals[i].expected)
         /\ g.arrivals[i].baseline = (IF i = at /\ "baseline" = field THEN q.by ELSE f.arrivals[i].baseline)
         /\ g.load[i].p90 = (IF i = at /\ "p90" = field THEN q.by ELSE f.load[i].p90)
  BY <1>1, SpoiledIs, SMTT(30)
<1>11. legible => (depends <=> at \in (IF field = "p90" THEN LoadsRead(peak) ELSE ArrivalsRead(surge)))
  BY <1>3, <1>4, <1>9, ReadByPlace, ZenonT(60)
<1>12. ASSUME legible, depends PROVE answer.spoiled = [outcome |-> "refused"]
  <2>1. ~IsQuantity(q.by)
    BY <1>4 DEF IsQuantity
  <2>2. CASE field = "p90"
    <3>1. at \in LoadsRead(peak) /\ g.load[at].p90 = q.by
      BY <1>4, <1>10, <1>11, <1>12, <2>2
    <3>2. IsSpoiled(g, thr)
      BY <2>1, <3>1 DEF IsSpoiled
    <3> QED BY <1>6, <1>12, <3>2
  <2>3. CASE field # "p90"
    <3>1. at \in ArrivalsRead(surge) /\ (g.arrivals[at].expected = q.by \/ g.arrivals[at].baseline = q.by)
      BY <1>4, <1>10, <1>11, <1>12, <2>3
    <3>2. IsSpoiled(g, thr)
      BY <2>1, <3>1 DEF IsSpoiled
    <3> QED BY <1>6, <1>12, <3>2
  <2> QED BY <2>2, <2>3
<1>13. ASSUME legible, ~depends PROVE answer.spoiled = answer.clean
  <2>1. /\ \A i \in ArrivalsRead(surge) : g.arrivals[i].expected = f.arrivals[i].expected /\ g.arrivals[i].baseline = f.arrivals[i].baseline
        /\ \A i \in LoadsRead(peak) : g.load[i].p90 = f.load[i].p90
    <3>1. ArrivalsRead(surge) \subseteq {1, 2, 3} /\ LoadsRead(peak) \subseteq {1, 2, 3}
      BY DEF ArrivalsRead, LoadsRead
    <3>2. at \notin (IF field = "p90" THEN LoadsRead(peak) ELSE ArrivalsRead(surge))
      BY <1>11, <1>13
    <3> HIDE DEF f, g, at, field, surge, peak
    <3> QED BY <1>4, <1>10, <3>1, <3>2
  <2>2. IsRead(g, thr)
    BY <1>8, <2>1 DEF IsRead
  <2>3. Expected(g, surge) = Expected(f, surge) /\ Baseline(g, surge) = Baseline(f, surge)
    <3>1. 1 \in ArrivalsRead(surge) /\ (surge = 2 => 2 \in ArrivalsRead(surge))
      BY DEF ArrivalsRead
    <3> HIDE DEF f, g, surge
    <3> QED BY <2>1, <3>1 DEF Expected, Baseline
  <2>4. Peak(g, peak) = Peak(f, peak)
    <3>1. 2 \in LoadsRead(peak) /\ (peak = 2 => 1 \in LoadsRead(peak))
      BY DEF LoadsRead
    <3> HIDE DEF f, g, peak
    <3> QED BY <2>1, <3>1 DEF Peak
  <2>5. RaisedBy(g, thr, 100, q.e = 8) = RaisedBy(f, thr, 100, q.e = 8)
    BY <2>3, <2>4 DEF RaisedBy
  <2>6. SignalsOf(CallOf_(q, g)) = SignalsOf(CallOf_(q, f))
    BY <1>5, <1>6, <1>8, <1>13, <2>2, <2>3, <2>5
  <2>7. Proposed(CallOf_(q, g)) = Proposed(CallOf_(q, f))
    <3>1. \A h : /\ CallOf_(q, h).now = q.now /\ CallOf_(q, h).regime = q.regime /\ CallOf_(q, h).runId = "run"
                 /\ CallOf_(q, h).thresholds = q.thresholds
      BY DEF CallOf_
    <3> HIDE DEF f, g, q
    <3> QED BY <2>6, <3>1 DEF Proposed
  <2> QED BY <1>5, <1>6, <1>8, <1>13, <2>2, <2>3, <2>7
<1>14. ASSUME legible
       PROVE  /\ answer.clean.outcome = "proposed"
              /\ "demand_surge" \in answer.clean.signals
                   <=> 10 * (q.e + IF surge = 2 THEN 3 ELSE 0) >= thr.surgeMultiplier * (q.b + IF surge = 2 THEN 1 ELSE 0)
              /\ "grid_peak_imminent" \in answer.clean.signals <=> 10 * (IF peak = 2 THEN Max({q.p, q.q}) ELSE q.p) >= 9 * 100
              /\ answer.clean.modes = <<>> <=> ~q.regime
  <2> DEFINE call == CallOf_(q, f)
             raised == SignalsOf(call)
             active == ResolveIntent(KernelArtifact, q.now, raised)
  <2>1. answer.clean = Proposed(call) /\ raised = RaisedBy(f, thr, 100, q.e = 8)
    BY <1>5, <1>8, <1>14
  <2>2. call.regime = q.regime /\ call.now = q.now
    BY DEF CallOf_
  <2>3. /\ answer.clean.outcome = "proposed" /\ answer.clean.signals = raised
        /\ answer.clean.modes = IF q.regime THEN PassSequence(active) ELSE <<>>
    BY <2>1, <2>2 DEF Proposed
  <2>4. /\ Expected(f, surge) = q.e + (IF surge = 2 THEN 3 ELSE 0) /\ Baseline(f, surge) = q.b + (IF surge = 2 THEN 1 ELSE 0)
        /\ Peak(f, peak) = IF peak = 2 THEN Max({q.p, q.q}) ELSE q.p
    BY <1>7 DEF Expected, Baseline, Peak
  <2>5. /\ "demand_surge" \in raised <=> 10 * Expected(f, surge) >= thr.surgeMultiplier * Baseline(f, surge)
        /\ "grid_peak_imminent" \in raised <=> 10 * Peak(f, peak) >= thr.peakFraction * 100
    BY <2>1 DEF RaisedBy
  <2>6. PassSequence(active) # <<>>
    <3>1. raised \subseteq {"demand_surge", "grid_peak_imminent", "weather_hold"}
      BY <2>1 DEF RaisedBy
    <3> HIDE DEF raised, q
    <3> QED BY <1>4, <3>1, KernelPlans
  <2>7. q.regime \in BOOLEAN
    BY <1>1 DEF IsForecastQuestion
  <2>8. /\ "demand_surge" \in answer.clean.signals
             <=> 10 * (q.e + IF surge = 2 THEN 3 ELSE 0) >= thr.surgeMultiplier * (q.b + IF surge = 2 THEN 1 ELSE 0)
        /\ "grid_peak_imminent" \in answer.clean.signals <=> 10 * (IF peak = 2 THEN Max({q.p, q.q}) ELSE q.p) >= 9 * 100
    <3> HIDE DEF raised, active, call, f, q, surge, peak
    <3> QED BY <1>9, <1>14, <2>3, <2>4, <2>5
  <2>9. answer.clean.modes = <<>> <=> ~q.regime
    <3> HIDE DEF raised, active, call, f, q, surge, peak
    <3> QED BY <2>3, <2>6, <2>7
  <2> HIDE DEF raised, active, call, f, q, surge, peak
  <2> QED BY <2>3, <2>8, <2>9
<1> HIDE DEF thr
<1> QED BY <1>5, <1>12, <1>13, <1>14 DEF CorruptionNeverHides, CleanOf, IsLegibleQuestion, thr

(* The grid asks about quantities, at an hour of the day, with windows that are one or two hours long when they are legal. *)
LEMMA ForecastGrid == \A q \in ForecastQuestions : IsForecastQuestion(q)
<1> SUFFICES ASSUME NEW q \in ForecastQuestions PROVE IsForecastQuestion(q)
  OBVIOUS
<1> DEFINE t == q.thresholds
<1>1. /\ q.now \in {7, 23} /\ q.e \in {0, 2, 8} /\ q.b \in {1, 2, 4} /\ q.p \in {80, 90} /\ q.q \in {80, 95}
      /\ q.target \in {100, Missing} /\ t \in Thresholds_ /\ q.regime \in BOOLEAN
      /\ q.spoiled \in {1, 2, 3} \X {"expected", "baseline", "p90"} /\ q.by \in {NotFinite, Missing}
  BY DEF ForecastQuestions
<1>2. q.spoiled[1] \in {1, 2, 3} /\ q.spoiled[2] \in {"expected", "baseline", "p90"} /\ q.by \in Unreadable
  BY <1>1 DEF Unreadable
<1> HIDE DEF t
<1>3. /\ "peakFraction" \notin DOMAIN t
      /\ "surgeWindow" \in DOMAIN t /\ t.surgeWindow \in {1, 2}
      /\ "peakWindow" \in DOMAIN t /\ t.peakWindow \in {1, 2, 25}
  <2> DEFINE Fits(s) == /\ "peakFraction" \notin DOMAIN s
                        /\ "surgeWindow" \in DOMAIN s /\ s.surgeWindow \in {1, 2}
                        /\ "peakWindow" \in DOMAIN s /\ s.peakWindow \in {1, 2, 25}
  <2>1. Fits(Short)
    BY DEF Short
  <2>2. Fits([Short EXCEPT !.surgeWindow = 1, !.peakWindow = 2])
    BY DEF Short
  <2>3. \A m : Fits(ShortAnd(m))
    BY DEF ShortAnd
  <2>4. Fits([surgeWindow |-> 2, peakWindow |-> 1, odd |-> 1])
    OBVIOUS
  <2>5. Fits([Short EXCEPT !.peakWindow = 25])
    BY DEF Short
  <2> HIDE DEF Fits
  <2>6. \A s \in Thresholds_ : Fits(s)
    BY <2>1, <2>2, <2>3, <2>4, <2>5, Zenon DEF Thresholds_
  <2>7. Fits(t)
    BY <1>1, <2>6
  <2> QED BY <2>7 DEF Fits
<1>4. InForce(t).surgeWindow = t.surgeWindow /\ InForce(t).peakWindow = t.peakWindow
  BY <1>3 DEF InForce, Defaults
<1>5. ASSUME \A n \in DOMAIN t : IsOverride(n, t[n])
      PROVE  t.peakWindow # 25
  <2>1. IsOverride("peakWindow", t.peakWindow)
    BY <1>3, <1>5
  <2> QED BY <2>1 DEF IsOverride, WindowNames
<1> QED BY <1>1, <1>2, <1>3, <1>4, <1>5 DEF IsForecastQuestion, t

(* The grid's questions are ones the theorems are about, and an answer is   *)
(* the one its function gives.                                              *)
IsWellAsked ==
  /\ question.kind = "storage" => IsStorageQuestion(question)
  /\ question.kind = "learn" => IsLearnQuestion(question)
  /\ question.kind = "recall" => IsRecallQuestion(question)
  /\ question.kind = "wear" => IsWearQuestion(question)
  /\ question.kind = "sizing" => IsSizingQuestion(question)
  /\ question.kind = "bill" => IsBillQuestion(question)
  /\ question.kind = "regime" => IsRegimeQuestion(question)
  /\ question.kind = "forecast" => IsForecastQuestion(question)
IsWellAnswered ==
  /\ IsAnswered("storage") => answer = AnswerStorage(question)
  /\ IsAnswered("learn") => answer = AnswerLearn(question)
  /\ IsAnswered("recall") => answer = AnswerRecall(question)
  /\ IsAnswered("wear") => answer = AnswerWear(question)
  /\ IsAnswered("sizing") => answer = AnswerSizing(question)
  /\ IsAnswered("bill") => answer = AnswerBill(question)
  /\ IsAnswered("regime") => answer = AnswerRegime(question)
  /\ IsAnswered("forecast") => answer = AnswerForecast(question)
Proved == {"storage", "learn", "recall", "wear", "sizing", "bill", "regime", "forecast"}

(* No question of another kind is one of theirs. *)
LEMMA OtherGrids ==
  /\ \A q \in PolicyQuestions : q.kind \notin Proved
  /\ \A q \in PlanQuestions : q.kind \notin Proved
  /\ \A q \in AlphaQuestions : q.kind \notin Proved
  /\ \A q \in AnswerQuestions : q.kind \notin Proved
  /\ \A q \in PackQuestions : q.kind \notin Proved
  /\ \A q \in RobotQuestions : q.kind \notin Proved
  /\ \A q \in CdrQuestions : q.kind \notin Proved
  /\ \A q \in ClassQuestions : q.kind \notin Proved
  /\ \A q \in LoadQuestions : q.kind \notin Proved
  /\ Unasked.kind \notin Proved /\ Unconsulted.kind \notin Proved
  /\ AsksForASlotAnswer \/ AsksToCompare => question.kind \notin Proved
<1>1. \A q \in PolicyQuestions : q.kind \notin Proved
  <2> SUFFICES ASSUME NEW q \in PolicyQuestions PROVE q.kind \notin Proved
    OBVIOUS
  <2>1. PICK l \in Lots, p \in {"fifo", "greedy", "as_is"} : q = [kind |-> "policy", lot |-> l, plan |-> <<>>, by |-> p]
    BY DEF PolicyQuestions
  <2> QED BY <2>1 DEF Proved
<1>2. \A q \in PlanQuestions : q.kind \notin Proved
  <2> SUFFICES ASSUME NEW q \in PlanQuestions PROVE q.kind \notin Proved
    OBVIOUS
  <2>1. PICK p \in Plans(PlanLot, FreshCall(FALSE, 0)) : q = [kind |-> "policy", lot |-> PlanLot, plan |-> p, by |-> "plan"]
    BY Zenon DEF PlanQuestions
  <2> DEFINE lot == PlanLot
  <2> HIDE DEF lot
  <2>2. q = [kind |-> "policy", lot |-> lot, plan |-> p, by |-> "plan"]
    BY <2>1, Zenon DEF lot
  <2> QED BY <2>2 DEF Proved
<1>3. \A q \in AlphaQuestions : q.kind \notin Proved
  BY DEF AlphaQuestions, Proved
<1>4. \A q \in AnswerQuestions \cup PackQuestions : q.kind \notin Proved
  BY DEF AnswerQuestions, PackQuestions, Proved
<1>5. \A q \in RobotQuestions \cup CdrQuestions : q.kind \notin Proved
  BY DEF RobotQuestions, CdrQuestions, Proved
<1>6. \A q \in ClassQuestions \cup LoadQuestions : q.kind \notin Proved
  BY DEF ClassQuestions, LoadQuestions, Proved
<1>7. Unasked.kind \notin Proved /\ Unconsulted.kind \notin Proved
  BY DEF Unasked, Unconsulted, Proved
<1>8. AsksForASlotAnswer => question.kind \notin Proved
  BY DEF AsksForASlotAnswer, Proved
<1>9. AsksToCompare => question.kind \notin Proved
  BY DEF AsksToCompare, Proved
<1> QED BY <1>1, <1>2, <1>3, <1>4, <1>5, <1>6, <1>7, <1>8, <1>9

(* What is asked in the first state is well asked, and not yet answered. *)
LEMMA OutsideInitHolds == OutsideInit => IsWellAsked /\ IsWellAnswered
<1> SUFFICES ASSUME OutsideInit PROVE IsWellAsked /\ answer = Unanswered
  BY DEF IsWellAnswered, IsAnswered
<1>1. answer = Unanswered
  BY DEF OutsideInit, Init
<1>2. \/ question \in StorageQuestions \/ question \in LearnQuestions \/ AsksForARecall \/ question \in WearQuestions
      \/ question \in SizingQuestions \/ question \in BillQuestions \/ question \in RegimeQuestions \/ question \in ForecastQuestions
      \/ question.kind \notin Proved
  <2>1. CASE Init
    <3>1. \/ question \in StorageQuestions \/ question \in LearnQuestions \/ AsksForARecall \/ question \in WearQuestions
          \/ question = Unasked \/ question \in RegimeQuestions \/ question \in ForecastQuestions
          \/ question \in PolicyQuestions \/ question \in PlanQuestions \/ question \in AlphaQuestions
          \/ AsksForASlotAnswer \/ question \in BillQuestions \/ AsksToCompare \/ question \in SizingQuestions
      BY <2>1, Zenon DEF Init
    <3> QED BY <3>1, OtherGrids, Zenon
  <2>2. CASE ~Init
    <3>1. \/ question = Unconsulted \/ question \in AnswerQuestions \/ question \in PackQuestions \/ question \in RobotQuestions
          \/ question \in CdrQuestions \/ question \in ClassQuestions \/ question \in LoadQuestions
      BY <2>2, Zenon DEF OutsideInit
    <3> QED BY <3>1, OtherGrids, Zenon
  <2> QED BY <2>1, <2>2
<1>3. CASE question \in StorageQuestions
  <2>1. question.kind = "storage"
    BY <1>3 DEF StorageQuestions
  <2> QED BY <1>1, <1>3, <2>1, StorageGrid DEF IsWellAsked
<1>4. CASE question \in LearnQuestions
  <2>1. question.kind = "learn"
    BY <1>4 DEF LearnQuestions
  <2> QED BY <1>1, <1>4, <2>1, LearnGrid DEF IsWellAsked
<1>5. CASE AsksForARecall
  <2>1. question.kind = "recall"
    BY <1>5 DEF AsksForARecall
  <2> QED BY <1>1, <1>5, <2>1, RecallGrid DEF IsWellAsked
<1>6. CASE question \in WearQuestions
  <2>1. question.kind = "wear"
    BY <1>6 DEF WearQuestions
  <2> QED BY <1>1, <1>6, <2>1, WearGrid, SMTT(30) DEF IsWellAsked
<1>7. CASE question \in SizingQuestions
  <2>1. question.kind = "sizing"
    BY <1>7 DEF SizingQuestions
  <2> QED BY <1>1, <1>7, <2>1, SizingGrid DEF IsWellAsked
<1>8. CASE question \in BillQuestions
  <2>1. question.kind = "bill"
    BY <1>8 DEF BillQuestions
  <2> QED BY <1>1, <1>8, <2>1, BillGrid DEF IsWellAsked
<1>9. CASE question \in RegimeQuestions
  <2>1. question.kind = "regime"
    BY <1>9 DEF RegimeQuestions
  <2> QED BY <1>1, <1>9, <2>1, RegimeGrid DEF IsWellAsked
<1>10. CASE question \in ForecastQuestions
  <2>1. question.kind = "forecast"
    BY <1>10 DEF ForecastQuestions
  <2> QED BY <1>1, <1>10, <2>1, ForecastGrid DEF IsWellAsked
<1>11. CASE question.kind \notin Proved
  BY <1>1, <1>11 DEF IsWellAsked, Proved
<1> QED BY <1>2, <1>3, <1>4, <1>5, <1>6, <1>7, <1>8, <1>9, <1>10, <1>11

(* A step answers the question that is there with the function of its kind, or leaves both alone. *)
LEMMA OutsideStep ==
  ASSUME IsWellAsked, IsWellAnswered, [OutsideNext]_<<question, answer, doctrineVars, advisorVars>>
  PROVE  IsWellAsked' /\ IsWellAnswered'
<1>1. question' = question /\ \/ answer' = answer
                              \/ /\ answer = Unanswered
                                 /\ question.kind = "storage" => answer' = AnswerStorage(question)
                                 /\ question.kind = "learn" => answer' = AnswerLearn(question)
                                 /\ question.kind = "recall" => answer' = AnswerRecall(question)
                                 /\ question.kind = "wear" => answer' = AnswerWear(question)
                                 /\ question.kind = "sizing" => answer' = AnswerSizing(question)
                                 /\ question.kind = "bill" => answer' = AnswerBill(question)
                                 /\ question.kind = "regime" => answer' = AnswerRegime(question)
                                 /\ question.kind = "forecast" => answer' = AnswerForecast(question)
  <2>1. CASE Next
    BY <2>1 DEF Next, Answer
  <2>2. CASE OutsideNext /\ ~Next
    BY <2>2 DEF OutsideNext, Answer
  <2>3. CASE UNCHANGED <<question, answer, doctrineVars, advisorVars>>
    BY <2>3
  <2> QED BY <2>1, <2>2, <2>3
<1>2. CASE answer' = answer
  BY <1>1, <1>2 DEF IsWellAsked, IsWellAnswered, IsAnswered
<1>3. CASE answer' # answer
  BY <1>1, <1>3 DEF IsWellAsked, IsWellAnswered, IsAnswered
<1> QED BY <1>2, <1>3

(* So everything the run asks has the answer the theorems are about: the    *)
(* dispatch, what is learned, the recall, the wear report, the site that is *)
(* sized, the bill, the regime in force and what is made of a forecast are  *)
(* as they say in every state.                                              *)
THEOREM DecisionsAreKept ==
  OutsideSpec => [](/\ DispatchIsLeast /\ LearningKeepsTheSiteUp /\ WorseOffIsNeverSpared /\ SizedSiteDelivers
                    /\ BillAddsUp /\ ConductorPlansWhatFired /\ CorruptionNeverHides)
<1> DEFINE Inv == IsWellAsked /\ IsWellAnswered
<1>1. OutsideInit => Inv
  BY OutsideInitHolds
<1>2. Inv /\ [OutsideNext]_<<question, answer, doctrineVars, advisorVars>> => Inv'
  BY OutsideStep
<1>3. Inv => /\ DispatchIsLeast /\ LearningKeepsTheSiteUp /\ WorseOffIsNeverSpared /\ SizedSiteDelivers
             /\ BillAddsUp /\ ConductorPlansWhatFired /\ CorruptionNeverHides
  <2> SUFFICES ASSUME Inv
               PROVE  /\ DispatchIsLeast /\ LearningKeepsTheSiteUp /\ WorseOffIsNeverSpared /\ SizedSiteDelivers
                      /\ BillAddsUp /\ ConductorPlansWhatFired /\ CorruptionNeverHides
    OBVIOUS
  <2>1. /\ IsAnswered("storage") => IsStorageQuestion(question) /\ answer = AnswerStorage(question)
        /\ IsAnswered("learn") => IsLearnQuestion(question) /\ answer = AnswerLearn(question)
        /\ IsAnswered("recall") => IsRecallQuestion(question) /\ answer = AnswerRecall(question)
        /\ IsAnswered("wear") => IsWearQuestion(question) /\ answer = AnswerWear(question)
        /\ IsAnswered("sizing") => IsSizingQuestion(question) /\ answer = AnswerSizing(question)
        /\ IsAnswered("bill") => IsBillQuestion(question) /\ answer = AnswerBill(question)
        /\ IsAnswered("regime") => IsRegimeQuestion(question) /\ answer = AnswerRegime(question)
        /\ IsAnswered("forecast") => IsForecastQuestion(question) /\ answer = AnswerForecast(question)
    BY DEF IsWellAsked, IsWellAnswered, IsAnswered
  <2> QED BY <2>1, TheDispatchIsLeast, LearningIsEarned, NoneIsSpared, SizedSitesDeliver, BillsAddUp, TheConductorPlansWhatFired, CorruptionIsHeard
<1> HIDE DEF Inv
<1> QED BY <1>1, <1>2, <1>3, PTL DEF OutsideSpec

-----------------------------------------------------------------------------
(* No process ever solves on a doctrine nobody stamped.  What makes it     *)
(* inductive: a fingerprint on disk, however old, is that of a content     *)
(* once stamped, and a cache keeps only what was verified when it was read.*)
HeldDocuments == Documents \cup {NoFile}
DoctrineTypeOK ==
  /\ files \in [Paths -> HeldDocuments]
  /\ loaded \in [Paths -> HeldDocuments]
  /\ solvedOn \in HeldDocuments
  /\ files[Kernel] # NoFile
FingerprintsAreStamped ==
  \A p \in Paths : (files[p] # NoFile /\ files[p].fingerprint # <<>>) => files[p].fingerprint \in stamped
CachesAreStamped == \A p \in Paths : loaded[p] # NoFile => Content(loaded[p]) \in stamped
DoctrineInv == DoctrineTypeOK /\ FingerprintsAreStamped /\ CachesAreStamped /\ SolvesOnStampedDoctrine

(* The kernel's own artifact is on a path. *)
LEMMA KernelIsAPath == Kernel \in Paths
BY DEF Paths

(* A document is a record of its three parts, and its content is never the *)
(* empty fingerprint of a file nobody stamped.                             *)
LEMMA ContentOfDocument ==
  ASSUME NEW doc \in Documents
  PROVE  /\ Canonical(doc) \in Contents
         /\ Canonical(doc) # <<>>
         /\ Canonical(doc) = Content(doc)
         /\ doc # NoFile
BY NoFileAssumption DEF Documents, Contents, Canonical, Content

(* Initially the kernel alone is on disk, freshly stamped. *)
LEMMA DoctrineInitHolds == DoctrineInit => DoctrineInv
<1> SUFFICES ASSUME DoctrineInit PROVE DoctrineInv
  OBVIOUS
<1>1. PICK b \in Bodies : files = [p \in Paths |-> IF p = Kernel THEN Fresh(b) ELSE NoFile]
  BY DEF DoctrineInit
<1>2. /\ Fresh(b) \in Documents
      /\ Fresh(b).fingerprint = Content(Fresh(b))
  BY DEF Fresh, Documents, Contents, Canonical, Content
<1>3. DoctrineTypeOK
  BY <1>1, <1>2, KernelIsAPath, NoFileAssumption DEF DoctrineTypeOK, HeldDocuments, DoctrineInit
<1>4. FingerprintsAreStamped
  BY <1>1, <1>2, KernelIsAPath DEF FingerprintsAreStamped, DoctrineInit
<1>5. CachesAreStamped /\ SolvesOnStampedDoctrine
  BY DEF CachesAreStamped, SolvesOnStampedDoctrine, DoctrineInit
<1> QED BY <1>3, <1>4, <1>5 DEF DoctrineInv

(* A file written by hand keeps the fingerprint it had, or has none.       *)
LEMMA WriteKeepsStamps ==
  ASSUME DoctrineInv, NEW path \in Paths, NEW b \in Bodies, NEW v \in Nat, Write(path, b, v)
  PROVE  DoctrineInv'
<1> DEFINE kept == IF files[path] = NoFile THEN <<>> ELSE files[path].fingerprint
<1> DEFINE doc == [body |-> b, version |-> v, fingerprint |-> kept]
<1>1. /\ files' = [files EXCEPT ![path] = doc]
      /\ UNCHANGED <<loaded, solvedOn, stamped>>
  BY DEF Write, Touched, DoctrineInv, DoctrineTypeOK
<1>2. files[path] \in HeldDocuments /\ files \in [Paths -> HeldDocuments]
  BY DEF DoctrineInv, DoctrineTypeOK
<1>3. kept \in Contents \cup {<<>>}
  BY <1>2 DEF HeldDocuments, Documents
<1>4. doc \in Documents /\ doc # NoFile /\ doc.fingerprint = kept
  BY <1>3, NoFileAssumption DEF Documents
<1> HIDE DEF doc
<1>5. DoctrineTypeOK'
  BY <1>1, <1>2, <1>4, KernelIsAPath DEF DoctrineInv, DoctrineTypeOK, HeldDocuments
<1>6. FingerprintsAreStamped'
  <2> SUFFICES ASSUME NEW p \in Paths, files'[p] # NoFile, files'[p].fingerprint # <<>>
               PROVE  files'[p].fingerprint \in stamped'
    BY DEF FingerprintsAreStamped
  <2>1. CASE p = path
    BY <1>1, <1>2, <1>4, <2>1 DEF DoctrineInv, FingerprintsAreStamped
  <2>2. CASE p # path
    BY <1>1, <1>2, <2>2 DEF DoctrineInv, FingerprintsAreStamped
  <2> QED BY <2>1, <2>2
<1>7. CachesAreStamped' /\ SolvesOnStampedDoctrine'
  BY <1>1 DEF DoctrineInv, CachesAreStamped, SolvesOnStampedDoctrine, Content
<1> QED BY <1>5, <1>6, <1>7 DEF DoctrineInv

(* A file taken away takes its fingerprint with it. *)
LEMMA RemoveFileKeepsStamps ==
  ASSUME DoctrineInv, NEW path \in Paths, RemoveFile(path)
  PROVE  DoctrineInv'
<1>1. /\ files' = [files EXCEPT ![path] = NoFile]
      /\ path # Kernel
      /\ UNCHANGED <<loaded, solvedOn, stamped>>
  BY DEF RemoveFile, Touched
<1>2. DoctrineTypeOK'
  BY <1>1, KernelIsAPath DEF DoctrineInv, DoctrineTypeOK, HeldDocuments
<1>3. FingerprintsAreStamped'
  BY <1>1 DEF DoctrineInv, DoctrineTypeOK, FingerprintsAreStamped
<1>4. CachesAreStamped' /\ SolvesOnStampedDoctrine'
  BY <1>1 DEF DoctrineInv, CachesAreStamped, SolvesOnStampedDoctrine, Content
<1> QED BY <1>2, <1>3, <1>4 DEF DoctrineInv

(* stamp() records the content together with its fingerprint.              *)
LEMMA StampKeepsStamps ==
  ASSUME DoctrineInv, NEW path \in Paths, Stamp(path)
  PROVE  DoctrineInv'
<1>1. /\ files' = [files EXCEPT ![path].fingerprint = Canonical(files[path])]
      /\ files[path] \in Documents
      /\ stamped' = stamped \cup {Content(files[path])}
      /\ UNCHANGED <<loaded, solvedOn>>
  BY DEF Stamp, Touched, DoctrineInv, DoctrineTypeOK, HeldDocuments
<1>2. Canonical(files[path]) \in Contents /\ Canonical(files[path]) = Content(files[path])
  BY <1>1, ContentOfDocument
<1> DEFINE doc == [files[path] EXCEPT !.fingerprint = Canonical(files[path])]
<1>3. doc \in Documents /\ doc.fingerprint = Canonical(files[path])
  BY <1>1, <1>2 DEF Documents
<1>4. files' = [files EXCEPT ![path] = doc]
  BY <1>1
<1>5. doc # NoFile
  BY <1>3, NoFileAssumption
<1> HIDE DEF doc
<1>6. DoctrineTypeOK'
  BY <1>1, <1>3, <1>4, <1>5, KernelIsAPath DEF DoctrineInv, DoctrineTypeOK, HeldDocuments
<1>7. FingerprintsAreStamped'
  BY <1>1, <1>2, <1>3, <1>4 DEF DoctrineInv, DoctrineTypeOK, FingerprintsAreStamped
<1>8. CachesAreStamped' /\ SolvesOnStampedDoctrine'
  BY <1>1 DEF DoctrineInv, CachesAreStamped, SolvesOnStampedDoctrine, Content
<1> QED BY <1>6, <1>7, <1>8 DEF DoctrineInv

(* A call answers from the cache, or reads a file it verifies, or fails.   *)
LEMMA ResolveKeepsStamps ==
  ASSUME DoctrineInv, NEW pack \in Paths, Resolve(pack)
  PROVE  DoctrineInv'
<1> DEFINE path == PathFor(pack)
<1>1. path \in Paths /\ files[path] # NoFile
  BY KernelIsAPath DEF PathFor, DoctrineInv, DoctrineTypeOK
<1>2. files[path] \in Documents /\ loaded[path] \in HeldDocuments
  BY <1>1 DEF DoctrineInv, DoctrineTypeOK, HeldDocuments
<1>3. UNCHANGED <<files, stamped>>
  BY DEF Resolve
<1>4. FingerprintsAreStamped'
  BY <1>3 DEF DoctrineInv, FingerprintsAreStamped
<1>5. CASE loaded[path] # NoFile /\ solvedOn' = loaded[path] /\ UNCHANGED loaded
  <2>1. DoctrineTypeOK'
    BY <1>2, <1>3, <1>5 DEF DoctrineInv, DoctrineTypeOK
  <2>2. CachesAreStamped' /\ SolvesOnStampedDoctrine'
    BY <1>1, <1>3, <1>5 DEF DoctrineInv, CachesAreStamped, SolvesOnStampedDoctrine, Content
  <2> QED BY <1>4, <2>1, <2>2 DEF DoctrineInv
<1>6. CASE /\ IsVerified(files[path])
           /\ loaded' = [loaded EXCEPT ![path] = files[path]]
           /\ solvedOn' = files[path]
  <2>1. Content(files[path]) \in stamped
    <3>1. files[path].fingerprint = Content(files[path]) /\ files[path].fingerprint # <<>>
      BY <1>2, <1>6, ContentOfDocument DEF IsVerified
    <3> QED BY <1>1, <3>1 DEF DoctrineInv, FingerprintsAreStamped
  <2>2. DoctrineTypeOK'
    BY <1>1, <1>2, <1>3, <1>6 DEF DoctrineInv, DoctrineTypeOK, HeldDocuments
  <2>3. CachesAreStamped'
    <3> SUFFICES ASSUME NEW p \in Paths, loaded'[p] # NoFile
                 PROVE  Content(loaded'[p]) \in stamped'
      BY DEF CachesAreStamped, Content
    <3>1. CASE p = path
      <4>1. loaded'[p] = files[path]
        BY <1>6, <3>1 DEF DoctrineInv, DoctrineTypeOK
      <4> QED BY <1>3, <2>1, <4>1
    <3>2. CASE p # path
      <4>1. loaded'[p] = loaded[p]
        BY <1>6, <3>2 DEF DoctrineInv, DoctrineTypeOK
      <4> QED BY <1>3, <4>1 DEF DoctrineInv, CachesAreStamped
    <3> QED BY <3>1, <3>2
  <2>4. SolvesOnStampedDoctrine'
    BY <1>3, <1>6, <2>1 DEF SolvesOnStampedDoctrine, Content
  <2> QED BY <1>4, <2>2, <2>3, <2>4 DEF DoctrineInv
<1>7. CASE solvedOn' = NoFile /\ UNCHANGED loaded
  <2>1. DoctrineTypeOK'
    BY <1>3, <1>7 DEF DoctrineInv, DoctrineTypeOK, HeldDocuments
  <2>2. CachesAreStamped' /\ SolvesOnStampedDoctrine'
    BY <1>3, <1>7 DEF DoctrineInv, CachesAreStamped, SolvesOnStampedDoctrine, Content
  <2> QED BY <1>4, <2>1, <2>2 DEF DoctrineInv
<1> QED BY <1>5, <1>6, <1>7 DEF Resolve

(* A process that starts again holds nothing. *)
LEMMA RestartKeepsStamps == DoctrineInv /\ Restart => DoctrineInv'
<1> SUFFICES ASSUME DoctrineInv, Restart PROVE DoctrineInv'
  OBVIOUS
<1>1. DoctrineTypeOK'
  BY DEF DoctrineInv, DoctrineTypeOK, HeldDocuments, Restart
<1>2. FingerprintsAreStamped' /\ CachesAreStamped' /\ SolvesOnStampedDoctrine'
  BY DEF DoctrineInv, FingerprintsAreStamped, CachesAreStamped, SolvesOnStampedDoctrine, Restart
<1> QED BY <1>1, <1>2 DEF DoctrineInv

(* Every step of authors and processes keeps the invariant. *)
LEMMA DoctrineStep == DoctrineInv /\ [DoctrineNext]_doctrineVars => DoctrineInv'
<1> SUFFICES ASSUME DoctrineInv, [DoctrineNext]_doctrineVars PROVE DoctrineInv'
  OBVIOUS
<1>1. CASE \E p \in Paths, b \in Bodies, v \in 1..2 : Write(p, b, v)
  BY <1>1, WriteKeepsStamps
<1>2. CASE \E p \in Paths : Stamp(p)
  BY <1>2, StampKeepsStamps
<1>3. CASE \E p \in Paths : RemoveFile(p)
  BY <1>3, RemoveFileKeepsStamps
<1>4. CASE \E p \in Paths : Resolve(p)
  BY <1>4, ResolveKeepsStamps
<1>5. CASE Restart
  BY <1>5, RestartKeepsStamps
<1>6. CASE UNCHANGED doctrineVars
  BY <1>6 DEF doctrineVars, DoctrineInv, DoctrineTypeOK, FingerprintsAreStamped, CachesAreStamped,
              SolvesOnStampedDoctrine, Content
<1> QED BY <1>1, <1>2, <1>3, <1>4, <1>5, <1>6 DEF DoctrineNext

(* regime.py's caches over intent.py's verified load: every call is        *)
(* answered with a doctrine some author stamped, or fails.                 *)
THEOREM AlwaysStampedDoctrine == DoctrineSpec => []SolvesOnStampedDoctrine
<1>1. DoctrineInv => SolvesOnStampedDoctrine
  BY DEF DoctrineInv
<1> QED BY <1>1, DoctrineInitHolds, DoctrineStep, PTL DEF DoctrineSpec
-----------------------------------------------------------------------------
(* What a run is billed.  What makes the cap inductive: alone, a process   *)
(* that keeps the file knows what the file tells, and the file tells all   *)
(* that was paid but for what no file heard of and what each lost file had *)
(* told.                                                                   *)
FiringStates ==
  [at : {"started", "asking", "fired"}, run : Runs, kept : BOOLEAN, priced : BOOLEAN, memory : [Runs -> Nat]]
SpendPerRun == [Runs -> Nat]
AdvisorTypeOK ==
  /\ firing \in [Firings -> {Idle} \cup FiringStates]
  /\ spendFile \in SpendPerRun \cup {Torn}
  /\ paid \in SpendPerRun /\ unwritten \in SpendPerRun
  /\ wipes \in Nat /\ started \in Nat

IsBusy(p) == firing[p].at # "idle"
FiledSpend == Read(TRUE)
MostOfARun == Cap - 1 + MaxCost
NeverTwo == \A p, q \in Firings : IsBusy(p) /\ IsBusy(q) => p = q
KnowsTheFile ==
  \A p \in Firings :
    /\ firing[p].at \in {"started", "asking"} /\ firing[p].kept => firing[p].memory = FiledSpend
    /\ firing[p].at = "asking" => firing[p].memory[firing[p].run] < Cap
FileWithinCap == \A r \in Runs : FiledSpend[r] <= MostOfARun
AllIsAccounted == \A r \in Runs : paid[r] <= FiledSpend[r] + MostOfARun * wipes + MaxCost * unwritten[r]
CapInv == AdvisorTypeOK /\ (~overlapped => NeverTwo /\ KnowsTheFile /\ FileWithinCap /\ AllIsAccounted)

(* The cap, a call and what the file may tell are numbers. *)
LEMMA MostIsNat == MostOfARun \in Nat /\ Cap \in Nat /\ MaxCost \in Nat
BY AdvisorAssumption DEF MostOfARun

(* What a process reads is a count for every run, torn file or not. *)
LEMMA FiledIsCounts == AdvisorTypeOK => FiledSpend \in SpendPerRun /\ \A kept \in BOOLEAN : Read(kept) \in SpendPerRun
BY DEF AdvisorTypeOK, FiledSpend, Read, SpendPerRun, Nothing

(* Initially nothing is told and nothing was paid. *)
LEMMA AdvisorInitHolds == AdvisorInit => CapInv
<1> SUFFICES ASSUME AdvisorInit PROVE CapInv
  OBVIOUS
<1>1. Nothing \in SpendPerRun /\ \A r \in Runs : Nothing[r] = 0
  BY DEF Nothing, SpendPerRun
<1>2. AdvisorTypeOK
  BY <1>1 DEF AdvisorInit, AdvisorTypeOK
<1>3. FiledSpend = Nothing
  BY DEF AdvisorInit, FiledSpend, Read
<1>4. \A p \in Firings : firing[p].at = "idle"
  BY DEF AdvisorInit, Idle
<1>5. NeverTwo /\ KnowsTheFile
  BY <1>4 DEF NeverTwo, IsBusy, KnowsTheFile
<1>6. FileWithinCap /\ AllIsAccounted
  BY <1>1, <1>3, MostIsNat DEF FileWithinCap, AllIsAccounted, AdvisorInit
<1> QED BY <1>2, <1>5, <1>6 DEF CapInv

(* A process that is busy is one of FiringStates, and what it becomes is one.  *)
LEMMA BusyIsProcess ==
  ASSUME AdvisorTypeOK, NEW p \in Firings, IsBusy(p)
  PROVE  firing[p] \in FiringStates /\ firing[p].run \in Runs
BY DEF AdvisorTypeOK, IsBusy, Idle, FiringStates

(* A process that moves on is the same process at another place. *)
LEMMA MovedOn ==
  ASSUME AdvisorTypeOK, NEW p \in Firings, IsBusy(p), NEW at \in {"started", "asking", "fired"},
         firing' = [firing EXCEPT ![p].at = at]
  PROVE  /\ firing' \in [Firings -> {Idle} \cup FiringStates]
         /\ firing'[p].at = at /\ firing'[p].run = firing[p].run /\ firing'[p].kept = firing[p].kept
         /\ firing'[p].memory = firing[p].memory
         /\ \A q \in Firings \ {p} : firing'[q] = firing[q]
<1>1. firing[p] \in FiringStates
  BY BusyIsProcess
<1>2. firing' = [firing EXCEPT ![p] = [firing[p] EXCEPT !.at = at]]
  OBVIOUS
<1>3. [firing[p] EXCEPT !.at = at] \in FiringStates
  BY <1>1 DEF FiringStates
<1>4. [firing[p] EXCEPT !.at = at] = [at |-> at, run |-> firing[p].run, kept |-> firing[p].kept,
                                      priced |-> firing[p].priced, memory |-> firing[p].memory]
  BY <1>1 DEF FiringStates
<1> QED BY <1>2, <1>3, <1>4 DEF AdvisorTypeOK

(* A process that gives up is idle, and nobody else moved. *)
LEMMA GivenUp ==
  ASSUME AdvisorTypeOK, NEW p \in Firings, firing' = [firing EXCEPT ![p] = Idle]
  PROVE  /\ firing' \in [Firings -> {Idle} \cup FiringStates]
         /\ firing'[p].at = "idle" /\ \A q \in Firings \ {p} : firing'[q] = firing[q]
BY DEF AdvisorTypeOK, Idle

(* A process that moves on, or gives up, costs nothing. *)
LEMMA SpendingNothing ==
  ASSUME CapInv, NEW p \in Firings, IsBusy(p), UNCHANGED <<spendFile, paid, unwritten, wipes, overlapped, started>>,
         \/ firing' = [firing EXCEPT ![p] = Idle]
         \/ firing' = [firing EXCEPT ![p].at = "fired"]
         \/ firing[p].at = "started" /\ MayAsk(p) /\ firing' = [firing EXCEPT ![p].at = "asking"]
  PROVE  CapInv'
<1>1. PICK at \in {"idle", "asking", "fired"} :
        /\ firing' \in [Firings -> {Idle} \cup FiringStates]
        /\ \A q \in Firings \ {p} : firing'[q] = firing[q]
        /\ firing'[p].at = at
        /\ at = "asking" => /\ firing[p].at = "started" /\ MayAsk(p) /\ firing'[p].run = firing[p].run
                            /\ firing'[p].kept = firing[p].kept /\ firing'[p].memory = firing[p].memory
  BY MovedOn, GivenUp DEF CapInv
<1>2. AdvisorTypeOK'
  BY <1>1 DEF CapInv, AdvisorTypeOK
<1>3. ASSUME ~overlapped' PROVE (NeverTwo /\ KnowsTheFile /\ FileWithinCap /\ AllIsAccounted)'
  <2>1. NeverTwo /\ KnowsTheFile /\ FileWithinCap /\ AllIsAccounted
    BY <1>3 DEF CapInv
  <2>2. NeverTwo'
    BY <1>1, <2>1 DEF NeverTwo, IsBusy
  <2>3. KnowsTheFile'
    <3>1. FiledSpend' = FiledSpend
      BY DEF FiledSpend, Read, Nothing
    <3>2. ASSUME NEW q \in Firings
          PROVE  /\ firing'[q].at \in {"started", "asking"} /\ firing'[q].kept => firing'[q].memory = FiledSpend
                 /\ firing'[q].at = "asking" => firing'[q].memory[firing'[q].run] < Cap
      <4>1. CASE q = p
        BY <1>1, <2>1, <4>1 DEF KnowsTheFile, MayAsk
      <4>2. CASE q # p
        BY <1>1, <2>1, <4>2 DEF KnowsTheFile
      <4> QED BY <4>1, <4>2
    <3> QED BY <3>1, <3>2 DEF KnowsTheFile
  <2>4. FileWithinCap' /\ AllIsAccounted'
    BY <2>1 DEF FileWithinCap, AllIsAccounted, FiledSpend, Read, Nothing
  <2> QED BY <2>2, <2>3, <2>4
<1> QED BY <1>2, <1>3 DEF CapInv

(* One more of a price. *)
LEMMA OnceMore == \A m, n \in Int : m * n \in Int /\ m * (n + 1) = m * n + m
OBVIOUS

(* A process that is out of its call, with nobody else about, leaves the    *)
(* books as it found them when the file tells what was paid.                *)
LEMMA OutOfItsCall ==
  ASSUME CapInv, NEW p \in Firings, IsBusy(p), overlapped' = overlapped, AdvisorTypeOK',
         firing'[p].at \in {"idle", "fired"}, \A q \in Firings \ {p} : firing'[q] = firing[q],
         ~overlapped => FileWithinCap' /\ AllIsAccounted'
  PROVE  CapInv'
<1> SUFFICES ASSUME ~overlapped PROVE NeverTwo' /\ KnowsTheFile'
  BY DEF CapInv
<1>1. NeverTwo
  BY DEF CapInv
<1>2. \A q \in Firings \ {p} : firing'[q].at = "idle"
  BY <1>1 DEF NeverTwo, IsBusy
<1> QED BY <1>2 DEF NeverTwo, IsBusy, KnowsTheFile

(* What a call costs is at most the price of one more call that costs. *)
LEMMA CostIsWithinACall ==
  ASSUME NEW cost \in 0..MaxCost
  PROVE  IfItCosts(cost) \in Nat /\ \A n \in Nat : MaxCost * (n + IfItCosts(cost)) >= MaxCost * n + cost
<1>1. CASE cost = 0
  BY <1>1, MostIsNat DEF IfItCosts
<1>2. CASE cost # 0
  <2>1. IfItCosts(cost) = 1
    BY <1>2, MostIsNat DEF IfItCosts
  <2>2. ASSUME NEW n \in Nat PROVE MaxCost * (n + 1) >= MaxCost * n + cost
    <3>1. MaxCost * n \in Int /\ MaxCost * (n + 1) = MaxCost * n + MaxCost
      BY MostIsNat, OnceMore
    <3> QED BY <3>1, MostIsNat
  <2> QED BY <2>1, <2>2
<1> QED BY <1>1, <1>2

(* What a call cost, when no file hears of it. *)
LEMMA Unheard ==
  ASSUME CapInv, NEW p \in Firings, firing[p].at = "asking", NEW cost \in 0..MaxCost,
         paid' = [paid EXCEPT ![firing[p].run] = @ + cost],
         unwritten' = [unwritten EXCEPT ![firing[p].run] = @ + IfItCosts(cost)]
  PROVE  /\ paid' \in SpendPerRun /\ unwritten' \in SpendPerRun
         /\ ~overlapped => \A r \in Runs : paid'[r] <= FiledSpend[r] + MostOfARun * wipes + MaxCost * unwritten'[r]
<1>1. paid \in SpendPerRun /\ unwritten \in SpendPerRun /\ firing[p].run \in Runs /\ wipes \in Nat
  BY BusyIsProcess DEF CapInv, AdvisorTypeOK, IsBusy
<1>2. paid' \in SpendPerRun /\ unwritten' \in SpendPerRun
  <2>1. cost \in Nat /\ IfItCosts(cost) \in Nat
    BY MostIsNat, CostIsWithinACall
  <2> QED BY <1>1, <2>1 DEF SpendPerRun
<1>3. ASSUME ~overlapped, NEW r \in Runs
      PROVE  paid'[r] <= FiledSpend[r] + MostOfARun * wipes + MaxCost * unwritten'[r]
  <2>1. paid[r] <= FiledSpend[r] + MostOfARun * wipes + MaxCost * unwritten[r]
    BY <1>3 DEF CapInv, AllIsAccounted
  <2>2. paid[r] \in Nat /\ FiledSpend[r] \in Nat /\ unwritten[r] \in Nat
    BY <1>1, FiledIsCounts DEF CapInv, SpendPerRun
  <2>3. MostOfARun * wipes \in Int /\ MaxCost * unwritten[r] \in Int
    BY <1>1, <2>2, MostIsNat, OnceMore
  <2>4. CASE r = firing[p].run
    <3>1. paid'[r] = paid[r] + cost /\ unwritten'[r] = unwritten[r] + IfItCosts(cost)
      BY <1>1, <2>4 DEF SpendPerRun
    <3>2. MaxCost * unwritten'[r] >= MaxCost * unwritten[r] + cost
      BY <2>2, <3>1, CostIsWithinACall
    <3>3. unwritten'[r] \in Nat /\ MaxCost * unwritten'[r] \in Int
      BY <1>2, MostIsNat, OnceMore DEF SpendPerRun
    <3> QED BY <2>1, <2>2, <2>3, <3>1, <3>2, <3>3, MostIsNat
  <2>5. CASE r # firing[p].run
    <3>1. paid'[r] = paid[r] /\ unwritten'[r] = unwritten[r]
      BY <1>1, <2>5 DEF SpendPerRun
    <3> QED BY <2>1, <3>1
  <2> QED BY <2>4, <2>5
<1> QED BY <1>2, <1>3

(* The books after a call no file heard of, whatever became of the process. *)
LEMMA UnheardBooks ==
  ASSUME CapInv, NEW p \in Firings, firing[p].at = "asking", NEW cost \in 0..MaxCost,
         paid' = [paid EXCEPT ![firing[p].run] = @ + cost],
         unwritten' = [unwritten EXCEPT ![firing[p].run] = @ + IfItCosts(cost)],
         firing' \in [Firings -> {Idle} \cup FiringStates], firing'[p].at \in {"idle", "fired"},
         \A q \in Firings \ {p} : firing'[q] = firing[q],
         UNCHANGED <<spendFile, wipes, overlapped, started>>
  PROVE  CapInv'
<1>1. IsBusy(p) /\ AdvisorTypeOK
  BY DEF IsBusy, CapInv
<1>2. paid' \in SpendPerRun /\ unwritten' \in SpendPerRun
  BY Unheard
<1>3. AdvisorTypeOK'
  BY <1>1, <1>2 DEF AdvisorTypeOK
<1>4. FiledSpend' = FiledSpend
  BY DEF FiledSpend, Read, Nothing
<1>5. ASSUME ~overlapped PROVE FileWithinCap' /\ AllIsAccounted'
  <2>1. FileWithinCap'
    BY <1>4, <1>5 DEF CapInv, FileWithinCap
  <2>2. \A r \in Runs : paid'[r] <= FiledSpend[r] + MostOfARun * wipes + MaxCost * unwritten'[r]
    BY <1>5, Unheard
  <2>3. wipes' = wipes
    OBVIOUS
  <2>4. AllIsAccounted'
    BY <1>4, <2>2, <2>3 DEF AllIsAccounted
  <2> QED BY <2>1, <2>4
<1> QED BY <1>1, <1>3, <1>5, OutOfItsCall

(* A process that loses its reply, or its life, to a call leaves the books in order. *)
LEMMA UnheardHolds ==
  ASSUME CapInv, NEW p \in Firings, firing[p].at = "asking", NEW cost \in 0..MaxCost,
         paid' = [paid EXCEPT ![firing[p].run] = @ + cost],
         unwritten' = [unwritten EXCEPT ![firing[p].run] = @ + IfItCosts(cost)],
         \/ firing' = [firing EXCEPT ![p] = Idle]
         \/ firing' = [firing EXCEPT ![p].at = "fired"],
         UNCHANGED <<spendFile, wipes, overlapped, started>>
  PROVE  CapInv'
<1>1. IsBusy(p) /\ AdvisorTypeOK
  BY DEF IsBusy, CapInv
<1>2. /\ firing' \in [Firings -> {Idle} \cup FiringStates] /\ firing'[p].at \in {"idle", "fired"}
      /\ \A q \in Firings \ {p} : firing'[q] = firing[q]
  BY <1>1, MovedOn, GivenUp
<1> QED BY <1>2, UnheardBooks

(* A process with another memory is the same process otherwise. *)
LEMMA WithMemory ==
  ASSUME NEW f \in FiringStates, NEW m
  PROVE  [f EXCEPT !.at = "fired", !.memory = m]
           = [at |-> "fired", run |-> f.run, kept |-> f.kept, priced |-> f.priced, memory |-> m]
<1>1. PICK at, run, kept, priced, memory :
         f = [at |-> at, run |-> run, kept |-> kept, priced |-> priced, memory |-> memory]
  BY DEF FiringStates
<1>2. f.run = run /\ f.kept = kept /\ f.priced = priced
  BY <1>1
<1>3. PICK g : g = [f EXCEPT !.at = "fired"]
  OBVIOUS
<1>4. g = [at |-> "fired", run |-> run, kept |-> kept, priced |-> priced, memory |-> memory]
  BY <1>1, <1>3
<1>5. [f EXCEPT !.at = "fired", !.memory = m] = [g EXCEPT !.memory = m]
  BY <1>3
<1>6. [g EXCEPT !.memory = m] = [at |-> "fired", run |-> run, kept |-> kept, priced |-> priced, memory |-> m]
  BY <1>4
<1> QED BY <1>2, <1>5, <1>6

(* The reply of a process that keeps the file: what it writes is what was filed and the reply's cost. *)
LEMMA HeardHolds ==
  ASSUME CapInv, NEW p \in Firings, firing[p].at = "asking", firing[p].kept, NEW cost \in 0..MaxCost,
         NEW memory, memory = [firing[p].memory EXCEPT ![firing[p].run] = @ + cost],
         paid' = [paid EXCEPT ![firing[p].run] = @ + cost],
         firing' = [firing EXCEPT ![p] = [firing[p] EXCEPT !.at = "fired", !.memory = memory]],
         spendFile' = memory,
         UNCHANGED <<unwritten, wipes, overlapped, started>>
  PROVE  CapInv'
<1>1. IsBusy(p) /\ AdvisorTypeOK /\ firing[p] \in FiringStates /\ firing[p].run \in Runs
  BY BusyIsProcess DEF IsBusy, CapInv
<1>2. paid \in SpendPerRun /\ unwritten \in SpendPerRun /\ wipes \in Nat /\ firing[p].memory \in SpendPerRun
  BY <1>1 DEF AdvisorTypeOK, FiringStates, SpendPerRun
<1>3. memory \in SpendPerRun /\ paid' \in SpendPerRun
  BY <1>1, <1>2, MostIsNat DEF SpendPerRun
<1>4. [firing[p] EXCEPT !.at = "fired", !.memory = memory]
        = [at |-> "fired", run |-> firing[p].run, kept |-> firing[p].kept, priced |-> firing[p].priced, memory |-> memory]
  BY <1>1, WithMemory
<1>5. /\ firing' \in [Firings -> {Idle} \cup FiringStates] /\ firing'[p].at = "fired"
      /\ \A q \in Firings \ {p} : firing'[q] = firing[q]
  BY <1>1, <1>3, <1>4 DEF AdvisorTypeOK, FiringStates, SpendPerRun
<1>6. AdvisorTypeOK'
  BY <1>1, <1>3, <1>5 DEF AdvisorTypeOK
<1>7. FiledSpend' = memory
  BY <1>3, AdvisorAssumption DEF FiledSpend, Read, SpendPerRun
<1>8. ASSUME ~overlapped PROVE FileWithinCap' /\ AllIsAccounted'
  <2>1. firing[p].memory = FiledSpend /\ firing[p].memory[firing[p].run] < Cap
    BY <1>8 DEF CapInv, KnowsTheFile
  <2>2. ASSUME NEW r \in Runs
        PROVE  /\ memory[r] <= MostOfARun
               /\ paid'[r] <= memory[r] + MostOfARun * wipes + MaxCost * unwritten[r]
    <3>1. FiledSpend[r] <= MostOfARun /\ paid[r] <= FiledSpend[r] + MostOfARun * wipes + MaxCost * unwritten[r]
      BY <1>8 DEF CapInv, FileWithinCap, AllIsAccounted
    <3>2. paid[r] \in Nat /\ FiledSpend[r] \in Nat /\ unwritten[r] \in Nat /\ FiledSpend \in SpendPerRun
      BY <1>1, <1>2, FiledIsCounts DEF SpendPerRun
    <3>3. MostOfARun * wipes \in Int /\ MaxCost * unwritten[r] \in Int
      BY <1>2, <3>2, MostIsNat, OnceMore
    <3>4. CASE r = firing[p].run
      <4>1. memory[r] = FiledSpend[r] + cost /\ paid'[r] = paid[r] + cost /\ FiledSpend[r] < Cap
        BY <1>1, <1>2, <2>1, <3>2, <3>4 DEF SpendPerRun
      <4>2. memory[r] <= MostOfARun
        BY <3>2, <4>1, MostIsNat DEF MostOfARun
      <4> QED BY <3>1, <3>2, <3>3, <4>1, <4>2
    <3>5. CASE r # firing[p].run
      <4>1. memory[r] = FiledSpend[r] /\ paid'[r] = paid[r]
        BY <1>1, <1>2, <2>1, <3>2, <3>5 DEF SpendPerRun
      <4> QED BY <3>1, <4>1
    <3> QED BY <3>4, <3>5
  <2>3. wipes' = wipes /\ unwritten' = unwritten
    OBVIOUS
  <2> QED BY <1>7, <2>2, <2>3 DEF FileWithinCap, AllIsAccounted
<1> QED BY <1>1, <1>5, <1>6, <1>8, OutOfItsCall

(* A writer's death loses what the file told, which was less than the cap and a call. *)
LEMMA DiesWritingHolds ==
  ASSUME CapInv, NEW p \in Firings, NEW cost \in 0..MaxCost, DiesWriting(p, cost)
  PROVE  CapInv'
<1>1. /\ firing[p].at = "asking" /\ firing' = [firing EXCEPT ![p] = Idle]
      /\ paid' = [paid EXCEPT ![firing[p].run] = @ + cost]
      /\ unwritten' = [unwritten EXCEPT ![firing[p].run] = @ + IfItCosts(cost)]
      /\ spendFile' = Torn /\ wipes' = wipes + 1 /\ overlapped' = overlapped /\ started' = started
  BY DEF DiesWriting
<1>2. IsBusy(p) /\ AdvisorTypeOK /\ wipes \in Nat
  BY <1>1 DEF IsBusy, CapInv, AdvisorTypeOK
<1>3. /\ firing' \in [Firings -> {Idle} \cup FiringStates] /\ firing'[p].at \in {"idle", "fired"}
      /\ \A q \in Firings \ {p} : firing'[q] = firing[q]
  BY <1>1, <1>2, GivenUp
<1>4. paid' \in SpendPerRun /\ unwritten' \in SpendPerRun
  BY <1>1, Unheard
<1>5. AdvisorTypeOK'
  BY <1>1, <1>2, <1>3, <1>4 DEF AdvisorTypeOK
<1>6. \A r \in Runs : FiledSpend'[r] = 0
  BY <1>1 DEF FiledSpend, Read, Nothing
<1>7. ASSUME ~overlapped PROVE FileWithinCap' /\ AllIsAccounted'
  <2>1. ASSUME NEW r \in Runs
        PROVE  paid'[r] <= MostOfARun * (wipes + 1) + MaxCost * unwritten'[r]
    <3>1. FiledSpend[r] <= MostOfARun /\ paid'[r] <= FiledSpend[r] + MostOfARun * wipes + MaxCost * unwritten'[r]
      BY <1>1, <1>7, Unheard DEF CapInv, FileWithinCap
    <3>2. FiledSpend[r] \in Nat /\ unwritten'[r] \in Nat /\ paid'[r] \in Nat
      BY <1>2, <1>4, FiledIsCounts DEF SpendPerRun
    <3>3. MostOfARun * wipes \in Int /\ MaxCost * unwritten'[r] \in Int /\ MostOfARun * (wipes + 1) = MostOfARun * wipes + MostOfARun
      BY <1>2, <3>2, MostIsNat, OnceMore
    <3> QED BY <3>1, <3>2, <3>3, MostIsNat
  <2>2. FileWithinCap'
    BY <1>6, MostIsNat DEF FileWithinCap
  <2>3. ASSUME NEW r \in Runs PROVE 0 + MostOfARun * (wipes + 1) \in Int /\ 0 + MostOfARun * (wipes + 1) = MostOfARun * (wipes + 1)
    BY <1>2, MostIsNat, OnceMore
  <2>4. AllIsAccounted'
    BY <1>1, <1>6, <2>1, <2>3 DEF AllIsAccounted
  <2> QED BY <2>2, <2>4
<1> QED BY <1>1, <1>2, <1>3, <1>5, <1>7, OutOfItsCall

(* The reply of a process that keeps no file is one no file hears of. *)
LEMMA UnkeptHolds ==
  ASSUME CapInv, NEW p \in Firings, firing[p].at = "asking", ~firing[p].kept, NEW cost \in 0..MaxCost,
         NEW memory, memory = [firing[p].memory EXCEPT ![firing[p].run] = @ + cost],
         paid' = [paid EXCEPT ![firing[p].run] = @ + cost],
         unwritten' = [unwritten EXCEPT ![firing[p].run] = @ + IfItCosts(cost)],
         firing' = [firing EXCEPT ![p] = [firing[p] EXCEPT !.at = "fired", !.memory = memory]],
         UNCHANGED <<spendFile, wipes, overlapped, started>>
  PROVE  CapInv'
<1>1. IsBusy(p) /\ AdvisorTypeOK /\ firing[p] \in FiringStates /\ firing[p].run \in Runs
  BY BusyIsProcess DEF IsBusy, CapInv
<1>2. memory \in SpendPerRun
  BY <1>1, MostIsNat DEF FiringStates, SpendPerRun
<1>3. [firing[p] EXCEPT !.at = "fired", !.memory = memory]
        = [at |-> "fired", run |-> firing[p].run, kept |-> firing[p].kept, priced |-> firing[p].priced, memory |-> memory]
  BY <1>1, WithMemory
<1>4. /\ firing' \in [Firings -> {Idle} \cup FiringStates] /\ firing'[p].at = "fired"
      /\ \A q \in Firings \ {p} : firing'[q] = firing[q]
  BY <1>1, <1>2, <1>3 DEF AdvisorTypeOK, FiringStates, SpendPerRun
<1> QED BY <1>1, <1>4, UnheardBooks

(* A reply: written to the file, kept from it, or priced at nothing. *)
LEMMA ReplyHolds ==
  ASSUME CapInv, NEW p \in Firings, NEW cost \in 0..MaxCost, Reply(p, cost)
  PROVE  CapInv'
<1>1. /\ firing[p].at = "asking" /\ paid' = [paid EXCEPT ![firing[p].run] = @ + cost]
      /\ UNCHANGED <<wipes, overlapped, started>>
  BY DEF Reply
<1>2. cost \in Nat /\ Usd(p, cost) \in {0, cost}
  BY MostIsNat, SMTT(30) DEF Usd
<1>3. CASE Usd(p, cost) > 0 /\ firing[p].kept
  <2>1. Usd(p, cost) = cost
    BY <1>2, <1>3
  <2> DEFINE memory == [firing[p].memory EXCEPT ![firing[p].run] = @ + cost]
  <2>2. /\ firing' = [firing EXCEPT ![p] = [firing[p] EXCEPT !.at = "fired", !.memory = memory]]
        /\ spendFile' = memory /\ unwritten' = unwritten
    BY <1>3, <2>1 DEF Reply, AddSpend
  <2>3. \E m : m = memory
    OBVIOUS
  <2> QED BY <1>1, <1>3, <2>2, HeardHolds
<1>4. CASE Usd(p, cost) > 0 /\ ~firing[p].kept
  <2>1. Usd(p, cost) = cost
    BY <1>2, <1>4, SMTT(30)
  <2>2. PICK memory : firing' = [firing EXCEPT ![p] = [firing[p] EXCEPT !.at = "fired", !.memory = memory]]
                      /\ memory = [firing[p].memory EXCEPT ![firing[p].run] = @ + cost]
    BY <1>4, <2>1 DEF Reply, AddSpend
  <2>3. spendFile' = spendFile /\ unwritten' = [unwritten EXCEPT ![firing[p].run] = @ + IfItCosts(cost)]
    BY <1>4 DEF Reply, AddSpend
  <2> QED BY <1>1, <1>4, <2>2, <2>3, UnkeptHolds
<1>5. CASE ~ (Usd(p, cost) > 0)
  <2>1. /\ firing' = [firing EXCEPT ![p].at = "fired"] /\ spendFile' = spendFile
        /\ unwritten' = [unwritten EXCEPT ![firing[p].run] = @ + IfItCosts(cost)]
    BY <1>5 DEF Reply, AddSpend
  <2> QED BY <1>1, <2>1, UnheardHolds
<1> QED BY <1>3, <1>4, <1>5

(* A process that starts alone knows what the file tells, or keeps no file. *)
LEMMA StartHolds ==
  ASSUME CapInv, NEW p \in Firings, NEW r \in Runs, NEW kept \in BOOLEAN, NEW priced \in BOOLEAN,
         Start(p, r, kept, priced)
  PROVE  CapInv'
<1> DEFINE new == [at |-> "started", run |-> r, kept |-> kept, priced |-> priced, memory |-> Read(kept)]
<1>1. /\ firing[p].at = "idle" /\ firing' = [firing EXCEPT ![p] = new] /\ started' = started + 1
      /\ overlapped' = (overlapped \/ \E q \in Firings \ {p} : firing[q].at # "idle")
      /\ UNCHANGED <<spendFile, paid, unwritten, wipes>>
  BY DEF Start
<1>2. AdvisorTypeOK /\ firing \in [Firings -> {Idle} \cup FiringStates]
  BY DEF CapInv, AdvisorTypeOK
<1>3. Read(kept) \in SpendPerRun /\ (kept => Read(kept) = FiledSpend)
  BY <1>2, FiledIsCounts DEF FiledSpend
<1>4. new \in FiringStates
  BY <1>3 DEF FiringStates, SpendPerRun
<1>5. /\ firing' \in [Firings -> {Idle} \cup FiringStates] /\ firing'[p] = new
      /\ \A q \in Firings \ {p} : firing'[q] = firing[q]
  <2> HIDE DEF new
  <2> QED BY <1>1, <1>2, <1>4
<1>6. AdvisorTypeOK'
  BY <1>1, <1>2, <1>5 DEF AdvisorTypeOK
<1>7. FiledSpend' = FiledSpend
  BY <1>1 DEF FiledSpend, Read, Nothing
<1>8. ASSUME ~overlapped' PROVE (NeverTwo /\ KnowsTheFile /\ FileWithinCap /\ AllIsAccounted)'
  <2>1. ~overlapped /\ \A q \in Firings \ {p} : firing'[q].at = "idle"
    <3>1. ~(overlapped \/ \E q \in Firings \ {p} : firing[q].at # "idle")
      BY <1>1, <1>8, Zenon
    <3> QED BY <1>5, <3>1
  <2>2. FileWithinCap /\ AllIsAccounted
    BY <2>1 DEF CapInv
  <2>3. NeverTwo'
    BY <2>1 DEF NeverTwo, IsBusy
  <2>4. firing'[p].at = "started" /\ (firing'[p].kept => firing'[p].memory = FiledSpend)
    BY <1>3, <1>5
  <2>5. KnowsTheFile'
    <3>1. ASSUME NEW q \in Firings
          PROVE  /\ firing'[q].at \in {"started", "asking"} /\ firing'[q].kept => firing'[q].memory = FiledSpend
                 /\ firing'[q].at = "asking" => firing'[q].memory[firing'[q].run] < Cap
      BY <2>1, <2>4
    <3> QED BY <1>7, <3>1 DEF KnowsTheFile
  <2>6. FileWithinCap' /\ AllIsAccounted'
    BY <1>1, <1>7, <2>2 DEF FileWithinCap, AllIsAccounted
  <2> QED BY <2>3, <2>5, <2>6
<1> QED BY <1>6, <1>8 DEF CapInv

(* Every step of the advisors keeps the invariant. *)
LEMMA CapInvStep == CapInv /\ [AdvisorNext]_advisorVars => CapInv'
<1> SUFFICES ASSUME CapInv, [AdvisorNext]_advisorVars PROVE CapInv'
  OBVIOUS
<1>1. ASSUME NEW p \in Firings, NEW r \in Runs, NEW kept \in BOOLEAN, NEW priced \in BOOLEAN, Start(p, r, kept, priced)
      PROVE  CapInv'
  BY <1>1, StartHolds
<1>2. ASSUME NEW p \in Firings, TurnAway(p) PROVE CapInv'
  BY <1>2, SpendingNothing DEF TurnAway, IsBusy
<1>3. ASSUME NEW p \in Firings, Ask(p) PROVE CapInv'
  BY <1>3, SpendingNothing DEF Ask, IsBusy
<1>4. ASSUME NEW p \in Firings, NEW status, Decline(p, status) PROVE CapInv'
  BY <1>4, SpendingNothing DEF Decline, IsBusy
<1>5. ASSUME NEW p \in Firings, Submit(p) PROVE CapInv'
  BY <1>5, SpendingNothing DEF Submit, IsBusy
<1>6. ASSUME NEW p \in Firings, NEW cost \in 0..MaxCost, Reply(p, cost) PROVE CapInv'
  BY <1>6, ReplyHolds
<1>7. ASSUME NEW p \in Firings, NEW cost \in 0..MaxCost, CallFails(p, cost) PROVE CapInv'
  BY <1>7, UnheardHolds DEF CallFails
<1>8. ASSUME NEW p \in Firings, NEW cost \in 0..MaxCost, Dies(p, cost) PROVE CapInv'
  <2>1. CASE firing[p].at = "asking"
    BY <1>8, <2>1, UnheardHolds DEF Dies
  <2>2. CASE firing[p].at # "asking"
    BY <1>8, <2>2, SpendingNothing DEF Dies, IsBusy
  <2> QED BY <2>1, <2>2
<1>9. ASSUME NEW p \in Firings, NEW cost \in 0..MaxCost, DiesWriting(p, cost) PROVE CapInv'
  BY <1>9, DiesWritingHolds
<1>10. CASE UNCHANGED advisorVars
  BY <1>10 DEF advisorVars, CapInv, AdvisorTypeOK, NeverTwo, IsBusy, KnowsTheFile, FileWithinCap, AllIsAccounted, FiledSpend, Read, Nothing
<1> QED BY <1>1, <1>2, <1>3, <1>4, <1>5, <1>6, <1>7, <1>8, <1>9, <1>10 DEF AdvisorNext

(* llm_proposer.py: whatever fires, dies or is lost, a run whose processes  *)
(* never met is billed less than its cap and a call, once more for each     *)
(* file lost with its writer, and a call for each reply no file heard of.   *)
THEOREM TheSpendIsCapped == AdvisorSpec => []SpendIsCapped
<1>1. CapInv => SpendIsCapped
  <2> SUFFICES ASSUME CapInv, ~overlapped, NEW r \in Runs
               PROVE  paid[r] <= (Cap - 1 + MaxCost) * (1 + wipes) + MaxCost * unwritten[r]
    BY DEF SpendIsCapped
  <2>1. FiledSpend[r] <= MostOfARun /\ paid[r] <= FiledSpend[r] + MostOfARun * wipes + MaxCost * unwritten[r]
    BY DEF CapInv, FileWithinCap, AllIsAccounted
  <2>2. FiledSpend[r] \in Nat /\ paid[r] \in Nat /\ unwritten[r] \in Nat /\ wipes \in Nat
    BY FiledIsCounts DEF CapInv, AdvisorTypeOK, SpendPerRun
  <2>3. MaxCost * unwritten[r] \in Int /\ MostOfARun * wipes \in Int /\ MostOfARun * (wipes + 1) = MostOfARun * wipes + MostOfARun
    BY <2>2, MostIsNat, OnceMore
  <2>4. paid[r] <= MostOfARun * (wipes + 1) + MaxCost * unwritten[r]
    BY <2>1, <2>2, <2>3, MostIsNat
  <2>5. 1 + wipes = wipes + 1
    BY <2>2
  <2> QED BY <2>4, <2>5 DEF MostOfARun
<1> QED BY <1>1, AdvisorInitHolds, CapInvStep, PTL DEF AdvisorSpec

---------------------------------------------------------------------------
(* A digest as FrameDigest makes it: every stall charges and has a name.   *)
IsDigest(digest) ==
  /\ \E V : digest.vehicles \in Seq(V)
  /\ \A k \in DOMAIN digest.vehicles : digest.vehicles[k].inlet \in Nat \cup {Unread} /\ digest.vehicles[k].id # Unhashable
  /\ \A s \in ToSet(digest.stalls) : s.kw \in Nat \ {0} /\ s.id # NoStall

(* What a row offers, and on whose word. *)
IsBorneOut(row, vehicle, said, digest) ==
  /\ \E s \in ToSet(digest.stalls) :
       /\ s.id = row.stall /\ 0 < row.kw /\ row.kw <= s.kw
       /\ vehicle.inlet \notin {Unread, 0} => row.kw <= vehicle.inlet
  /\ \E i \in DOMAIN said : Names(said[i], vehicle.id) /\ said[i].stall = row.stall /\ ~said[i].abstain

(* The row of the k-th vehicle, planned or not. *)
LEMMA RowOf ==
  ASSUME NEW said, IsAnswer(said), NEW digest, ~Raises(said, digest), NEW k \in DOMAIN digest.vehicles
  PROVE  LET row == RowsFromAnswer(said, digest).rows[k]
             s == CHOOSE x \in ToSet(digest.stalls) : x.id = Wanted(said, digest, k)
         IN  row = IF Outcome(said, digest, k) = "planned"
                   THEN [vehicle |-> digest.vehicles[k].id, stall |-> s.id, kw |-> RequestedKw(digest.vehicles[k], s), by |-> "planned"]
                   ELSE AbstainRow(digest.vehicles[k].id, IF Outcome(said, digest, k) = "model_abstained" THEN "model" ELSE "harness")
BY DEF RowsFromAnswer

(* A planned outcome names a stall of the digest nobody before it wanted, by an entry heard for the vehicle. *)
LEMMA PlannedOutcome ==
  ASSUME NEW said, NEW digest, NEW k \in DOMAIN digest.vehicles, Outcome(said, digest, k) = "planned"
  PROVE  /\ \E s \in ToSet(digest.stalls) : s.id = Wanted(said, digest, k)
         /\ \A j \in 1..(k - 1) : Wanted(said, digest, j) # Wanted(said, digest, k)
         /\ \E i \in DOMAIN said : /\ Names(said[i], digest.vehicles[k].id) /\ ~said[i].abstain
                                     /\ said[i].stall = Wanted(said, digest, k)
<1> DEFINE heard == Heard_(said, digest, digest.vehicles[k].id)
<1>1. /\ heard # {} /\ Wanted(said, digest, k) # NoStall /\ Wanted(said, digest, k) \in Ids(digest.stalls)
      /\ \A j \in 1..(k - 1) : Wanted(said, digest, j) # Wanted(said, digest, k)
  BY DEF Outcome
<1>2. (CHOOSE i \in heard : TRUE) \in heard
  BY <1>1
<1>3. PICK i \in heard : i = CHOOSE x \in heard : TRUE
  BY <1>2
<1>4. i \in DOMAIN said /\ Names(said[i], digest.vehicles[k].id)
  BY <1>3 DEF Heard_
<1>5. ~said[i].abstain /\ said[i].stall = Wanted(said, digest, k)
  <2>1. Wanted(said, digest, k) = IF heard = {} \/ said[i].abstain THEN NoStall ELSE said[i].stall
    BY <1>3 DEF Wanted
  <2> HIDE DEF heard
  <2> QED BY <1>1, <2>1
<1> QED BY <1>1, <1>4, <1>5 DEF Ids, ToSet

(* The power a row asks for is above nothing and within both limits. *)
LEMMA KwIsWithinBoth ==
  ASSUME NEW vehicle, vehicle.inlet \in Nat \cup {Unread}, NEW stall, stall.kw \in Nat \ {0}
  PROVE  /\ 0 < RequestedKw(vehicle, stall) /\ RequestedKw(vehicle, stall) <= stall.kw
         /\ vehicle.inlet \notin {Unread, 0} => RequestedKw(vehicle, stall) <= vehicle.inlet
BY DEF RequestedKw, Lesser

(* What a model writes: no answer, or a sequence of entries. *)
IsSaid(said) ==
  IsAnswer(said) => (\E E : said \in Seq(E)) /\ \A i \in DOMAIN said : said[i].shape \in {"object", "scrap"}

(* Where every vehicle is a key, one entry at most is heard for each, the first of its name. *)
LEMMA HeardIsFirst ==
  ASSUME NEW said, IsAnswer(said), IsSaid(said), NEW digest, NEW id, id \in Ids(digest.vehicles), id # Unhashable
  PROVE  /\ Heard_(said, digest, id) = {i \in DOMAIN said : Names(said[i], id) /\ \A j \in 1..(i - 1) : ~Names(said[j], id)}
         /\ \A i, j \in Heard_(said, digest, id) : i = j
<1>1. ASSUME NEW i \in DOMAIN said, Names(said[i], id)
      PROVE  Refusal(said, i, digest) = "heard" <=> \A j \in 1..(i - 1) : ~Names(said[j], id)
  <2>1. said[i].shape = "object" /\ said[i].vehicle = id
    BY <1>1 DEF Names
  <2> QED BY <2>1 DEF Refusal
<1>2. Heard_(said, digest, id) = {i \in DOMAIN said : Names(said[i], id) /\ \A j \in 1..(i - 1) : ~Names(said[j], id)}
  BY <1>1 DEF Heard_
<1>3. DOMAIN said \subseteq Nat \ {0}
  BY DEF IsSaid
<1>4. ASSUME NEW i \in Heard_(said, digest, id), NEW j \in Heard_(said, digest, id) PROVE i = j
  <2>1. i \in Nat \ {0} /\ j \in Nat \ {0} /\ ~(j \in 1..(i - 1)) /\ ~(i \in 1..(j - 1))
    BY <1>2, <1>3
  <2> QED BY <2>1
<1> QED BY <1>2, <1>4

(* The lookup of a vehicle's stall raises when the entry heard for it offers one that is no key. *)
LEMMA RaisingOutcome ==
  ASSUME NEW said, IsAnswer(said), IsSaid(said), NEW digest, NEW k \in DOMAIN digest.vehicles, digest.vehicles[k].id # Unhashable
  PROVE  Outcome(said, digest, k) = "type_error"
           <=> \E i \in Heard_(said, digest, digest.vehicles[k].id) : ~said[i].abstain /\ said[i].stall = Unhashable
<1> DEFINE heard == Heard_(said, digest, digest.vehicles[k].id)
<1>1. \A i, j \in heard : i = j
  <2>1. digest.vehicles[k].id \in Ids(digest.vehicles)
    BY DEF Ids
  <2> QED BY <2>1, HeardIsFirst
<1>2. CASE heard = {}
  BY <1>2 DEF Outcome
<1>3. CASE heard # {}
  <2>1. PICK i \in heard : i = CHOOSE x \in heard : TRUE
    BY <1>3
  <2>2. Wanted(said, digest, k) = IF heard = {} \/ said[i].abstain THEN NoStall ELSE said[i].stall
    BY <2>1 DEF Wanted
  <2>3. Outcome(said, digest, k) = "type_error" <=> Wanted(said, digest, k) # NoStall /\ Wanted(said, digest, k) = Unhashable
    BY <1>3 DEF Outcome
  <2> HIDE DEF heard
  <2>4. Outcome(said, digest, k) = "type_error" <=> ~said[i].abstain /\ said[i].stall = Unhashable
    BY <1>3, <2>2, <2>3, MarksAssumption
  <2> QED BY <1>1, <2>1, <2>4 DEF heard
<1> QED BY <1>2, <1>3

(* An answer raises when an id that is looked up is no key, and only then. *)
LEMMA RaisesForWantOfAKey ==
  ASSUME NEW said, IsAnswer(said), IsSaid(said), NEW digest, IsDigest(digest)
  PROVE  Raises(said, digest) <=> HasNoKey(said, digest)
<1>1. ASSUME NEW i \in DOMAIN said
      PROVE  Refusal(said, i, digest) = "type_error" <=> said[i].shape = "object" /\ said[i].vehicle = Unhashable
  <2>1. said[i].shape \in {"object", "scrap"}
    BY DEF IsSaid
  <2> QED BY <2>1 DEF Refusal
<1>2. ASSUME NEW k \in DOMAIN digest.vehicles, Outcome(said, digest, k) = "type_error" PROVE HasNoKey(said, digest)
  <2>1. digest.vehicles[k].id \in Ids(digest.vehicles) /\ digest.vehicles[k].id # Unhashable
    BY DEF Ids, IsDigest
  <2>2. PICK i \in Heard_(said, digest, digest.vehicles[k].id) : ~said[i].abstain /\ said[i].stall = Unhashable
    BY <1>2, <2>1, RaisingOutcome
  <2>3. /\ i \in DOMAIN said /\ said[i].shape = "object" /\ said[i].vehicle = digest.vehicles[k].id
        /\ \A j \in 1..(i - 1) : ~Names(said[j], digest.vehicles[k].id)
    BY <2>1, HeardIsFirst DEF Names
  <2> QED BY <2>1, <2>2, <2>3 DEF HasNoKey, IsLookedUp
<1>3. ASSUME NEW i \in DOMAIN said, said[i].shape = "object", said[i].stall = Unhashable, IsLookedUp(said, digest, i)
      PROVE  \E k \in DOMAIN digest.vehicles : Outcome(said, digest, k) = "type_error"
  <2>1. PICK k \in DOMAIN digest.vehicles : said[i].vehicle = digest.vehicles[k].id
    BY <1>3 DEF IsLookedUp, Ids
  <2>2. digest.vehicles[k].id \in Ids(digest.vehicles) /\ digest.vehicles[k].id # Unhashable
    BY DEF Ids, IsDigest
  <2>3. Names(said[i], digest.vehicles[k].id) /\ \A j \in 1..(i - 1) : ~Names(said[j], digest.vehicles[k].id)
    BY <1>3, <2>1 DEF Names, IsLookedUp
  <2>4. i \in Heard_(said, digest, digest.vehicles[k].id)
    BY <2>2, <2>3, HeardIsFirst
  <2>5. ~said[i].abstain
    BY <1>3 DEF IsLookedUp
  <2> QED BY <1>3, <2>2, <2>4, <2>5, RaisingOutcome
<1> QED BY <1>1, <1>2, <1>3 DEF Raises, HasNoKey

(* An answer that is read has a row for each vehicle, and what a planned row offers is borne out. *)
LEMMA RowsOfAnAnswer ==
  ASSUME NEW said, IsAnswer(said), NEW digest, IsDigest(digest), ~Raises(said, digest)
  PROVE  LET rows == RowsFromAnswer(said, digest).rows
         IN  /\ DOMAIN rows = DOMAIN digest.vehicles
             /\ \A k \in DOMAIN rows : rows[k].vehicle = digest.vehicles[k].id
             /\ \A k \in Planned(rows) : IsBorneOut(rows[k], digest.vehicles[k], said, digest)
             /\ \A j, k \in Planned(rows) : j # k => rows[j].stall # rows[k].stall
<1> DEFINE rows == RowsFromAnswer(said, digest).rows
<1>1. DOMAIN rows = DOMAIN digest.vehicles
  BY DEF RowsFromAnswer
<1>2. ASSUME NEW k \in DOMAIN digest.vehicles
      PROVE  /\ rows[k].vehicle = digest.vehicles[k].id
             /\ k \in Planned(rows) => /\ Outcome(said, digest, k) = "planned"
                                       /\ rows[k].stall = Wanted(said, digest, k)
                                       /\ IsBorneOut(rows[k], digest.vehicles[k], said, digest)
  <2> DEFINE s == CHOOSE x \in ToSet(digest.stalls) : x.id = Wanted(said, digest, k)
             v == digest.vehicles[k]
  <2>1. CASE Outcome(said, digest, k) = "planned"
    <3>1. rows[k] = [vehicle |-> v.id, stall |-> s.id, kw |-> RequestedKw(v, s), by |-> "planned"]
      BY <2>1, RowOf
    <3>2. s \in ToSet(digest.stalls) /\ s.id = Wanted(said, digest, k)
      BY <2>1, PlannedOutcome
    <3>3. s.kw \in Nat \ {0} /\ v.inlet \in Nat \cup {Unread}
      BY <3>2 DEF IsDigest
    <3> HIDE DEF s, rows
    <3>4. /\ 0 < rows[k].kw /\ rows[k].kw <= s.kw /\ (v.inlet \notin {Unread, 0} => rows[k].kw <= v.inlet)
          /\ rows[k].stall = s.id
      BY <3>1, <3>3, KwIsWithinBoth
    <3>5. \E i \in DOMAIN said : Names(said[i], v.id) /\ said[i].stall = rows[k].stall /\ ~said[i].abstain
      BY <2>1, <3>2, <3>4, PlannedOutcome
    <3> QED BY <2>1, <3>1, <3>2, <3>4, <3>5 DEF IsBorneOut
  <2>2. CASE Outcome(said, digest, k) # "planned"
    <3>1. PICK by : rows[k] = AbstainRow(v.id, by)
      BY <2>2, RowOf, ZenonT(60)
    <3> HIDE DEF rows
    <3> QED BY <3>1 DEF AbstainRow, Planned
  <2> QED BY <2>1, <2>2
<1>3. ASSUME NEW j \in Planned(rows), NEW k \in Planned(rows), rows[j].stall = rows[k].stall PROVE j = k
  <2>1. j \in DOMAIN digest.vehicles /\ k \in DOMAIN digest.vehicles
    BY <1>1, <1>3 DEF Planned
  <2>2. DOMAIN digest.vehicles \subseteq Nat \ {0}
    BY DEF IsDigest
  <2>3. /\ Outcome(said, digest, j) = "planned" /\ Outcome(said, digest, k) = "planned"
        /\ Wanted(said, digest, j) = Wanted(said, digest, k)
    BY <1>2, <1>3, <2>1
  <2>4. ~(j \in 1..(k - 1)) /\ ~(k \in 1..(j - 1))
    BY <2>1, <2>3, PlannedOutcome
  <2> QED BY <2>1, <2>2, <2>4
<1>4. Planned(rows) \subseteq DOMAIN digest.vehicles
  BY <1>1 DEF Planned
<1> HIDE DEF rows
<1>5. \A k \in Planned(rows) : IsBorneOut(rows[k], digest.vehicles[k], said, digest)
  BY <1>2, <1>4
<1>6. \A j, k \in Planned(rows) : j # k => rows[j].stall # rows[k].stall
  BY <1>3
<1> QED BY <1>1, <1>2, <1>5, <1>6 DEF rows

(* llm_proposer.py: a fire leaves no row when an id its answer has looked   *)
(* up is a list or an object, and raises then only.  Whatever else a model  *)
(* answers about whatever digest, each vehicle of the digest has one row, a *)
(* row that offers a stall offers one of the digest that an entry asked     *)
(* for, within what the stall gives and the inlet takes, and no two rows    *)
(* offer the same stall.                                                    *)
THEOREM RowsStayWithinTheDigest ==
  ASSUME NEW said, IsSaid(said), NEW digest, IsDigest(digest)
  PROVE  LET read == RowsFromAnswer(said, digest)
             rows == read.rows
             raises == IsAnswer(said) /\ HasNoKey(said, digest)
         IN  /\ read.raised <=> raises
             /\ raises => rows = <<>>
             /\ ~raises => /\ DOMAIN rows = DOMAIN digest.vehicles
                           /\ \A k \in DOMAIN rows : rows[k].vehicle = digest.vehicles[k].id
             /\ \A k \in Planned(rows) : IsBorneOut(rows[k], digest.vehicles[k], said, digest)
             /\ \A j, k \in Planned(rows) : j # k => rows[j].stall # rows[k].stall
<1> DEFINE read == RowsFromAnswer(said, digest)
           rows == read.rows
<1>1. CASE ~IsAnswer(said)
  <2>1. ~read.raised /\ rows = [k \in DOMAIN digest.vehicles |-> AbstainRow(digest.vehicles[k].id, "harness")]
    BY <1>1 DEF RowsFromAnswer
  <2> HIDE DEF rows, read
  <2>2. Planned(rows) = {}
    BY <2>1 DEF Planned, AbstainRow
  <2>3. DOMAIN rows = DOMAIN digest.vehicles /\ \A k \in DOMAIN rows : rows[k].vehicle = digest.vehicles[k].id
    BY <2>1 DEF AbstainRow
  <2> QED BY <1>1, <2>1, <2>2, <2>3 DEF rows, read
<1>2. CASE IsAnswer(said) /\ Raises(said, digest)
  <2>1. read = [raised |-> TRUE, rows |-> <<>>, rejections |-> <<>>]
    BY <1>2 DEF RowsFromAnswer
  <2>2. HasNoKey(said, digest)
    BY <1>2, RaisesForWantOfAKey
  <2> HIDE DEF read
  <2>3. read.raised /\ rows = <<>> /\ Planned(rows) = {}
    BY <2>1 DEF Planned
  <2> HIDE DEF rows
  <2> QED BY <1>2, <2>2, <2>3 DEF rows, read
<1>3. CASE IsAnswer(said) /\ ~Raises(said, digest)
  <2>1. ~HasNoKey(said, digest)
    BY <1>3, RaisesForWantOfAKey
  <2>2. ~read.raised
    BY <1>3 DEF RowsFromAnswer
  <2> QED BY <1>3, <2>1, <2>2, RowsOfAnAnswer
<1> QED BY <1>1, <1>2, <1>3
=============================================================================
