---------------------------- MODULE MCDecisions -----------------------------
(***************************************************************************)
(* The deciding functions, each over a grid of small inputs: a question is *)
(* put in Init, answered in one step, and the properties speak of the pair.*)
(* The doctrine's caches run beside them in a mode of their own.           *)
(***************************************************************************)
EXTENDS Signals, Doctrine, Learning, SiteAlpha, Sizing, Recall, Wear, Comparison

CONSTANTS Unanswered, p1, w1, w2
VARIABLES question, answer
OnePack == {p1}
TwoBodies == {w1, w2}
Unasked == [kind |-> "doctrine"]

---------------------------------------------------------------------------
(* The kernel's artifact, the same declared backwards, and one that names  *)
(* a floor late and an objective nobody declared.                          *)
KernelKeys == <<"bess_peak_shave", "deadhead", "degradation", "dwell", "energy_cost", "readiness",
                "risk_hedge", "service_completion", "staff", "staging", "throughput">>
Regime(key, hours, signals, priority) == [key |-> key, hours |-> hours, signals |-> signals, priority |-> priority]
KernelRegimes ==
  << Regime("weather_event", <<>>, {"weather_hold"}, <<"readiness", "service_completion", "risk_hedge", "degradation">>),
     Regime("grid_peak", <<>>, {"grid_peak_imminent"}, <<"bess_peak_shave", "energy_cost", "risk_hedge", "degradation">>),
     Regime("demand_surge", <<>>, {"demand_surge"}, <<"readiness", "throughput", "deadhead", "staging">>),
     Regime("dispatch_rush", <<5, 10>>, {}, <<"readiness", "throughput", "deadhead", "energy_cost">>),
     Regime("overnight", <<20, 5>>, {}, <<"service_completion", "energy_cost", "degradation", "dwell">>),
     Regime("steady_state", <<>>, {}, <<"readiness", "service_completion", "energy_cost", "degradation", "throughput">>) >>
KindOf(floors) == [k \in ToSet(KernelKeys) |-> IF k \in floors THEN "floor" ELSE "objective"]
KernelArtifact == [kinds |-> KindOf({"readiness", "service_completion"}), regimes |-> KernelRegimes]
Artifacts ==
  {KernelArtifact, [KernelArtifact EXCEPT !.regimes = Reverse(KernelRegimes)],
   [KernelArtifact EXCEPT !.kinds = KindOf({"service_completion", "dwell"}),
      !.regimes = Append(SubSeq(KernelRegimes, 1, 5),
                         Regime("steady_state", <<>>, {}, <<"energy_cost", "readiness", "unheard_of", "dwell", "energy_cost">>))]}
RegimeQuestions ==
  [kind : {"regime"}, intent : Artifacts, now : {0, 4, 5, 9, 10, 19, 20, 23},
   signals : SUBSET {"weather_hold", "grid_peak_imminent", "demand_surge", "unknown"}]
AnswerRegime(q) ==
  LET active == ResolveIntent(q.intent, q.now, q.signals)
  IN  [active |-> active, passes |-> PassSequence(active), unmodeled |-> Unmodeled(active), shielded |-> Shielded(active)]

(* Two hours of a forecast, and the same with one quantity spoiled.        *)
Arrival(h, e, b) == [hour |-> h, expected |-> e, baseline |-> b]
Forecast(now, e, b, p, q) ==
  LET next == (now + 1) % 24
  IN  [arrivals |-> <<Arrival(now, e, b), Arrival(next, 3, 1), Arrival((now + 2) % 24, 0, 9)>>,
       load |-> <<[hour |-> next, p90 |-> q], [hour |-> now, p90 |-> p], [hour |-> (now + 2) % 24, p90 |-> 90]>>]
Short == [surgeWindow |-> 2, peakWindow |-> 1]
ShortAnd(multiplier) == [surgeWindow |-> 2, peakWindow |-> 1, surgeMultiplier |-> multiplier]
Thresholds_ == {Short, [Short EXCEPT !.surgeWindow = 1, !.peakWindow = 2], [Short EXCEPT !.peakWindow = 25],
                ShortAnd(15), ShortAnd(0), [surgeWindow |-> 2, peakWindow |-> 1, odd |-> 1]}
ForecastQuestions ==
  [kind : {"forecast"}, now : {7, 23}, e : {0, 2, 8}, b : {1, 2, 4}, p : {80, 90}, q : {80, 95},
   target : {100, Missing}, thresholds : Thresholds_, regime : BOOLEAN,
   spoiled : {1, 2, 3} \X {"expected", "baseline", "p90"}, by : {NotFinite, Missing}]
Spoil(f, at, field, by) ==
  IF field = "p90" THEN [f EXCEPT !.load[at].p90 = by]
  ELSE [f EXCEPT !.arrivals[at] = [@ EXCEPT ![field] = by]]
CallOf_(q, f) ==
  [forecast |-> f, target |-> q.target, now |-> q.now, weather |-> q.e = 8, thresholds |-> q.thresholds,
   intent |-> KernelArtifact, regime |-> q.regime, runId |-> "run", clash |-> FALSE]
AnswerForecast(q) ==
  LET f == Forecast(q.now, q.e, q.b, q.p, q.q)
  IN  [clean |-> Orchestrate(CallOf_(q, f)), spoiled |-> Orchestrate(CallOf_(q, Spoil(f, q.spoiled[1], q.spoiled[2], q.by)))]

(* A batch of refusals, and what the caller says the site has.             *)
Said == {"resource_faulted", "target_occupied"} \X {"e1", "e2", NoEntity}
          \cup {<<"target_unknown", "e1">>, <<"superseded", "e2">>, <<"odd", "e1">>}
LearnQuestions ==
  {[kind |-> "learn", batch |-> [said |-> n, unreadable |-> u], capable |-> c] :
     n \in {f \in [Said -> {0, 1, 3}] : /\ f[<<"resource_faulted", NoEntity>>] # 1 /\ f[<<"odd", "e1">>] # 3
                                        /\ f[<<"target_occupied", NoEntity>>] = 0 /\ f[<<"target_occupied", "e2">>] = 0
                                        /\ f[<<"superseded", "e2">>] = f[<<"target_unknown", "e1">>]},
     u \in {0, 1}, c \in {<<>>} \cup [{"block_points"} -> {0, 2, 4}]}
AnswerLearn(q) == ReconcileRefusals(q.batch, 2, q.capable, 50)

---------------------------------------------------------------------------
(* Three cars on two chargers, at every state of charge and arrival that   *)
(* makes the policies differ.                                              *)
CarAt(id, arrival, soc, ready, wash) ==
  [aid |-> id, cls |-> "van", arrival |-> arrival, soc |-> soc, target |-> 90, ready |-> ready, cold |-> id = 2,
   needsWash |-> wash, needsInspect |-> id = 1, parallel |-> {}]
Lot(assets, slow) ==
  [site |-> [powerCap |-> 120, softTarget |-> 150, dcfcCooldown |-> 1, coldPenalty |-> 1, pathCapacity |-> 2,
             moveMin |-> 1, washMin |-> 1, inspectMin |-> 1, onPeakFrom |-> 0, onPeakUpto |-> 0],
   horizon |-> 9, menu |-> <<>>,
   points |-> <<[id |-> "S1", kind |-> "dcfc", kw |-> 100, gap |-> 1], [id |-> "S2", kind |-> slow, kw |-> 50, gap |-> 0],
                [id |-> "W1", kind |-> "wash_bay", kw |-> 0, gap |-> 0], [id |-> "B1", kind |-> "service_bay", kw |-> 0, gap |-> 0]>>,
   classes |-> "van" :> [kwh |-> 4, maxKw |-> 100, kinds |-> {"dcfc", "l2"},
                         curve |-> <<[above |-> 0, accept |-> 100], [above |-> 70, accept |-> 50]>>],
   assets |-> assets,
   weights |-> [tardiness |-> 10, onPeakKwMin |-> 1, peakExcess |-> 1, move |-> 1, churn |-> 5, rejection |-> 100]]
Lots ==
  {Lot(<<CarAt(1, 0, s[1], r, FALSE), CarAt(2, a[1], s[2], r, FALSE), CarAt(3, a[2], s[3], 9, TRUE)>>, slow) :
     s \in {20, 50, 60} \X {30, 60} \X {40, 70}, a \in {<<0, 0>>, <<0, 2>>, <<1, 1>>}, r \in {2, 4, 9},
     slow \in {"l2", "dcfc"}}
PolicyQuestions == {[kind |-> "policy", lot |-> l, plan |-> <<>>, by |-> p] : l \in Lots, p \in {"fifo", "greedy", "as_is"}}
PlanLot == [Lot(<<CarAt(1, 0, 50, 4, FALSE), CarAt(2, 1, 60, 9, FALSE)>>, "l2") EXCEPT !.horizon = 6]
PlanQuestions == {[kind |-> "policy", lot |-> PlanLot, plan |-> p, by |-> "plan"] : p \in Plans(PlanLot, FreshCall(FALSE, 0))}
AnswerPolicy(q) ==
  LET book == CASE q.by = "fifo" -> Fifo(q.lot) [] q.by = "greedy" -> Greedy(q.lot)
                [] q.by = "as_is" -> OttoQAsIs(q.lot) [] OTHER -> FromPlan(q.lot, q.plan)
  IN  [book |-> book, report |-> RunPolicy(q.lot, book), bound |-> PeakLowerBound(q.lot)]

(* The shared site: three fast chargers, a swap dock and a slow charger;   *)
(* two robotaxis and a tractor, and the failures around the surge.         *)
Everywhere == {"taxi", "tractor"}
Spot(id, kind, kw, serves) == [id |-> id, kind |-> kind, kw |-> kw, gap |-> 0, classes |-> serves]
Yard ==
  [site |-> [powerCap |-> 600, coldPenalty |-> 12, dcfcCooldown |-> 18, moveMin |-> 4],
   horizon |-> 1740, blocked |-> <<>>, caps |-> <<>>, closures |-> <<>>, slots |-> {211, 221, 230, 233, 246},
   points |-> <<Spot("D1", "dcfc", 200, Everywhere), Spot("D2", "dcfc", 200, Everywhere),
                Spot("S1", "swap_dock", 0, {"tractor"}), Spot("Z1", "l2", 11, {"taxi"})>>,
   classes |-> ("taxi" :> [kwh |-> 90, maxKw |-> 200, kinds |-> {"dcfc", "l2"}, swap |-> 10,
                           curve |-> <<[above |-> 0, accept |-> 100], [above |-> 70, accept |-> 60]>>])
               @@ ("tractor" :> [kwh |-> 220, maxKw |-> 200, kinds |-> {"dcfc", "swap_dock"}, swap |-> 10,
                                 curve |-> <<[above |-> 0, accept |-> 100]>>]),
   tenants |-> <<[name |-> "A", cls |-> "taxi", count |-> 2, from |-> 1020, target |-> 90],
                 [name |-> "B", cls |-> "tractor", count |-> 1, from |-> 1040, target |-> 80]>>]
Scenarios == {"baseline", "blocked_point", "overstay", "immobile_asset", "mid_session_charger_fault", "zone_power_loss",
              "human_path_crossing", "swap_dock_jam", "work_side_recall_refusal"}
Draw(offset, soc) == [offset |-> offset, soc |-> soc, delta |-> 120, cold |-> soc = 45]
DrawnVisits(o, s, tenants, shift) ==
  GenerateVisits(Yard, tenants, [A |-> 0, B |-> shift], <<Draw(o[1], 45), Draw(o[2], s), Draw(o[3], 40)>>)
World(at) == ApplyScenario(Yard, DrawnVisits(at.offset, at.soc, at.tenants, at.shift), at.scenario, at.hit)
Surge == [offset |-> <<30, 30, 15>>, soc |-> 45, tenants |-> {"A", "B"}, shift |-> 0, scenario |-> "baseline", hit |-> {1}]
Places ==
  [offset : {<<30, 30, 15>>, <<70, 80, 60>>}, soc : {45, 75}, tenants : {{"A"}, {"A", "B"}}, shift : {0, -600},
   scenario : Scenarios, hit : {{1}, {1, 2}}]
AlphaQuestions == [kind : {"alpha"}, at : Places, pick : {<<>>}, by : {"fifo", "greedy", "as_is"}]
AsksForASlotAnswer ==
  \E x \in Scenarios :
    LET at == [Surge EXCEPT !.scenario = x]
        world == World(at)
    IN  \E pick \in SlotAnswers(world.yard, world.visits) :
          question = [kind |-> "alpha", at |-> at, pick |-> pick, by |-> "slots"]
ByArrival(visits) == SortSeq(visits, LAMBDA v, w : v.arrival < w.arrival)
AnswerAlpha(q) ==
  LET world == World(q.at)
      yard == world.yard
      visits == ByArrival(world.visits)
      book == CASE q.by = "fifo" -> PolicyFifo(yard, visits) [] q.by = "greedy" -> PolicyGreedy(yard, visits)
                [] q.by = "as_is" -> PolicyOttoQAsIs(yard, visits) [] OTHER -> BookAnswer(yard, world.visits, q.pick)
  IN  [visits |-> Len(visits), clash |-> book.clash, booked |-> Len(book.taken), cell |-> RunCell(yard, book)]

---------------------------------------------------------------------------
(* A day of eight minutes, in one or two of which a load may change.       *)
Curve(k) == << [from |-> 0, kw |-> k[1]], [from |-> 2, kw |-> k[2]], [from |-> 5, kw |-> k[3]], [from |-> 8, kw |-> 0] >>
Curves == {Curve(k) : k \in {0, 2, 5} \X {0, 1, 4} \X {1, 3}}
Tier(upto, rate) == [upto |-> upto, rate |-> rate]
Component(basis, interval, tiers, window, season, period) ==
  [basis |-> basis, interval |-> interval, tiers |-> tiers, window |-> window, season |-> season, period |-> period]
OnOff == <<[name |-> "on", ranges |-> {<<2, 5>>}], [name |-> "off", ranges |-> {<<5, 2>>}]>>
Flat == <<[season |-> "all", window |-> None, rate |-> 2]>>
PlainTariff ==
  [windows |-> <<>>, summer |-> {6, 7, 8, 9}, winter |-> {12, 1, 2, 3}, energy |-> Flat, ratchet |-> None,
   blocks |-> None, fixed |-> 7, demandFree |-> FALSE,
   demand |-> <<Component("NCP", 4, <<Tier(24, 3), Tier(None, 5)>>, None, "all", "month")>>]
TouTariff ==
  [PlainTariff EXCEPT !.windows = OnOff, !.ratchet = 80,
     !.energy = <<[season |-> "summer", window |-> "on", rate |-> 3], [season |-> "summer", window |-> "off", rate |-> 1],
                  [season |-> "winter", window |-> None, rate |-> 2]>>,
     !.demand = <<Component("TOU", 2, <<Tier(None, 4)>>, "on", "summer", "day"),
                  Component("NCP", 4, <<Tier(12, 5), Tier(36, 1), Tier(None, 0)>>, None, "all", "month"),
                  Component("CP", 2, <<Tier(None, 1)>>, None, "summer_peak", "month")>>]
BlockTariff ==
  [PlainTariff EXCEPT !.ratchet = 95,
     !.blocks = [baseMinutes |-> 3, first |-> <<Tier(24, 4), Tier(None, 3)>>, tail |-> <<Tier(5, 2), Tier(None, 1)>>,
                 minFixed |-> 0, minPerKw |-> 10]]
ASSUME GridAssumption ==   \* the day holds the windows, and every objective of the kernel has its place
  DayMinutes > 5 /\ None \notin {"on", "off"} /\ ToSet(KernelKeys) \subseteq ToSet(KeyOrder) /\ Missing # "run"
BillQuestions ==
  [kind : {"bill"}, curve : Curves, tariff : {t \in {PlainTariff, [PlainTariff EXCEPT !.demandFree = TRUE], TouTariff, BlockTariff} : IsTariff(t)},
   month : {1, 4, 7}, days : {1, 3}, historical : {0, 4}, coincident : {None, {0, 4}}]
AnswerBill(q) == Bill(q.curve, q.tariff, q.month, q.days, q.historical, q.coincident)

(* Batteries of every size that matters against the same curves.           *)
Battery(power, energy, efficiency) ==
  [power |-> power, units |-> 1, energy |-> energy, socMin |-> 10, socMax |-> 90, efficiency |-> efficiency]
StorageQuestions ==
  [kind : {"storage"}, curve : Curves, step : {1, 2}, battery : {Battery(p, e, f) : p \in 0..4, e \in {0, 5, 20}, f \in {50, 100}}]
AnswerStorage(q) ==
  LET ceiling == DispatchCeiling(q.curve, q.step, q.battery)
  IN  [ceiling |-> ceiling, match |-> BessToMatch(q.curve, q.step, ceiling, q.battery.efficiency)]

(* The comparison, on each tariff first: two cars that come together, which *)
(* fifo charges at once, above the cap the solver's plans keep to.         *)
SeenTariff == [TouTariff EXCEPT !.demand = SubSeq(@, 1, 2)]
TariffOrders == {<<PlainTariff, BlockTariff>>, <<BlockTariff, SeenTariff>>, <<SeenTariff, PlainTariff>>}
Pair(socs, horizon) ==
  [Lot(<<CarAt(1, 0, socs[1], 4, FALSE), CarAt(2, 0, socs[2], 9, FALSE)>>, "l2") EXCEPT !.horizon = horizon]
PairLots == {Pair(<<40, 60>>, 6), Pair(<<20, 40>>, 7), Pair(<<20, 20>>, 8)}
AsksToCompare ==
  \E lot \in PairLots, tariffs \in TariffOrders, month \in {1, 7}, step \in {1, 2} :
    \E plan \in Plans(lot, FreshCall(FALSE, 0)) :
      question = [kind |-> "compare", lot |-> lot, plan |-> plan, tariffs |-> tariffs, month |-> month, step |-> step]
Published(q, books, site, end) ==
  [cost |-> CostComparison(q.lot, books, q.tariffs, q.month, q.step, end),
   forward |-> ForwardComparison(q.lot, books, q.tariffs[1], site, q.month, q.step, end),
   fits |-> MultimodalComparison(q.lot, books),
   deck |-> Derive(q.lot, books["fifo"], books["model"], q.tariffs[1], q.month, q.step, end, 50, 96)]
AnswerCompare(q) ==
  Published(q, [fifo |-> Fifo(q.lot), greedy |-> Greedy(q.lot), as_is |-> OttoQAsIs(q.lot), model |-> FromPlan(q.lot, q.plan)],
            [tariff |-> q.tariffs[2], storage |-> Battery(40, 60, 90)], DayMinutes)

(* A new site: fleets that fit their window and fleets that do not.        *)
FleetClass(count, kw, cycles) ==
  [count |-> count, kwh |-> 60, kw |-> kw, arrive |-> 20, target |-> 80, taper |-> 80, cycles |-> cycles]
SizingQuestions ==
  [kind : {"sizing"}, fleet : [classes : {<<FleetClass(n, kw, c)>> : n \in {2, 10}, kw \in {4, 11}, c \in {1, 2}}
                                 \cup {<<FleetClass(4, 11, 1), FleetClass(1, 3, 1)>>},
                               window : {6, 10, 24}, base : {0, 6}],
   options : {{}, {10, 40}, {20, 90}}, efficiency : {50, 90}, demandRate : {0, 3}]
SizingTariff(rate) ==
  [PlainTariff EXCEPT !.demand = <<Component("NCP", 1, <<Tier(None, rate)>>, None, "all", "month")>>]
AnswerSizing(q) ==
  LET rec == Recommended(q.fleet, SizingTariff(q.demandRate), q.options, 7, q.efficiency)
  IN  [rec |-> rec, unservable |-> UnservableClasses(q.fleet),
       points |-> [i \in DOMAIN q.fleet.classes |-> ServicePointsNeeded(q.fleet.classes[i], q.fleet.window)],
       profile |-> IF rec = None THEN None ELSE ToSiteProfile(q.fleet, rec, 100, 20)]

(* An asset and one that is worse off in one respect.                      *)
Asset_(soc, fault, faults, comms, soil, km) ==
  [soc |-> soc, reserve |-> 20, fault |-> fault, faults |-> faults, comms |-> comms, soil |-> soil, km |-> km, hours |-> 0]
Assets ==
  {Asset_(s, f, n, c, l, k) : s \in {20, 28, 33, 36, 80}, f \in {0, 1, 2}, n \in {0, 3}, c \in {FreshComms, 89, 90},
                              l \in {34, 35, 50}, k \in {0, 8000}}
Worse(a) ==
  {[a EXCEPT !.soc = 28], [a EXCEPT !.fault = Least(a.fault, 1)], [a EXCEPT !.faults = 3],
   [a EXCEPT !.comms = Most(a.comms, 90)], [a EXCEPT !.soil = 50], [a EXCEPT !.km = 8000]}
AsksForARecall ==
  \E a \in Assets, e \in {2, 20}, g \in {30, 31}, y \in BOOLEAN :
    \E w \in {x \in Worse(a) : x.soc <= a.soc} :
      question = [kind |-> "recall", asset |-> a, worse |-> w, site |-> [now |-> 950, eta |-> e, congestion |-> g], accepts |-> y]
AnswerRecall(q) ==
  [now |-> RecallCycle("naive_threshold", q.asset, q.site, q.accepts, 15),
   worse |-> RecallCycle("naive_threshold", q.worse, q.site, TRUE, 15),
   dummy |-> RecallCycle("fixed_window_dummy", q.asset, q.site, q.accepts, 15)]

(* A charge that ends at one state of charge and parks at a lower one.     *)
WarmthOf == [temp \in 0..400 |-> 1 + temp \div 50]
WearQuestions ==
  {[kind |-> "wear", chemistry |-> c, soc |-> s, park |-> p, temp |-> t, kw |-> k] :
     c \in {"NMC", "LFP", "unknown"}, s \in {30, 45, 60, 75, 80, 95, 100}, p \in {20, 45, 50, 60, 75}, t \in {-10, 50, 250},
     k \in {10, 30, 60}}
WearRecord(q) == [asset |-> "a", chemistry |-> q.chemistry, socEnd |-> q.soc, kwh |-> 60, peakKw |-> q.kw, energy |-> 30, temp |-> q.temp]
AnswerWear(q) ==
  LET At(soc, temp) == Assess(<<[WearRecord(q) EXCEPT !.temp = temp]>>, 8, soc, Most(0, temp), WarmthOf)
  IN  [now |-> At(-1, q.temp), parked |-> At(q.park, q.temp), warmer |-> At(-1, q.temp + 100),
       saving |-> IF IsChemistry(q.chemistry) THEN SocParkSaving(Chemistry(q.chemistry), q.soc, q.park) ELSE 0]

---------------------------------------------------------------------------
NoDoctrine ==
  /\ files = [p \in Paths |-> NoFile] /\ loaded = files /\ solvedOn = NoFile /\ stamped = {} /\ edits = MaxEdits
Init ==
  /\ answer = Unanswered
  /\ \/ question = Unasked /\ DoctrineInit
     \/ /\ NoDoctrine
        /\ \/ question \in RegimeQuestions
           \/ question \in ForecastQuestions
           \/ question \in LearnQuestions
           \/ question \in PolicyQuestions
           \/ question \in PlanQuestions
           \/ question \in AlphaQuestions
           \/ AsksForASlotAnswer
           \/ question \in BillQuestions
           \/ question \in StorageQuestions
           \/ AsksToCompare
           \/ question \in SizingQuestions
           \/ AsksForARecall
           \/ question \in WearQuestions
Answer(kind, Of(_)) ==
  /\ question.kind = kind /\ answer = Unanswered
  /\ answer' = Of(question)
  /\ UNCHANGED <<question, doctrineVars>>
Next ==
  \/ Answer("regime", AnswerRegime)
  \/ Answer("forecast", AnswerForecast)
  \/ Answer("learn", AnswerLearn)
  \/ Answer("policy", AnswerPolicy)
  \/ Answer("alpha", AnswerAlpha)
  \/ Answer("bill", AnswerBill)
  \/ Answer("storage", AnswerStorage)
  \/ Answer("compare", AnswerCompare)
  \/ Answer("sizing", AnswerSizing)
  \/ Answer("recall", AnswerRecall)
  \/ Answer("wear", AnswerWear)
  \/ question = Unasked /\ DoctrineNext /\ UNCHANGED <<question, answer>>
Spec == Init /\ [][Next]_<<question, answer, doctrineVars>>
IsAnswered(kind) == question.kind = kind /\ answer # Unanswered

---------------------------------------------------------------------------
(* intent.py's resolve_intent: a regime that asks for a signal is in force *)
(* only when every signal it asks for was raised, and is preferred to one  *)
(* that reads only the clock wherever it was declared; every hour has a    *)
(* regime; the declared floors lead the order in every one of them, and    *)
(* the passes derived from it never put a softer aim before theirs.        *)
ConductorPlansWhatFired ==
  IsAnswered("regime") =>
    LET q == question
        active == answer.active
        chosen == {r \in ToSet(q.intent.regimes) : r.key = active.regime}
        floors == {k \in DOMAIN q.intent.kinds : q.intent.kinds[k] = "floor"}
        Fires(r) == r.signals # {} /\ r.signals \subseteq q.signals
    IN  IF "unknown" \in q.signals THEN active = Refused
        ELSE /\ \A r \in chosen : Matches(r, q.now, q.signals)
             /\ (\E r \in ToSet(q.intent.regimes) : Fires(r) /\ r.hours = <<>>) => \A r \in chosen : Fires(r)
             /\ chosen # {}
             /\ ToSet(SubSeq(active.priority, 1, Cardinality(floors))) = floors
             /\ ToSet(active.priority) \subseteq DOMAIN q.intent.kinds
             /\ "readiness" \in floors => Head(answer.passes) = "min_tardy"
             /\ \A i, j \in DOMAIN active.priority : i # j => active.priority[i] # active.priority[j]

(* signals.py: a quantity that cannot be read refuses the whole forecast   *)
(* when a signal depends on it, and changes nothing when none does; what   *)
(* is proposed carries a signal exactly when its hours say so.             *)
CorruptionNeverHides ==
  IsAnswered("forecast") =>
    LET q == question
        f == Forecast(q.now, q.e, q.b, q.p, q.q)
        thr == InForce(q.thresholds)
        legible == q.target # Missing /\ \A n \in DOMAIN q.thresholds : IsOverride(n, q.thresholds[n])
        hour == IF q.spoiled[2] = "p90" THEN f.load[q.spoiled[1]].hour ELSE f.arrivals[q.spoiled[1]].hour
        width == IF q.spoiled[2] = "p90" THEN thr.peakWindow ELSE thr.surgeWindow
        depends == hour \in WindowHours(q.now, width)
        expected == q.e + IF thr.surgeWindow = 2 THEN 3 ELSE 0
        baseline == q.b + IF thr.surgeWindow = 2 THEN 1 ELSE 0
        peak == IF thr.peakWindow = 2 THEN Max({q.p, q.q}) ELSE q.p
    IN  /\ ~legible <=> (answer.clean.outcome = "refused")
        /\ legible =>
             /\ IF depends THEN answer.spoiled.outcome = "refused" ELSE answer.spoiled = answer.clean
             /\ "demand_surge" \in answer.clean.signals <=> 10 * expected >= thr.surgeMultiplier * baseline
             /\ "grid_peak_imminent" \in answer.clean.signals <=> 10 * peak >= 9 * 100
             /\ answer.clean.modes = <<>> <=> ~q.regime

(* learn.py: what a batch of refusals takes away from the next solve is    *)
(* either a fault of the emitter's own or was repeated past the threshold  *)
(* by that very entity, is never more than its share of the site, and a    *)
(* batch called clean had nothing to say.                                  *)
LearningKeepsTheSiteUp ==
  IsAnswered("learn") =>
    LET said == question.batch.said
        Repeated(e) == \E p \in DOMAIN said : p[2] = e /\ said[p] > 2
        kinds == DOMAIN answer.learned
    IN  /\ \A k \in kinds \cap {"block_points", "refresh_occupancy"} :
             \A e \in answer.learned[k] : Repeated(e)
        /\ ("block_points" \in DOMAIN question.capable \cap kinds /\ question.capable["block_points"] # 0) =>
               2 * Cardinality(answer.learned["block_points"]) <= question.capable["block_points"]
        /\ IsClean(answer) => \A p \in DOMAIN said : (said[p] > 0 /\ p[2] # NoEntity) => (RefusalKind(p[1]) = "transient" \/ said[p] <= 2)
        /\ IsClean(answer) => kinds = {}

(* The policies of the comparison, and any plan the charging model allows: *)
(* every asset is charged once, no point is given twice or before it has   *)
(* turned around, and nothing starts before its asset arrived.             *)
PoliciesBookWithoutClash ==
  IsAnswered("policy") =>
    LET taken == answer.book.taken
        lot == question.lot
    IN  /\ ~answer.book.clash /\ answer.report.assigned
        /\ \A j, k \in DOMAIN taken :
             j # k => /\ taken[j].asset.aid # taken[k].asset.aid
                      /\ taken[j].at = taken[k].at =>
                           \/ taken[j].end + lot.points[taken[j].at].gap <= taken[k].start
                           \/ taken[k].end + lot.points[taken[k].at].gap <= taken[j].start
        /\ \A k \in DOMAIN taken : taken[k].start >= taken[k].asset.arrival

(* cost.py's peak_lower_bound: a schedule that is never late peaks at no   *)
(* less than the bound, whichever policy made it.                          *)
NoScheduleBeatsTheBound ==
  IsAnswered("policy") => (answer.report.tardy = 0 => answer.report.peak >= answer.bound)

(* cost.py, forward.py, deck_run.py: a policy is off the frontier exactly  *)
(* when one on it beats it; what the solver planned under the site's cap   *)
(* is runnable when the harness books it, which nobody promised of the     *)
(* others; and the battery the deck says would match the shaped schedule,  *)
(* when it fits, holds the unmanaged site under that schedule's peak.      *)
PublishedHolds ==
  IsAnswered("compare") =>
    LET row == answer.cost.sites[1]
        Beats(b, a) == /\ row[b].tardy <= row[a].tardy /\ row[b].total <= row[a].total
                       /\ (row[b].tardy < row[a].tardy \/ row[b].total < row[a].total)
        match == answer.deck.battery
        matched == [power |-> match.power, units |-> 1, energy |-> match.energy, socMin |-> 0, socMax |-> 100, efficiency |-> 96]
        unmanaged == SiteLoadCurve(question.lot, Fifo(question.lot), question.step, DayMinutes)
    IN  /\ answer.cost.frontier # {}
        /\ \A a \in DOMAIN row : a \in answer.cost.dominated <=> \E b \in answer.cost.frontier : Beats(b, a)
        /\ answer.fits["model"].runnable
        /\ answer.forward.stored.gridPeak <= answer.forward.policies["model"].peak
        /\ match.fits => DispatchCeiling(unmanaged, question.step, matched) <= answer.deck.shapedPeak + 1

(* policies/harness.py: what the comparison publishes of a policy is of a  *)
(* booking that could be carried out and of a bound that holds for it.     *)
ComparisonIsHonest == PoliciesBookWithoutClash /\ NoScheduleBeatsTheBound /\ PublishedHolds

(* The shared site: every policy, and every answer the slot model of the   *)
(* solver admits, books under every failure without tripping one of the    *)
(* world's assertions, and a solver's answer never draws more than a       *)
(* reduced cap leaves.                                                     *)
EveryAnswerBooks ==
  IsAnswered("alpha") =>
    /\ ~answer.clash /\ answer.booked = answer.visits
    /\ question.by = "slots" =>
         /\ answer.cell.capViolation = 0
         /\ answer.cell.peak <= Yard.site.powerCap

(* tariff.py: a bill is the energy of each minute at the rate of its       *)
(* window and each demand component unit by unit up its ladder, never for  *)
(* more than the site's instantaneous peak or the ratchet's floor.         *)
UnitByUnit(tiers, quantity) ==
  LET TierOf(u) == Min({i \in DOMAIN tiers : tiers[i].upto = None \/ u <= tiers[i].upto})
  IN  MapThenSumSet(LAMBDA u : tiers[TierOf(u)].rate, 1..quantity)
CyclicMinutes(window) ==
  UNION {{(r[1] + i) % DayMinutes : i \in 0..(((r[2] - r[1]) % DayMinutes) - 1)} : r \in window.ranges}
MinuteRate(q, t) ==
  LET w == IF q.tariff.windows = <<>> THEN "all" ELSE IF t % DayMinutes \in CyclicMinutes(q.tariff.windows[1]) THEN "on" ELSE "off"
      rates == {e \in ToSet(q.tariff.energy) : /\ e.window \in {None, w}
                                               /\ e.season \in {"all", SeasonOf(q.tariff, q.month)}}
  IN  (CHOOSE e \in rates : TRUE).rate
DemandByUnit(q) ==
  LET curve == q.curve
      season == SeasonOf(q.tariff, q.month)
      Charged(c) ==
        LET billed == Billed(curve, c, q.tariff, q.historical, q.coincident)
        IN  UnitByUnit(c.tiers, billed) * (IF c.period = "day" THEN q.days ELSE 1)
      on == {i \in DOMAIN q.tariff.demand : q.tariff.demand[i].season \in {"all", season} \cup (IF season = "summer" THEN {"summer_peak"} ELSE {})}
  IN  IF q.tariff.demandFree THEN 0 ELSE MapThenSumSet(LAMBDA i : Charged(q.tariff.demand[i]), on)
BillAddsUp ==
  IsAnswered("bill") =>
    LET q == question
        minutes == 0..(CurveEnd(q.curve) - 1)
        roof == Scale * Max({InstantPeak(q.curve), q.historical})
    IN  /\ q.tariff.blocks = None /\ answer # None =>
             answer = MapThenSumSet(LAMBDA t : LoadOf(q.curve, t) * MinuteRate(q, t), minutes) + DemandByUnit(q) + q.tariff.fixed
        /\ answer = None => (q.tariff = TouTariff /\ (SeasonOf(q.tariff, q.month) = "transition" \/ q.coincident = None))
        /\ \A i \in DOMAIN q.tariff.demand :
             (q.tariff.demand[i].basis = "CP" => q.coincident # None) =>
               Billed(q.curve, q.tariff.demand[i], q.tariff, q.historical, q.coincident) <= roof

(* forward.py's dispatch_storage: the ceiling it reports is one the        *)
(* battery holds, losses and recharge included, and no whole kW more than  *)
(* the least such ceiling; and the battery that would match it fits.       *)
DispatchIsLeast ==
  IsAnswered("storage") =>
    LET q == question
        top == Max({LoadOf(q.curve, t) : t \in StepStarts(q.curve, q.step)})
        Holds(g) == /\ \A t \in StepStarts(q.curve, q.step) : LoadOf(q.curve, t) - g <= StoragePower(q.battery)
                    /\ Deficit(q.curve, q.step, g) <= UsableEnergy(q.battery)
                    /\ 100 * Deficit(q.curve, q.step, g) <= q.battery.efficiency * Slack(q.curve, q.step, g)
    IN  /\ Holds(answer.ceiling)
        /\ \A g \in 0..top : Holds(g) => answer.ceiling <= g + 1
        /\ answer.match.fits

(* sizer.py: the site it recommends carries its fleet.  In no hour of the  *)
(* day does it draw more than its connection, the battery of its profile   *)
(* covers what the window is short of, the hours outside give it back with *)
(* its losses, and no connection of the sweep that could carry the fleet   *)
(* is cheaper, nor as cheap and smaller.  The profile's connection, which  *)
(* is in whole kW, is within half of one of the connection recommended.    *)
SizedSiteDelivers ==
  IsAnswered("sizing") /\ answer.rec # None =>
    LET q == question
        rec == answer.rec
        curve == DayCurve(q.fleet, rec.grid, rec.recharge)
        short == DeficitOf(q.fleet, rec.grid)
    IN  /\ \A h \in 0..23 : LoadOf(curve, h) <= rec.grid
        /\ LET service == answer.profile.grid.service
           IN  2 * (service - rec.grid) <= PerKw /\ 2 * (rec.grid - service) <= PerKw
        /\ short > 0 => /\ answer.profile.storage # None
                        /\ UsableEnergy(answer.profile.storage) >= short
                        /\ 100 * short <= q.efficiency * rec.recharge * OffWindow(q.fleet)
        /\ \A g \in q.options \cup {FlatLoadFloor(q.fleet)} :
             LET other == Evaluate(q.fleet, g, SizingTariff(q.demandRate), 7, q.efficiency)
             IN  other.feasible => rec.cost < other.cost \/ (rec.cost = other.cost /\ rec.grid <= g)

(* recall_decision.py: an asset that is worse off in any respect is never  *)
(* recalled less urgently, and a recall is recorded once, as issued or as  *)
(* refused, with a new solve asked for only by a refusal.                  *)
Severity(outcome) ==
  CASE outcome.urgency = "critical" -> 3 [] outcome.urgency = "urgent" -> 2 [] outcome.urgency = "routine" -> 1 [] OTHER -> 0
RecallNeverLessUrgent ==
  IsAnswered("recall") =>
    LET decided == NaiveThreshold(question.asset, question.site)
    IN  /\ Severity(answer.worse.outcome) >= Severity(decided)
        /\ decided.recall => Len(answer.now.events) = 1
        /\ answer.now.resolve # <<>> <=> (decided.recall /\ ~question.accepts)
        /\ answer.now.outcome.recall <=> (decided.recall /\ question.accepts)
        /\ decided.deferrable => question.site.congestion <= 30

(* degradation.py: parking at a lower charge, or charging warmer, never    *)
(* costs more fade or a worse regime, and the saving it states is one.     *)
ParkingLowerNeverCosts ==
  IsAnswered("wear") /\ ~answer.now.refused =>
    LET was == answer.now.assets["a"]
        parked == answer.parked.assets["a"]
        warm == answer.warmer.assets["a"]
    IN  /\ question.park <= question.soc => (parked.fade <= was.fade /\ answer.saving >= 100)
        /\ warm.severe + warm.elevated <= was.severe + was.elevated /\ warm.severe <= was.severe

(* Neither a recall nor a wear report is kinder to the one that is worse   *)
(* off.                                                                    *)
WorseOffIsNeverSpared == RecallNeverLessUrgent /\ ParkingLowerNeverCosts
=============================================================================
