------------------------------ MODULE MCOutside ------------------------------
(***************************************************************************)
(* The deciding functions' questions, and those put to what stands around  *)
(* the engine: the language model's answers, the packs, the adapters and   *)
(* the load harness.  The advisor's processes run in a mode of their own.  *)
(***************************************************************************)
EXTENDS MCDecisions, LlmProposer, Conformance, Adapters, LoadHarness

CONSTANTS f1, f2, r1, r2
TwoFirings == {f1, f2}
TwoRuns == {r1, r2}
Unconsulted == [kind |-> "advisor"]

(* Four vehicles of which one cannot be read, against three stalls that    *)
(* charge; the digest holds two or three of each.                          *)
Vehicle(id, soc, inlet) == [id |-> id, soc |-> soc, inlet |-> inlet, serviceable |-> id # 4]
Stall(id, type, kw) == [id |-> id, type |-> type, kw |-> kw]
DepotFrames ==
  {[vehicles |-> <<Vehicle(1, s[1], 40), Vehicle(2, s[2], 0), Vehicle(3, s[3], Unread), Vehicle(4, 5, 10)>>,
    stalls |-> <<Stall(1, "l2", 20), Stall(2, "dcfc", 60), Stall(3, "dcfc", 90), Stall(4, "staging", 50), Stall(5, "l2", Unread)>>] :
     s \in {<<30, 20, 50>>, <<30, 30, 10>>, <<30, Unread, 10>>}}
Entries ==
  {Entry(v, s, FALSE) : v \in {1, 2, 3}, s \in {2, 3, NoStall}} \cup {Entry(1, 8, FALSE), Entry(2, 3, TRUE), Entry(4, 2, FALSE), Scrap}
    \cup {Entry(Unhashable, 2, FALSE), Entry(1, Unhashable, FALSE), Entry(3, Unhashable, TRUE)}
AnswerQuestions ==
  [kind : {"answer"}, frame : DepotFrames, most : {2, 3}, said : {Malformed} \cup UNION {[1..n -> Entries] : n \in 0..3}]
AnswerAnswer(q) ==
  LET digest == FrameDigest(q.frame, q.most, q.most)
  IN  [digest |-> digest, fire |-> FireRecord(q.said, digest),
       reversed |-> FireRecord(IF IsAnswer(q.said) THEN Reverse(q.said) ELSE q.said, digest)]

(* Two classes, a charger with or without a turnaround, a dock they share, *)
(* a move over a narrow path; and one thing spoiled.                       *)
Op(code, minutes, kw) ==
  [code |-> code, minutes |-> minutes, kw |-> kw, moves |-> FALSE, generic |-> FALSE, paths |-> {}, energy |-> kw # Undeclared,
   emitsSdr |-> TRUE, parallel |-> FALSE]
Tow(minutes, paths) == [Op(9, minutes, Undeclared) EXCEPT !.moves = TRUE, !.generic = paths = {}, !.paths = paths, !.emitsSdr = FALSE]
Point(type, capabilities, gap, count) ==
  [type |-> type, capabilities |-> capabilities, gap |-> gap, count |-> count, exclusive |-> TRUE]
Claim(mechanism, class) == [mechanism |-> mechanism, finding |-> class]
PackOf(gap, tow, washes, capacity, claims) ==
  [status |-> "paper", sourced |-> TRUE, classes |-> <<1, 2>>,
   operations |-> <<Op(1, 4, 50), Op(2, Undeclared, Undeclared), Op(3, 1, 20)>> \o tow,
   points |-> <<Point("charger", {<<1, 1>>, <<2, 1>>}, gap, 2), Point("dock", {<<1, 2>>, <<2, 3>>} \cup washes, Undeclared, 1),
                Point("stand", {<<2, 2>>, <<1, 3>>}, 2, 1)>>,
   paths |-> <<[code |-> "aisle", capacity |-> capacity]>>, constraints |-> claims]
Packs_ ==
  {PackOf(g, t, w, c, k) :
     g \in {Undeclared, 2, 5}, t \in {<<>>, <<Tow(Undeclared, {})>>, <<Tow(3, {"aisle"})>>, <<Tow(1, {"aisle"})>>},
     w \in {{}, {<<2, 2>>}, {<<1, 3>>}}, c \in {1, 2},
     k \in {{}, {Claim("min_gap_on_point", Undeclared)}, {Claim(Undeclared, "SOLVER_CHANGE"), Claim("tariff_window", Undeclared)}}}
Crossing ==
  {[PackOf(Undeclared, <<Tow(t, {})>>, {}, 2, {}) EXCEPT
      !.operations[1].minutes = m, !.operations[2].minutes = n,
      !.points = <<Point("charger", {<<1, 1>>, <<2, 3>>}, Undeclared, 1), Point("dock", {<<1, 2>>, <<2, 2>>}, Undeclared, 1),
                   Point("stand", {<<1, 3>>, <<2, 1>>}, Undeclared, 1)>>] : t \in {2, 5}, m \in 1..4, n \in {2, 4}}
Spoiled(pack) ==
  {[pack EXCEPT !.sourced = FALSE], [pack EXCEPT !.classes = <<1>>], [pack EXCEPT !.operations = SubSeq(@, 1, 2)],
   [pack EXCEPT !.operations = Append(@, Op(1, 2, 10))], [pack EXCEPT !.operations[1].paths = {"aisle"}],
   [pack EXCEPT !.operations[2].emitsSdr = FALSE], [pack EXCEPT !.points = SubSeq(@, 1, 1)],
   [pack EXCEPT !.paths[1].capacity = 0], [pack EXCEPT !.paths = <<>>], [pack EXCEPT !.status = "real"],
   [pack EXCEPT !.constraints = {Claim(Undeclared, Undeclared)}], [pack EXCEPT !.constraints = {Claim("telepathy", Undeclared)}]}
PackQuestions ==
  [kind : {"pack"}, pack : Packs_ \cup Crossing \cup Spoiled(PackOf(2, <<Tow(3, {"aisle"})>>, {}, 1, {})), assets : {1, 2}, cap : {60, 100, 300}]
AnswerPack(q) == RunPack(q.pack, q.assets, q.cap)

(* A robot's state and the orders made for it, a record that comes back    *)
(* with one field gone or null, and a class an author might write.         *)
Robots == [manufacturer : {<<"acme">>, <<"acme", "eu">>}, serialNumber : {<<"7">>, <<"eu", "7">>, <<Empty>>}]
Intents(ref) ==
  [ref : {ref}, operation : {"charge_l2", "charge_dcfc", "wash"}, notBefore : {1, 2}, notAfter : {3, 4}, point : {"n1", "n2"}]
States(robot) ==
  {[manufacturer |-> robot.manufacturer, serialNumber |-> robot.serialNumber, driving |-> d, lastNodeId |-> "n1",
    safetyState |-> s] : d \in BOOLEAN, s \in {<<>>, [activeEmergencyStop |-> "MANUAL"], [fieldViolation |-> TRUE]}}
RobotQuestions ==
  {[kind |-> "robot", robot |-> r, first |-> i, second |-> j] :
     r \in Robots, i \in {x \in Intents(<<"x">>) : x.point = "n1"}, j \in {x \in Intents(<<"x">>) : x.notAfter = 4}}
AnswerRobot(q) ==
  LET ref == VdaInbound(q.robot).ref
      Order(i) == IF HasSerial(ref) THEN VdaOutbound([i EXCEPT !.ref = ref]) ELSE Null
      done == [actionStates |-> {[id |-> OrderId([q.first EXCEPT !.ref = ref]), ours |-> TRUE]}] @@ q.robot
  IN  [ref |-> ref, first |-> Order(q.first), second |-> Order(q.second), done |-> VdaInbound(done),
       states |-> {VdaInbound(s) : s \in States(q.robot)}, planned |-> OcpiOutbound(q.first)]
PlainCdr ==
  [field \in CdrFields |-> IF field = "total_time" THEN 2 ELSE <<"given", field>>]
Cdrs ==
  {PlainCdr} \cup {[PlainCdr EXCEPT ![f] = Null] : f \in CdrFields}
    \cup {[g \in CdrFields \ {f} |-> PlainCdr[g]] : f \in CdrFields}
Dimensions == [operation_code |-> "charge_l2", pack_id |-> "robotaxi"]
CdrQuestions == [kind : {"cdr"}, cdr : Cdrs]
AnswerCdr(q) ==
  LET sdr == CdrToSdr(q.cdr, Dimensions)
  IN  [sdr |-> sdr, back |-> SdrToCdr(sdr), fact |-> OcpiInbound(q.cdr)]
Classes_ ==
  [adapter : BOOLEAN, own : SUBSET {[head |-> "inbound", private |-> FALSE], [head |-> "choose", private |-> FALSE],
                                    [head |-> "choose", private |-> TRUE]},
   inherited : SUBSET {[head |-> "book", private |-> FALSE]}, inboundReturns : {"AssetFact", "ServiceIntent", Null},
   nestedFields : {{}, {"limit_kw"}, {"target_kw"}}, power : {Null, "ForwardPowerSchedule", "Setpoint"}]
ClassQuestions == [kind : {"class"}, cls : Classes_]
AnswerClass(q) == [admitted |-> IsAdmitted(q.cls), asserted |-> AssertTranslationOnly(q.cls)]

(* A load run of a floor and a target, with a pair about and a probe that  *)
(* may go unanswered.                                                      *)
LoadCalls ==
  {[url |-> u, target |-> t, admitsWrites |-> FALSE, bound |-> b, duration |-> d, pairs |-> {[from |-> f, upto |-> f + l]},
    answered |-> a, floorSamples |-> x, samples |-> y] :
     u \in BOOLEAN, t \in {"floor", "charger_load_kw", "unlisted"}, b \in {{"depot"}, {"depot", "clock"}}, d \in {2, 20},
     f \in {-3, 0, 1, 3, 14, 21}, l \in {1, 5, 20}, a \in {<<TRUE, TRUE, TRUE>>, <<TRUE, FALSE, TRUE>>},
     x \in {<<>>, <<2, 1, 3>>}, y \in {<<9>>, <<5, 9, 7, 1, 2>>}}
LoadQuestions == [kind : {"load"}, call : LoadCalls]
AnswerLoad(q) == Load(q.call)

---------------------------------------------------------------------------
OutsideInit ==
  \/ Init /\ AdvisorInit
  \/ question = Unconsulted /\ answer = Unanswered /\ NoDoctrine /\ AdvisorInit
  \/ /\ \/ question \in AnswerQuestions
        \/ question \in PackQuestions
        \/ question \in RobotQuestions
        \/ question \in CdrQuestions
        \/ question \in ClassQuestions
        \/ question \in LoadQuestions
     /\ answer = Unanswered /\ NoDoctrine /\ AdvisorInit
OutsideNext ==
  \/ Next /\ UNCHANGED advisorVars
  \/ question = Unconsulted /\ AdvisorNext /\ UNCHANGED <<question, answer, doctrineVars>>
  \/ Answer("answer", AnswerAnswer) /\ UNCHANGED advisorVars
  \/ Answer("pack", AnswerPack) /\ UNCHANGED advisorVars
  \/ Answer("robot", AnswerRobot) /\ UNCHANGED advisorVars
  \/ Answer("cdr", AnswerCdr) /\ UNCHANGED advisorVars
  \/ Answer("class", AnswerClass) /\ UNCHANGED advisorVars
  \/ Answer("load", AnswerLoad) /\ UNCHANGED advisorVars
OutsideSpec == OutsideInit /\ [][OutsideNext]_<<question, answer, doctrineVars, advisorVars>>

(* llm_proposer.py: an id that is a list or an object ends the fire with   *)
(* no row at all, as a vehicle of any entry or as the stall of one that is *)
(* heard, and nothing else does.  Otherwise, whatever the model wrote,     *)
(* each vehicle of the digest has one row, no stall is given twice, a      *)
(* contested one goes to the vehicle with the lower charge and not to the  *)
(* entry that came first, the power is within both limits, and every entry *)
(* is accounted for.                                                       *)
IsLookedUp(said, digest, i) ==
  /\ ~said[i].abstain /\ said[i].vehicle \in Ids(digest.vehicles)
  /\ \A j \in 1..(i - 1) : ~Names(said[j], said[i].vehicle)
HasNoKey(said, digest) ==
  \E i \in DOMAIN said :
    /\ said[i].shape = "object"
    /\ said[i].vehicle = Unhashable \/ (said[i].stall = Unhashable /\ IsLookedUp(said, digest, i))
AnswerIsKeptToTheDigest ==
  IsAnswered("answer") =>
    LET digest == answer.digest
        rows == answer.fire.rows
        said == question.said
        raises == IsAnswer(said) /\ HasNoKey(said, digest)
        abstained == {k \in DOMAIN rows : rows[k].by = "model"}
        twice == \E i, j \in DOMAIN said : i # j /\ said[i].shape = "object" /\ Names(said[j], said[i].vehicle)
        Names_(p, k, s) == Names(p, rows[k].vehicle) /\ p.stall = s /\ ~p.abstain
    IN  /\ answer.fire.status = "raised" <=> raises
        /\ raises => rows = <<>>
        /\ ~raises => [k \in DOMAIN rows |-> rows[k].vehicle] = [k \in DOMAIN digest.vehicles |-> digest.vehicles[k].id]
        /\ \A k \in Planned(rows) :
             LET stall == CHOOSE s \in ToSet(digest.stalls) : s.id = rows[k].stall
             IN  /\ rows[k].stall \in Ids(digest.stalls)
                 /\ 0 < rows[k].kw /\ rows[k].kw <= stall.kw
                 /\ digest.vehicles[k].inlet \notin {0, Unread} => rows[k].kw <= digest.vehicles[k].inlet
                 /\ \A j \in Planned(rows) \ {k} : rows[j].stall # rows[k].stall
                 /\ \E i \in DOMAIN said : Names_(said[i], k, rows[k].stall)
        /\ IsAnswer(said) /\ ~raises =>
             /\ Len(said) = answer.fire.planned + Cardinality(abstained) + Len(answer.fire.rejections)
             /\ ~twice => /\ answer.reversed.rows = rows
                          /\ \A k \in DOMAIN rows, s \in Ids(digest.stalls) : \A i \in DOMAIN said :
                               Names_(said[i], k, s) => \E j \in 1..k : rows[j].stall = s

(* conformance/: a pack the harness calls conforming has a schedule that   *)
(* holds in every minute, by what the pack says and not by what the checks *)
(* look at: no asset is in two places, each has all it asked for with a    *)
(* move wherever it changes points, no point is shared or started before   *)
(* its turnaround is over, and the paths and the connection carry it.      *)
ConformingPackIsFeasible ==
  IsAnswered("pack") /\ answer.conforms =>
    LET pack == question.pack
        all == answer.scheduled
        served == {s \in all : ~IsMove(s)}
        GapOf(s) == Or((CHOOSE sp \in ToSet(pack.points) : sp.type = s.point[1]).gap, 0)
        Apart(s, r, gap) == s.upto + gap <= r.from \/ r.upto + gap <= s.from
        Next_(s, r) == s.asset = r.asset /\ s.upto <= r.from /\ \A x \in served \ {s, r} : x.asset = s.asset => x.upto <= s.upto \/ r.upto <= x.from
        paths == UNION {o.paths : o \in Operations(pack)}
    IN  /\ \A s, r \in all : (s # r /\ s.asset = r.asset) => Apart(s, r, 0)
        /\ \A s, r \in served : (s # r /\ s.point = r.point) => Apart(s, r, GapOf(s))
        /\ \A cls \in {1, 2}, i \in 1..question.assets :
             {s.code : s \in {x \in served : x.asset = <<cls, i>>}} = {c[2] : c \in {c \in Capabilities(pack) : c[1] = cls}}
        /\ (InterPointMove(pack) # Undeclared) =>
             \A s, r \in served : (Next_(s, r) /\ s.point # r.point) =>
                \E m \in all \ served : m.asset = s.asset /\ s.upto <= m.from /\ m.upto <= r.from
        /\ \A t \in Instants(all) :
             /\ KwAt(all, t) <= question.cap
             /\ \A r \in ToSet(pack.paths) : Cardinality(PathUsers(pack, all, r.code, t)) <= r.capacity

(* adapters/: an order reaches the robot whose state the reference came    *)
(* from, wherever the slash of its serial number is, and only where its    *)
(* manufacturer has none; two decisions of one robot are one order exactly *)
(* when they say the same work from the same time; the robot's own word    *)
(* on that order is heard as its own; a settled record comes back as it    *)
(* was, unless a text it must have was null or missing; and what both      *)
(* checks admit has no method that decides, its own or inherited.          *)
AdaptersTranslateFaithfully ==
  /\ IsAnswered("robot") /\ answer.first # Null =>
       LET to == answer.first.to
           r == question.robot
           i == question.first
           j == question.second
       IN  /\ (to.manufacturer = r.manufacturer /\ to.serial = r.serialNumber) <=> Len(r.manufacturer) = 1
           /\ (answer.first.orderId = answer.second.orderId) <=> (i.operation = j.operation /\ i.notBefore = j.notBefore)
           /\ answer.done.ref = answer.ref /\ answer.first.action.id \in {a.id : a \in answer.done.actions}
           /\ \A f \in answer.states : f.ref = answer.ref
           /\ answer.planned.from = answer.first.timestamp /\ answer.planned.location = answer.first.node
  /\ IsAnswered("cdr") =>
       ((answer.back = question.cdr) <=>
          /\ DOMAIN question.cdr = CdrFields
          /\ \A f \in TextFields \cup {"depot_id"} : question.cdr[f] # Null)
  /\ IsAnswered("class") =>
       (answer.admitted /\ answer.asserted =>
          /\ \A m \in question.cls.own \cup question.cls.inherited : m.private \/ m.head \notin DecisionVerbs
          /\ question.cls.power # "Setpoint" /\ question.cls.inboundReturns # "ServiceIntent")

(* What reaches the engine or leaves it through others' words is kept to   *)
(* what was meant: a language model's answer to the digest it was shown,   *)
(* an order to its robot, a settled record to what it said.                *)
OutsideIsReadFaithfully == AnswerIsKeptToTheDigest /\ AdaptersTranslateFaithfully

(* load/harness.py: a result is of one run.  It has as many latencies as   *)
(* its own run made, each percentile is one that happened and that enough  *)
(* of the others do not exceed, a result that says no pair was about is    *)
(* wrong only of one that came and went between two probes, and it never   *)
(* says so of a pair it could not ask about.                               *)
LoadResultIsOneRun ==
  IsAnswered("load") /\ answer # Unsaid =>
    LET call == question.call
        l == answer.main.latency
        between == FloorTime(call.duration)
        Under(v) == Cardinality({i \in DOMAIN call.samples : call.samples[i] <= v})
        Met(p) == p.from < between + call.duration /\ p.upto > 0
    IN  /\ l.n = Len(call.samples)
        /\ \A p \in {<<50, l.p50>>, <<90, l.p90>>, <<99, l.p99>>} :
             /\ p[2] \in ToSet(call.samples)
             /\ 100 * Under(p[2]) >= p[1] * l.n /\ 100 * Under(p[2] - 1) < p[1] * l.n
        /\ answer.note = "none" => \A p \in call.pairs : Met(p) => p.upto - p.from < IF between > call.duration THEN between ELSE call.duration
        /\ ~(call.answered[2]) => answer.note # "none"
        /\ answer.share = Unsaid <=> call.floorSamples = <<>>
=============================================================================
