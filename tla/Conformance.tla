----------------------------- MODULE Conformance -----------------------------
(***************************************************************************)
(* conformance/: a pack says what a sector's assets, operations, points,   *)
(* paths and constraints are; the harness validates it, makes a manifest   *)
(* of it, schedules that by the kernel's mechanisms, and checks the        *)
(* schedule it made.  Minutes are integers, and codes are compared by "<"  *)
(* where the code sorts them, so they are numbers here.                    *)
(***************************************************************************)
EXTENDS Integers, Sequences, SequencesExt, FiniteSetsExt

CONSTANTS TickMin,      \* how long an operation takes that states no time
          MoveMin,      \* and a move
          Undeclared,   \* a number, mechanism or finding class that is not given
          PathPoint     \* "__path__", where a move is said to be

KernelMechanisms ==
  {"capability_pair", "exclusive_occupancy", "parallel_within_point", "site_power_cap", "min_gap_on_point",
   "movement_as_operation", "threshold_ladder", "work_side_refusal", "tariff_window", "forward_power_schedule",
   "layer1_rule", "sdr_termination"}
FindingClasses == {"DECLARATIVE", "SOLVER_CHANGE", "OUT_OF_SCOPE"}
PackStatuses == {"reference", "build", "paper"}

Operations(pack) == ToSet(pack.operations)
OpCodes(pack) == {o.code : o \in Operations(pack)}
Operation(pack, code) == pack.operations[Min({i \in DOMAIN pack.operations : pack.operations[i].code = code})]
PathCodes(pack) == {r.code : r \in ToSet(pack.paths)}
Capabilities(pack) == UNION {sp.capabilities : sp \in ToSet(pack.points)}

(* What PACK_SPEC refuses.                                                 *)
Error(name, bad) == IF bad THEN {name} ELSE {}
LoadErrors(pack) ==
  Error("status", pack.status \notin PackStatuses)
  \cup Error("no_source", ~pack.sourced)
  \cup Error("duplicate_operation", Len(pack.operations) # Cardinality(OpCodes(pack)))
  \cup Error("silent_operation", \E o \in Operations(pack) : ~o.emitsSdr /\ ~o.moves)
  \cup Error("unknown_class", \E c \in Capabilities(pack) : c[1] \notin ToSet(pack.classes))
  \cup Error("unknown_operation", \E c \in Capabilities(pack) : c[2] \notin OpCodes(pack))
  \cup Error("nowhere_to_happen", \E o \in Operations(pack) : ~o.moves /\ \A c \in Capabilities(pack) : c[2] # o.code)
  \cup Error("path_capacity", \E r \in ToSet(pack.paths) : r.capacity < 1)
  \cup Error("unknown_path", \E o \in Operations(pack) : ~(o.paths \subseteq PathCodes(pack)))
  \cup Error("path_without_a_move", \E o \in Operations(pack) : o.paths # {} /\ ~o.moves)
  \cup Error("unclassed_finding", \E c \in pack.constraints : c.mechanism = Undeclared /\ c.finding \notin FindingClasses)
  \cup Error("invented_mechanism", \E c \in pack.constraints : c.mechanism \notin KernelMechanisms \cup {Undeclared})

---------------------------------------------------------------------------
(* The move between points: one that consumes a path before one that only  *)
(* bears a move's name, the least code of its sort.                        *)
InterPointMove(pack) ==
  LET movers == {o \in Operations(pack) : o.moves /\ o.paths # {}}
      generic == {o \in Operations(pack) : o.moves /\ o.generic}
      Least(set) == Operation(pack, Min({o.code : o \in set}))
  IN  IF movers # {} THEN Least(movers) ELSE IF generic # {} THEN Least(generic) ELSE Undeclared

(* Every asset asks for every operation its class can have anywhere.       *)
AskedOf(pack, cls) ==
  SetToSortSeq({c[2] : c \in {c \in Capabilities(pack) : c[1] = cls /\ c[2] \in OpCodes(pack) /\ ~Operation(pack, c[2]).moves}}, <)
BuildScenario(pack, assetsPerClass) ==
  FlattenSeq([k \in DOMAIN pack.classes |-> [i \in 1..assetsPerClass |->
     [asset |-> <<pack.classes[k], i>>, cls |-> pack.classes[k], asks |-> AskedOf(pack, pack.classes[k])]]])
Steps(scenario) ==
  FlattenSeq([k \in DOMAIN scenario |-> [i \in DOMAIN scenario[k].asks |->
                [asset |-> scenario[k].asset, cls |-> scenario[k].cls, code |-> scenario[k].asks[i], first |-> i = 1]]])

Overlaps(t, dur, w) == ~(t + dur <= w.from \/ t >= w.upto)
Or(value, default) == IF value \in {Undeclared, 0} THEN default ELSE value
OnPoint(book, key) == {s \in book.scheduled : s.point = key}
PointsFor(pack, step) ==
  {i \in DOMAIN pack.points : <<step.cls, step.code>> \in pack.points[i].capabilities /\ pack.points[i].count > 0}

FirstFreeWithoutTurnaround(book, key, gap, cursor, dur) ==
  LET busy == OnPoint(book, key)
  IN  Min({u \in {cursor} \cup {w.upto + gap : w \in busy} : u >= cursor /\ \A w \in busy : ~Overlaps(u, dur, w)})

(* Where the code's search for a window ends: after the point's last       *)
(* session and its gap, at the first time no session is in the way.        *)
FirstFree(book, key, gap, cursor, dur) ==
  LET t == IF gap # 0 /\ key \in DOMAIN book.lastEnd /\ book.lastEnd[key] + gap > cursor THEN book.lastEnd[key] + gap ELSE cursor
      busy == OnPoint(book, key)
  IN  Min({u \in {t} \cup {w.upto + gap : w \in busy} : u >= t /\ \A w \in busy : ~Overlaps(u, dur, w)})

(* A move before the operation, when the asset changes points, may push    *)
(* its start; the code then looks at one session in the way, and no gap.   *)
AfterMove(book, key, t, dur, arrival) ==
  LET inTheWay == {w \in OnPoint(book, key) : Overlaps(arrival, dur, w)}
      first == CHOOSE w \in inTheWay : \A v \in inTheWay : w.order <= v.order
  IN  IF arrival <= t THEN t ELSE IF inTheWay = {} THEN arrival ELSE first.upto

Place(pack, step, began) ==
  LET book == IF step.first THEN [began EXCEPT !.cursor = 0, !.prev = Undeclared] ELSE began
      o == Operation(pack, step.code)
      dur == Or(o.minutes, TickMin)
      capable == PointsFor(pack, step)
      sp == pack.points[Min(capable)]
      key == <<sp.type, 0>>
      gap == Or(sp.gap, 0)
      move == InterPointMove(pack)
      moving == move # Undeclared /\ book.prev # Undeclared /\ book.prev # key
      mdur == Or(move.minutes, MoveMin)
      free == FirstFree(book, key, gap, book.cursor, dur)
      leaves == IF free - mdur > book.cursor THEN free - mdur ELSE book.cursor
      t == IF moving THEN AfterMove(book, key, free, dur, leaves + mdur) ELSE free
      Op(code, point, from, upto, kw) ==
        [asset |-> step.asset, cls |-> step.cls, code |-> code, point |-> point, from |-> from, upto |-> upto, kw |-> kw,
         order |-> Cardinality(book.scheduled)]
      trip == IF moving THEN {Op(move.code, <<PathPoint, 0>>, leaves, leaves + mdur, 0)} ELSE {}
      used == {"capability_pair"} \cup (IF gap # 0 /\ key \in DOMAIN book.lastEnd THEN {"min_gap_on_point"} ELSE {})
                \cup (IF sp.exclusive THEN {"exclusive_occupancy"} ELSE {})
                \cup (IF moving THEN {"movement_as_operation"} ELSE {})
                \cup (IF o.energy THEN {"site_power_cap"} ELSE {})
                \cup (IF o.emitsSdr THEN {"sdr_termination"} ELSE {})
                \cup (IF o.parallel THEN {"parallel_within_point"} ELSE {})
  IN  IF capable = {} THEN [book EXCEPT !.unschedulable = @ \cup {<<step.asset, step.code>>}]
      ELSE [book EXCEPT !.scheduled = @ \cup trip \cup {Op(step.code, key, t, t + dur, Or(o.kw, 0))},
                        !.lastEnd = (key :> (t + dur)) @@ @, !.cursor = t + dur, !.prev = key, !.used = @ \cup used]
EmptySchedule ==
  [scheduled |-> {}, unschedulable |-> {}, used |-> {}, lastEnd |-> <<>>, cursor |-> 0, prev |-> Undeclared]
Schedule(pack, scenario) == FoldLeft(LAMBDA book, step : Place(pack, step, book), EmptySchedule, Steps(scenario))

---------------------------------------------------------------------------
(* The checks on the schedule, at the instants where something changes.    *)
IsMove(s) == s.point[1] = PathPoint
At(scheduled, t) == {s \in scheduled : s.from <= t /\ t < s.upto}
Instants(scheduled) == {s.from : s \in scheduled} \cup {s.upto : s \in scheduled}
KwAt(scheduled, t) == MapThenSumSet(LAMBDA s : s.kw, At(scheduled, t))
PathUsers(pack, scheduled, code, t) ==
  {s \in At(scheduled, t) : code \in Operation(pack, s.code).paths}
Verify(pack, scheduled, capKw) ==
  LET served == {s \in scheduled : ~IsMove(s)}
      moves == {s \in scheduled : Operation(pack, s.code).paths # {}}
  IN  Error("incapable_point", \E s \in served : \A sp \in ToSet(pack.points) :
              ~(sp.type = s.point[1] /\ <<s.cls, s.code>> \in sp.capabilities))
      \cup Error("point_overlap", \E s \in served : \E r \in served \ {s} :
              r.point = s.point /\ s.from <= r.from /\ r.from < s.upto)
      \cup Error("path_resource", \E r \in ToSet(pack.paths), t \in Instants(moves) :
              Cardinality(PathUsers(pack, moves, r.code, t)) > r.capacity)
      \cup Error("power_cap", \E t \in Instants(scheduled) : KwAt(scheduled, t) > capKw)
ConstraintFindings(pack) == {c \in pack.constraints : c.mechanism = Undeclared}
UnverifiedClaims(pack, exercised) == {c \in pack.constraints : c.mechanism \notin exercised \cup {Undeclared}}
PathWasStressed(pack, scheduled) ==
  \E s, r \in {x \in scheduled : Operation(pack, x.code).paths # {}} : s # r /\ ~(s.upto <= r.from \/ r.upto <= s.from)

RunPack(pack, assetsPerClass, capKw) ==
  LET errors == LoadErrors(pack)
      book == IF errors # {} THEN EmptySchedule ELSE Schedule(pack, BuildScenario(pack, assetsPerClass))
      violations == IF errors # {} THEN {} ELSE Verify(pack, book.scheduled, capKw)
      solves == errors = {} /\ violations = {} /\ book.unschedulable = {}
      findings == IF errors # {} THEN {} ELSE ConstraintFindings(pack)
      unverified == IF errors # {} THEN {} ELSE UnverifiedClaims(pack, book.used)
  IN  [loads |-> errors = {}, scheduled |-> book.scheduled, violations |-> violations, findings |-> findings,
       unverified |-> unverified, used |-> book.used, stressed |-> errors = {} /\ PathWasStressed(pack, book.scheduled),
       solves |-> solves, conforms |-> solves /\ findings = {},
       fullyEvidenced |-> solves /\ findings = {} /\ unverified = {}]
=============================================================================
