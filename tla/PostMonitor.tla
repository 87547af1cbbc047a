---------------------------- MODULE PostMonitor -----------------------------
(***************************************************************************)
(* The runtime monitor of one charging post, lab/safety/monitor.py, and    *)
(* the replay of a recorded visit through the controlled cell,             *)
(* lab/safety/replay.py. A trace is a sequence of rows in time order; the  *)
(* tick clock is a set of instants, empty when no clock was given. A row's *)
(* arg is the detail the monitor reads: the repair's minutes of a fault,   *)
(* the window of a demate.                                                 *)
(***************************************************************************)
EXTENDS PostCell, SequencesExt, FiniteSetsExt

\* Later than every instant: a repair, a clean or a stay the trace does not end.
Open == 1000

FirstAfter(ticks, t) == LET later == {x \in ticks : x > t} IN IF later = {} THEN Open ELSE Min(later)
FirstAtOrAfter(ticks, t) == LET later == {x \in ticks : x >= t} IN IF later = {} THEN Open ELSE Min(later)

\* The rows of some events, and the first such row of a car at or after an instant.
RowsOf(rows, events) == {rows[i] : i \in {j \in DOMAIN rows : rows[j].event \in events}}
FirstRow(rows, car, event, t) == SelectInSeq(rows, LAMBDA x : x.car = car /\ x.event = event /\ x.t >= t)

EndOf(rows) ==
  LET stop == SelectInSeq(rows, LAMBDA x : x.event = "run_stopped")
  IN IF stop # 0 THEN rows[stop].t ELSE Last(rows).t

\* The engine frees a charger at the first tick at or after the drawn repair; the trace has no repair row.
RepairedAt(rows, ticks, fault) ==
  LET drawn == fault.t + fault.arg
      at == IF ticks = {} THEN drawn ELSE FirstAtOrAfter(ticks, drawn)
  IN IF at > EndOf(rows) THEN Open ELSE at

\* R1: the mates and sessions that start on a charger out of service.
R1Violations(rows, ticks) ==
  {x \in RowsOf(rows, {"mate_started", "session_started"}) :
     \E f \in RowsOf(rows, {"charger_faulted"}) : f.t <= x.t /\ x.t < RepairedAt(rows, ticks, f)}

\* The cleaning arm's cycles on a car: each start with its end, open when another start or the trace's end comes first.
CleansOf(rows, car) ==
  LET mine == SelectSeq(rows, LAMBDA x : x.car = car /\ x.event \in {"clean_started", "clean_done", "clean_cancelled"})
  IN {[start |-> mine[i].t,
       end |-> IF i < Len(mine) /\ mine[i + 1].event # "clean_started" THEN mine[i + 1].t ELSE Open] :
      i \in {j \in DOMAIN mine : mine[j].event = "clean_started"}}

InProgress(clean, t) == clean.start <= t /\ clean.end > t

\* When the faulted car was due to leave: its demate's end, or the fault itself. Open stands for undecidable.
DueAt(rows, ticks, fault) ==
  LET atFault(event) == SelectInSeq(rows, LAMBDA x : x.car = fault.car /\ x.event = event /\ x.t = fault.t)
      cleared == FirstRow(rows, fault.car, "demate_cleared", fault.t)
  IN IF atFault("demate_started") = 0 THEN fault.t
     ELSE IF cleared # 0 THEN rows[cleared].t
     ELSE FirstAtOrAfter(ticks, fault.t + rows[atFault("demate_started")].arg)

LeftAt(rows, fault) ==
  LET left == FirstRow(rows, fault.car, "car_left", fault.t) IN IF left # 0 THEN rows[left].t ELSE EndOf(rows)

\* R2: each stay of a faulted car past its due time on a post still out of service.
R2Violations(rows, ticks) ==
  {v \in {[car |-> f.car, from |-> DueAt(rows, ticks, f), to |-> Min({LeftAt(rows, f), RepairedAt(rows, ticks, f)}),
           midClean |-> \E c \in CleansOf(rows, f.car) : InProgress(c, f.t)] :
          f \in RowsOf(rows, {"charger_faulted"})} : v.to > v.from}

\* R3d as an advisory only: the record cannot decide whether an arm was at the car.
Advisories(rows) ==
  RowsOf(rows, {"emergency_release"})
  \cup {x \in RowsOf(rows, {"car_left"}) : \E c \in CleansOf(rows, x.car) : c.start < x.t /\ c.end > x.t}

-----------------------------------------------------------------------------
(* The replay of one car's visit.                                          *)

MapEvent(event) ==
  CASE event = "car_arrived" -> <<"c_admit">>
    [] event = "mate_started" -> <<"c_mate_start">>
    [] event = "mate_latched" -> <<"u_at_inlet", "u_latched">>
    [] event = "session_completed" -> <<"u_charge_complete">>
    [] event = "charger_faulted" -> <<"u_fault">>
    [] event = "demate_started" -> <<"c_unlatch">>
    [] event = "demate_cleared" -> <<"u_unlatched", "u_extracted", "u_cleared">>
    [] event = "emergency_release" -> <<"c_emergency_release">>
    [] event = "clean_started" -> <<"c_clean_start">>
    [] event = "clean_done" -> <<"u_clean_finished", "u_clean_home">>
    [] event = "clean_cancelled" -> <<"c_clean_abort", "u_clean_home">>
    [] OTHER -> <<>>

Start == [cell |-> Empty, stopped |-> "none", left |-> FALSE]

\* One model event: the replay stops at the first the controlled cell does not allow.
ReplayStep(variant, r, ev) ==
  CASE r.stopped # "none" -> r
    [] r.stopped = "none" /\ Permitted(variant, r.cell, ev) -> [r EXCEPT !.cell = After(r.cell, ev)]
    [] OTHER -> [r EXCEPT !.stopped = ev]

ReplaySteps(variant, r, evs) ==
  LET run[n \in 0..Len(evs)] == IF n = 0 THEN r ELSE LET before == run[n - 1] IN ReplayStep(variant, before, evs[n])
  IN run[Len(evs)]

\* The waiting cleaning arm enters at the first point the controlled cell allows it.
TryEnter(variant, r) ==
  IF r.stopped = "none" /\ r.cell.CleanArm = "DoorsOpen" /\ Permitted(variant, r.cell, "c_clean_enter")
  THEN ReplayStep(variant, r, "c_clean_enter") ELSE r

\* A row of the visit. A car that an emergency let go has left already.
ReplayRow(variant, r, event) ==
  IF r.left THEN r
  ELSE IF event = "car_left"
  THEN [(IF r.cell.Car # "Left" THEN ReplayStep(variant, r, "c_release") ELSE r) EXCEPT !.left = TRUE]
  ELSE LET taken == ReplaySteps(variant, r, MapEvent(event)) IN TryEnter(variant, taken)

\* A tick begins: a held car meets the sweep again.
ReplayTick(variant, r) == IF ~r.left /\ r.cell.Tether = "Held" THEN ReplayStep(variant, r, "u_tick") ELSE r

NoSweep(variant, r) == r

\* A tick's rows are over: a car still here with its demate over was kept by the sweep.
ReplaySweep(variant, r) == IF ~r.left /\ r.cell.Tether = "Expired" THEN ReplayStep(variant, r, "c_hold") ELSE r

\* The visits a post's replay skips: the car came while the post was out of service.
Skipped(rows, ticks, car) ==
  LET came == rows[FirstRow(rows, car, "car_arrived", 0)].t
  IN \E f \in RowsOf(rows, {"charger_faulted"}) : f.t < came /\ RepairedAt(rows, ticks, f) > came
=============================================================================
