----------------------------- MODULE PostRecord -----------------------------
(***************************************************************************)
(* Visits to one post as the engine records them: the cell of PostCell     *)
(* moves between ticks, the events the engine writes become rows of the    *)
(* trace that lab/safety/extract_trace.sql extracts, and the trace is what *)
(* PostMonitor reads. A row is stamped with the tick it was written at; a  *)
(* repair and a demate window end between ticks and count from the next.   *)
(***************************************************************************)
EXTENDS PostMonitor

CONSTANTS Variants,    \* which supervisors the post may run under
          Visits,      \* the cars that visit, 1..n, in this order
          Repairs,     \* the repair times a fault may draw
          Window,      \* the demate window
          Step,        \* from one tick to the next
          MaxTick      \* bound: the run is stopped by this instant

ASSUME PostAssumption ==
  /\ Window \in Nat \ {0} /\ Step \in Nat \ {0} /\ Repairs \subseteq Nat \ {0}
  /\ MaxTick \in Nat /\ MaxTick < Open

VARIABLES mode, cell, car, instant, rows, stopped,
          until,       \* when the demate window ends
          replay,      \* the visit's rows replayed through the post-0792 supervisor, as they are written
          repairAt,    \* when the drawn repair ends
          blurred,     \* cars whose visit held what no row shows: a repair, the sweep meeting a withdrawing arm
          overstayed,  \* cars on the out-of-service post at a tick after their demate ended
          deadMates,   \* cars whose mate began on a charger out of service
          refused      \* what the post-0792 supervisor would first have refused of each car

postVars == <<mode, cell, car, instant, rows, stopped, until, replay, repairAt, blurred, overstayed, deadMates, refused>>

Ticks == {t \in 0..instant : t % Step = 0}
AtTick == instant % Step = 0

Recorded(ev) ==
  CASE ev = "c_admit" -> "car_arrived" [] ev = "c_mate_start" -> "mate_started" [] ev = "u_latched" -> "mate_latched"
    [] ev = "u_charge_complete" -> "session_completed" [] ev = "u_fault" -> "charger_faulted"
    [] ev = "c_unlatch" -> "demate_started" [] ev = "c_emergency_release" -> "emergency_release"
    [] ev = "u_cleared" -> "demate_cleared" [] ev = "c_clean_start" -> "clean_started"
    [] ev = "u_clean_finished" -> "clean_done" [] ev = "c_clean_abort" -> "clean_cancelled"
    [] ev = "c_release" -> "car_left" [] OTHER -> "none"

\* The order the extraction gives the rows of one instant.
Rank(event) ==
  CASE event \in {"session_completed", "charger_faulted"} -> 10
    [] event \in {"demate_started", "emergency_release"} -> 20 [] event = "demate_cleared" -> 30
    [] event \in {"clean_done", "clean_cancelled"} -> 40 [] event = "car_left" -> 50 [] event = "car_arrived" -> 60
    [] event = "mate_started" -> 70 [] event = "mate_latched" -> 80 [] event = "clean_started" -> 85

Row(event, arg) == [t |-> instant, event |-> event, car |-> car, arg |-> arg]
InOrder(event) == rows # <<>> /\ Last(rows).t = instant => Rank(Last(rows).event) <= Rank(event)

\* The engine demates when a session ends and lets a faulted car go at once, whatever the arms do (no R3b,
\* no R3d); a forgetful one would also mate on a dead charger (no R1), which is what the monitor is there to see.
Takes(ev) ==
  IF mode \in {"engine", "forgetful"}
  THEN \/ Permitted("post_cell", cell, ev)
       \/ ev \in {"c_unlatch", "c_emergency_release"} /\ PlantAllows(cell, ev)
       \/ ev = "c_mate_start" /\ mode = "forgetful" /\ PlantAllows(cell, ev) /\ R3a(cell)
       \/ ev = "c_release" /\ PlantAllows(cell, ev) /\ cell.Tether = "Expired" /\ OutOfService(cell)
  ELSE Permitted(mode, cell, ev)

\* The renderer's cleaning arm waits with its doors open only while the charge arm moves.
CleanEnters == cell.CleanArm = "DoorsOpen" /\ Permitted("post_cell", cell, "c_clean_enter")

\* When the engine's record can hold the event: it abandons no mate, only a session's fault is a row, a stop
\* happens at the fault, the arm reports clear once the window is over, the technician ends at a tick.
Timely(ev) ==
  /\ ev # "c_mate_abort"
  /\ CleanEnters => ev = "c_clean_enter"
  /\ ev = "u_fault" => cell.ChargeArm = "Latched" /\ cell.Charger = "Occupied"
  /\ ev = "c_emergency_release" => OutOfService(cell)
  /\ ev = "c_mate_start" /\ OutOfService(cell) => instant < repairAt
  /\ ev = "u_cleared" /\ cell.Tether = "Demate" => instant >= until
  /\ ev = "u_repaired" => instant >= repairAt
  /\ ev = "c_clean_abort" => cell.Tether # "Held"
  /\ ev = "u_clean_finished" => ~AtTick
  /\ ~AtTick => ev \in {"u_clean_finished", "u_clean_home"}

PostInit ==
  /\ mode \in Variants /\ cell = Empty /\ car = 1 /\ instant = 0 /\ rows = <<>> /\ stopped = FALSE
  /\ until = 0 /\ replay = Start /\ repairAt = 0 /\ overstayed = {} /\ deadMates = {} /\ blurred = {} /\ refused = [c \in Visits |-> "none"]

CellStep(ev) ==
  LET event == Recorded(ev)
      left == ev = "c_emergency_release"
  IN /\ ~stopped /\ ev # "u_tick" /\ Takes(ev) /\ Timely(ev)
     /\ event # "none" => InOrder(event)
     /\ cell' = After(cell, ev)
     /\ \E minutes \in IF ev = "u_fault" THEN Repairs ELSE {0} :
          /\ repairAt' = IF ev = "u_fault" THEN instant + minutes ELSE repairAt
          /\ rows' = IF event = "none" THEN rows
                     ELSE rows \o <<Row(event, IF ev = "c_unlatch" THEN Window ELSE minutes)>>
                               \o (IF left THEN <<Row("car_left", 0)>> ELSE <<>>)
     /\ replay' = IF event = "none" THEN replay
                  ELSE LET now1 == ReplayRow("post_cell", replay, event)
                       IN IF left THEN ReplayRow("post_cell", now1, "car_left") ELSE now1
     /\ until' = IF ev = "c_unlatch" THEN instant + Window ELSE until
     /\ deadMates' = IF ev = "c_mate_start" /\ OutOfService(cell) THEN deadMates \cup {car} ELSE deadMates
     /\ refused' = IF refused[car] = "none" /\ ~Permitted("post_cell", cell, ev)
                   THEN [refused EXCEPT ![car] = ev] ELSE refused
     /\ blurred' = IF ev = "u_repaired" \/ (cell.CleanArm = "Returning" /\ ev \in {"c_hold", "c_release"}) THEN blurred \cup {car} ELSE blurred
     /\ UNCHANGED <<mode, car, instant, stopped, overstayed>>

\* Time passes once the tick's work is done: the sweep has decided, a repair or a window that ended was seen, a
\* faulted session has begun its release, the withdrawing arm is home (its way back is not recorded).
Pass ==
  /\ ~stopped /\ instant < MaxTick
  /\ cell.Tether # "Expired" /\ cell.CleanArm # "Returning" /\ ~CleanEnters
  /\ AtTick => ~(cell.Tether = "Demate" /\ instant >= until)
  /\ AtTick => ~(OutOfService(cell) /\ (instant >= repairAt \/ cell.ChargeArm = "Latched"))
  /\ instant' = instant + 1
  /\ cell' = IF cell.Tether = "Held" /\ instant' % Step = 0 THEN After(cell, "u_tick") ELSE cell
  /\ replay' = LET swept == IF AtTick THEN ReplaySweep("post_cell", replay) ELSE replay
               IN IF instant' % Step = 0 THEN ReplayTick("post_cell", swept) ELSE swept
  /\ overstayed' = IF cell.Tether = "Held" /\ OutOfService(cell) THEN overstayed \cup {car} ELSE overstayed
  /\ UNCHANGED <<mode, car, rows, stopped, until, repairAt, blurred, deadMates, refused>>

\* The next car finds the charger as the last one left it.
NextVisit ==
  /\ ~stopped /\ Marked(cell) /\ car + 1 \in Visits
  /\ car' = car + 1 /\ cell' = [Empty EXCEPT !.Charger = cell.Charger] /\ replay' = Start
  /\ UNCHANGED <<mode, instant, rows, stopped, until, repairAt, blurred, overstayed, deadMates, refused>>

Stop ==
  /\ ~stopped /\ AtTick /\ rows # <<>> /\ Last(rows).t < instant
  /\ stopped' = TRUE /\ rows' = Append(rows, Row("run_stopped", 0))
  /\ UNCHANGED <<mode, cell, car, instant, until, replay, repairAt, blurred, overstayed, deadMates, refused>>

PostNext == (\E ev \in Events : CellStep(ev)) \/ Pass \/ NextVisit \/ Stop
PostSpec == PostInit /\ [][PostNext]_postVars
-----------------------------------------------------------------------------
Finishable == ReachesMarked("post_cell")

\* R6, with what R2 costs: whatever the supervised cell did, the car can still be ready or re-queued with both arms
\* home and no tether; the supervisor of migration 0792 keeps every state and forbids only the G506 holds.
R2IsNoTrap ==
  /\ mode = "post_cell" => cell \in Finishable
  /\ ForbiddenByR2Alone = {tr \in PreTransitions : G506Hold(tr[1], tr[2])}

\* The monitor blames exactly the cars that were on the out-of-service post at a tick after their demate had ended,
\* and no mate, under every supervisor.
MonitorIsRight ==
  stopped => /\ {x.car : x \in R1Violations(rows, Ticks)} = deadMates
             /\ {v.car : v \in R2Violations(rows, Ticks)} = overstayed

\* The replay stops a visit exactly when the supervisor would have refused a step of it.
ReplayIsRight ==
  stopped /\ FirstRow(rows, car, "car_arrived", 0) # 0 /\ ~Skipped(rows, Ticks, car) /\ car \notin blurred
    => replay.stopped = refused[car]

\* The supervisor's own part in a trace: it stops what it should, and never stops everything.
SupervisionIsSound == ReplayIsRight /\ R2IsNoTrap
=============================================================================
