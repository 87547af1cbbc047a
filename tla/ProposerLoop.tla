---------------------------- MODULE ProposerLoop ----------------------------
(***************************************************************************)
(* The CP-SAT proposer's loop (bridge/proposer_bridge.py, run_live): one     *)
(* process that checks for a certification, resolves the depot's run, arms   *)
(* it, reads a frame, solves, submits and waits for the run's tick. Every    *)
(* statement reads what is committed when it runs, so the depot moves        *)
(* between any two of its steps: runs start, pause and end, ticks pass,      *)
(* cars come and go, an operator turns a dial.                               *)
(* Times are sim minutes in units of one tick, and relative: gap[v] is how   *)
(* far the clock of the loop's run is from the due time the loop remembers   *)
(* for v. Runs have clocks of their own, so a change of run shifts the gaps. *)
(***************************************************************************)
EXTENDS Integers

CONSTANTS Runs,      \* the depot's runs
          NoRun,
          Vehicles,
          Modes,     \* how it may be called, and whose the runs are: see mode
          Within,    \* --start-within, in ticks
          MaxStart,  \* bound: the latest planned start told apart
          MaxSkips,  \* max_consecutive_skips
          Shifts     \* bound: by how much two runs' clocks may differ

ASSUME RunAssumption == NoRun \notin Runs
ASSUME TimeAssumption == Within \in Nat /\ MaxStart \in Nat \ {0} /\ MaxSkips \in Nat /\ Shifts \subseteq Int
ASSUME ModeAssumption == Modes \subseteq [auto : BOOLEAN, cert : SUBSET Runs]

VARIABLES
  mode,     \* auto: --run auto, the run is resolved before every fire; cert: the runs a certification harness made
  status,   \* of each run: new, running, paused, over
  facts,    \* the runs whose frames carry the selector's facts (proposer_frame_facts)
  rig,      \* a certification call holds the database
  waiting,  \* the vehicles in the depot's frame that want a plan
  start,    \* how far off the plan the solver would make for a vehicle begins
  pc,       \* where the loop is: check, resolve, read, frame, solve, submit, wait, done
  run,      \* sim_run_id
  armed,    \* armed_run
  skips,    \* consecutive skips
  told,     \* the keys of not_due_until
  gap,      \* the due time remembered for each of them, less the run's clock, at least 0
  late,     \* ticks of the run since its row was read
  early,    \* the vehicles not due by the clock in that row
  frame,    \* the vehicles of the fetched frame
  withheld, \* the vehicles suppress_not_due dropped from it
  rows,     \* the rows to submit: vehicle -> none, plan, abstain, later
  ahead,    \* the run's tick has moved past last_fired_tick
  undone,   \* history: the runs somebody disarmed since the loop armed them
  answered, \* history: <<run, vehicle>> this loop has submitted a row for
  unread    \* history: a tick of the run that no frame of this loop has shown

vars == <<mode, status, facts, rig, waiting, start, pc, run, armed, skips, told, gap, late, early,
          frame, withheld, rows, ahead, undone, answered, unread>>
world == <<mode, status, facts, rig, waiting, start>>
mind == <<run, armed, skips, told, gap, ahead, undone, answered, unread>>
fire == <<late, early, frame, withheld, rows>>

auto == mode.auto
CertRuns == mode.cert

TypeOK ==
  /\ mode \in Modes /\ status \in [Runs -> {"new", "running", "paused", "over"}]
  /\ facts \subseteq Runs /\ rig \in BOOLEAN /\ waiting \subseteq Vehicles
  /\ start \in [Vehicles -> 0..MaxStart]
  /\ pc \in {"check", "resolve", "read", "frame", "solve", "submit", "wait", "done"}
  /\ run \in Runs \cup {NoRun} /\ armed \in Runs \cup {NoRun} /\ skips \in 0..MaxSkips
  /\ told \subseteq Vehicles /\ gap \in [Vehicles -> 0..MaxStart] /\ late \in 0..MaxStart
  /\ early \subseteq Vehicles /\ frame \subseteq Vehicles /\ withheld \subseteq Vehicles
  /\ undone \subseteq Runs /\ rows \in [Vehicles -> {"none", "plan", "abstain", "later"}]
  /\ ahead \in BOOLEAN /\ unread \in BOOLEAN /\ answered \subseteq Runs \X Vehicles

Clip(n) == IF n < 0 THEN 0 ELSE IF n > MaxStart THEN MaxStart ELSE n
Running == {r \in Runs : status[r] = "running"}

-----------------------------------------------------------------------------
(* The depot. *)
Starts(r) == /\ status[r] \in {"new", "paused"}
             /\ status' = [status EXCEPT ![r] = "running"]
             /\ UNCHANGED <<mode, facts, rig, waiting, start, pc, mind, fire>>

Leaves(r, s) == /\ status[r] = "running" /\ s \in {"paused", "over"}
                /\ status' = [status EXCEPT ![r] = s]
                /\ UNCHANGED <<mode, facts, rig, waiting, start, pc, mind, fire>>

(* A tick of the loop's run: its clock moves on by one, and every plan is a tick nearer. *)
Tick ==
  /\ run # NoRun /\ status[run] = "running"
  /\ gap' = [v \in Vehicles |-> Clip(gap[v] - 1)]
  /\ start' = [v \in Vehicles |-> Clip(start[v] - 1)]
  /\ late' = IF pc \in {"frame", "solve", "submit"} THEN Clip(late + 1) ELSE 0
  /\ ahead' = TRUE /\ unread' = TRUE
  /\ UNCHANGED <<mode, status, facts, rig, waiting, pc, run, armed, skips, told, early, frame, withheld, rows, undone, answered>>

(* A car comes, goes, or finds a charger earlier or later than it would have. *)
Comes(v, s) == /\ waiting' = waiting \cup {v} /\ start' = [start EXCEPT ![v] = s]
               /\ UNCHANGED <<mode, status, facts, rig, pc, mind, fire>>
Goes(v) == /\ waiting' = waiting \ {v}
           /\ UNCHANGED <<mode, status, facts, rig, start, pc, mind, fire>>

(* Somebody else's hand: a certification comes or goes, a run is disarmed. *)
Certifies == /\ rig' = ~rig
             /\ UNCHANGED <<mode, status, facts, waiting, start, pc, mind, fire>>
Disarms(r) == /\ r \in facts /\ facts' = facts \ {r} /\ undone' = undone \cup {r}
              /\ UNCHANGED <<mode, status, rig, waiting, start, pc, run, armed, skips, told, gap, ahead, answered, unread, fire>>

-----------------------------------------------------------------------------
(* The loop. An exception rolls its transaction back and ends the process. *)
Ends == pc' = "done" /\ UNCHANGED <<mind, fire, world>>

(* _cert_in_flight: it waits a certification out, but not for ever. *)
Check ==
  /\ pc = "check" /\ ~rig
  /\ pc' = "resolve" /\ skips' = 0
  /\ UNCHANGED <<run, armed, told, gap, ahead, undone, answered, unread, fire, world>>
Skip ==
  /\ pc = "check" /\ rig /\ skips + 1 < MaxSkips
  /\ skips' = skips + 1
  /\ UNCHANGED <<pc, run, armed, told, gap, ahead, undone, answered, unread, fire, world>>
GivesUp == pc = "check" /\ rig /\ skips + 1 >= MaxSkips /\ Ends

(* Another run's clock: the due times the loop keeps are as far from it as they happen to be. *)
Shifted(d) == [v \in Vehicles |-> IF v \in told THEN Clip(gap[v] + d) ELSE 0]

(* _resolve_run: the depot's one running run, which no certification harness made. *)
Resolve(r) ==
  /\ pc = "resolve" /\ pc' = "read"
  /\ IF auto THEN Running = {r} /\ r \notin CertRuns ELSE r = run
  /\ run' = r
  /\ \E d \in Shifts : gap' = IF r = run \/ run = NoRun THEN gap ELSE Shifted(d)
  /\ UNCHANGED <<armed, skips, told, ahead, undone, answered, unread, fire, world>>
Unresolved == pc = "resolve" /\ auto /\ (\A r \in Runs \ CertRuns : Running # {r}) /\ Ends

(* mutant of Arms: the run is armed on the first pass only *)
ArmsOnce(r) == IF armed = NoRun THEN {r} ELSE {}

(* What ottoq_agentic_arm is called on: a run the loop has not armed. *)
Arms(r) == IF armed # r THEN {r} ELSE {}

(* mutant of NotDue: the clock is not looked at *)
NotDueEver == {v \in told : TRUE}

(* The vehicles whose own abstention is not due by the run's clock. *)
NotDue == {v \in told : gap[v] > 0}

(* _arm_run: the receipt confirms the arming, unless the run is a certification's. *)
CanArm(r) == Arms(r) \cap CertRuns = {}

(* The run's row, and its arming when the run is another. *)
ReadRun ==
  /\ pc = "read" /\ status[run] = "running" /\ CanArm(run)
  /\ pc' = "frame"
  /\ facts' = facts \cup Arms(run) /\ armed' = run /\ undone' = undone \ Arms(run)
  /\ early' = NotDue /\ late' = 0
  /\ UNCHANGED <<mode, status, rig, waiting, start, run, skips, told, gap, ahead, answered, unread, frame, withheld, rows>>
ReadEnds == pc = "read" /\ (status[run] # "running" \/ ~CanArm(run)) /\ Ends

(* _require_seeing_frame reads the frame that came back. *)
Sees == run \in facts

(* The decision frame as it is now, without the vehicles that are not due by the clock read before. *)
FetchFrame ==
  /\ pc = "frame" /\ Sees
  /\ pc' = "solve"
  /\ withheld' = early \cap waiting /\ frame' = waiting \ early
  /\ unread' = FALSE /\ early' = {}
  /\ UNCHANGED <<run, armed, skips, told, gap, ahead, undone, answered, late, rows, world>>
Blind == pc = "frame" /\ ~Sees /\ Ends

(* _fetch_site, under --site auto: the site is read after the frame, and refused when it declares   *)
(* no power cap, or a fraction of a kW.                                                             *)
SiteRefused == pc = "frame" /\ Sees /\ Ends

(* What the solver says of a vehicle: nothing (its batch was full), an abstention, or its plan. *)
Said(v) == {"none", "abstain", IF start[v] <= Within THEN "plan" ELSE "later"}

(* The moment a later plan comes within the window, from the clock the fire was read at. *)
Due(v) == Clip(start[v] - Within - late)

(* mutant of IsLater: whatever is not planned now is remembered *)
IsNotNow(what) == what # "plan"

(* abstained_by = 'bridge:not_due' *)
IsLater(what) == what = "later"

(* propose() over the frame, and what remember_not_due takes from its rows: a plan that begins     *)
(* beyond the window goes to the door as an abstention, and its due time is kept.                   *)
Solve ==
  /\ pc = "solve" /\ pc' = "submit"
  /\ \E said \in [Vehicles -> {"none", "plan", "abstain", "later"}] :
       /\ \A v \in Vehicles : IF v \in frame THEN said[v] \in Said(v) ELSE said[v] = "none"
       /\ rows' = said
       /\ told' = told \cup {v \in frame : IsLater(said[v])}
       /\ gap' = [v \in Vehicles |-> IF v \in frame /\ IsLater(said[v]) THEN Due(v) ELSE gap[v]]
  /\ UNCHANGED <<run, armed, skips, ahead, undone, answered, unread, late, early, frame, withheld, world>>

(* mutant of LastFired: the tick is read again when the rows are committed *)
FiredAtCommit == FALSE

(* last_fired_tick is the tick of the row that was read: the run has moved past it already if it ticked since. *)
LastFired == late > 0

(* Every row through the door, in one transaction; the run may have ended or been paused by now. *)
Submit ==
  /\ pc = "submit" /\ pc' = "wait"
  /\ answered' = answered \cup {<<run, v>> : v \in {u \in Vehicles : rows[u] # "none"}}
  /\ ahead' = LastFired
  /\ rows' = [v \in Vehicles |-> "none"] /\ frame' = {} /\ late' = 0
  /\ UNCHANGED <<run, armed, skips, told, gap, undone, unread, early, withheld, world>>

(* The fires or the wall time asked for are used up. *)
Exhausted == pc = "wait" /\ Ends

(* _wait_for_next_tick: the run is over or paused, its tick has moved, the wait is over, the poll fails. *)
Wakes ==
  /\ pc = "wait" /\ (status[run] # "running" => auto)
  /\ (status[run] = "running" => ahead)
  /\ pc' = "check"
  /\ UNCHANGED <<mind, fire, world>>
RunOver == pc = "wait" /\ status[run] # "running" /\ ~auto /\ Ends
TimesOut ==
  /\ pc = "wait" /\ status[run] = "running" /\ ~ahead
  /\ pc' = "check"
  /\ UNCHANGED <<mind, fire, world>>
PollFails ==
  /\ pc = "wait" /\ pc' = "check"
  /\ UNCHANGED <<mind, fire, world>>

-----------------------------------------------------------------------------
Init ==
  /\ mode \in Modes /\ status \in [Runs -> {"new", "running"}]
  /\ facts = {} /\ rig = FALSE /\ waiting \in SUBSET Vehicles
  /\ start \in [Vehicles -> 0..MaxStart]
  /\ pc = "check" /\ run \in (IF auto THEN {NoRun} ELSE Runs) /\ armed = NoRun /\ skips = 0
  /\ told = {} /\ gap = [v \in Vehicles |-> 0] /\ late = 0 /\ early = {}
  /\ frame = {} /\ withheld = {} /\ rows = [v \in Vehicles |-> "none"]
  /\ ahead = FALSE /\ undone = {} /\ answered = {} /\ unread = FALSE

Depot == \/ \E r \in Runs : Starts(r) \/ Disarms(r) \/ \E s \in {"paused", "over"} : Leaves(r, s)
         \/ Tick \/ Certifies
         \/ \E v \in Vehicles : Goes(v) \/ \E s \in 0..MaxStart : Comes(v, s)

Loop == \/ Check \/ Skip \/ GivesUp \/ (\E r \in Runs : Resolve(r)) \/ Unresolved
        \/ ReadRun \/ ReadEnds \/ FetchFrame \/ Blind \/ SiteRefused \/ Solve \/ Submit
        \/ Wakes \/ RunOver \/ TimesOut

Next == Depot \/ Loop \/ Exhausted \/ PollFails

Spec == Init /\ [][Next]_vars

(* The process runs, and a running run ticks. *)
FairSpec == Spec /\ WF_vars(Loop) /\ WF_vars(Tick)

-----------------------------------------------------------------------------
(* The loop gives a frame up as blind only when somebody disarmed its run after the loop armed it:  *)
(* however the run changes under it, it never reads a frame it should have armed for.               *)
BlindOnlyWhenDisarmed == [][Blind => run \in undone]_vars

(* A tick that no frame has shown does not wait out the timeout.                                    *)
NoTickSleptThrough == [][TimesOut => ~unread]_vars

(* proposer_bridge.py: whatever the depot does between two of its statements, the loop passes over  *)
(* no frame and no tick that it should have answered.                                               *)
MissesNothing == BlindOnlyWhenDisarmed /\ NoTickSleptThrough

(* suppress_not_due: a vehicle is withheld only if this loop has answered for it in this run.       *)
WithheldWasAnswered == \A v \in withheld : <<run, v>> \in answered

(* ... which the loop given one run keeps, in every state it can be in.                             *)
AGivenRunsWithheldWasAnswered == TypeOK /\ (~auto => WithheldWasAnswered)

(* A withheld car is planned again, unless it goes, the run pauses or ends, or the loop does.       *)
WithheldIsPlannedAgain ==
  \A v \in Vehicles : (~auto /\ v \in withheld) ~> (auto \/ v \in frame \/ v \notin waiting \/ pc = "done" \/ status[run] # "running")
=============================================================================
