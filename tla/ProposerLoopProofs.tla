------------------------- MODULE ProposerLoopProofs -------------------------
(***************************************************************************)
(* What the loop of proposer_bridge.py owes its depot, for any runs, any   *)
(* vehicles and any clocks: a loop that is given its run withholds only    *)
(* vehicles it has answered for, and however runs change under --run auto  *)
(* it passes over no frame it should have armed for and no tick.           *)
(***************************************************************************)
EXTENDS ProposerLoop, TLAPS

(* What a given run's loop remembers it has answered, but for the rows it is about to submit. *)
Remembered ==
  ~auto =>
    /\ \A v \in told : <<run, v>> \in answered \/ (pc = "submit" /\ rows[v] = "later")
    /\ \A v \in early \cup withheld : <<run, v>> \in answered

(* Between two resolutions the loop has a run. *)
RunIsKnown == run = NoRun => pc \in {"check", "resolve", "done"}

(* The run the loop armed carries the selector's facts, or somebody took them from it since. *)
ArmedOrUndone ==
  /\ armed # NoRun => armed \in facts \cup undone
  /\ pc = "frame" => run = armed

(* A tick no frame has shown is one the loop will notice: by the row it fired on, or by the wait. *)
TicksAreSeen ==
  /\ pc \in {"solve", "submit"} /\ unread => late > 0
  /\ pc = "wait" /\ unread => ahead

LInv == TypeOK /\ RunIsKnown /\ Remembered /\ ArmedOrUndone /\ TicksAreSeen

-----------------------------------------------------------------------------
(* A start that is clipped is in range. *)
LEMMA ClipIsInRange == ASSUME NEW n \in Int PROVE Clip(n) \in 0..MaxStart
  BY TimeAssumption DEF Clip

(* So is every start once the clock has moved. *)
LEMMA ShiftedIsInRange ==
  ASSUME TypeOK, NEW d \in Shifts
  PROVE  Shifted(d) \in [Vehicles -> 0..MaxStart]
<1>1. \A v \in Vehicles : gap[v] + d \in Int
  BY TimeAssumption DEF TypeOK
<1> QED BY <1>1, ClipIsInRange, TimeAssumption DEF Shifted

(* Initially the loop remembers nothing and nothing has been armed. *)
LEMMA LoopStarts == Init => LInv
<1> SUFFICES ASSUME Init PROVE LInv
  OBVIOUS
<1>1. 0 \in 0..MaxStart /\ 0 \in 0..MaxSkips
  BY TimeAssumption
<1>2. run \in Runs \cup {NoRun}
  BY DEF Init
<1>3. status \in [Runs -> {"new", "running", "paused", "over"}]
  BY DEF Init
<1>4. TypeOK
  BY <1>1, <1>2, <1>3 DEF Init, TypeOK
<1>5. RunIsKnown /\ Remembered /\ ArmedOrUndone /\ TicksAreSeen
  BY DEF Init, RunIsKnown, Remembered, ArmedOrUndone, TicksAreSeen
<1> QED BY <1>4, <1>5 DEF LInv

-----------------------------------------------------------------------------
(* The depot's steps: only a tick and a disarming touch what the loop's invariant speaks of. *)
LEMMA TickKeeps == ASSUME LInv, Tick PROVE LInv'
<1> USE DEF LInv, Tick
<1>1. TypeOK'
  <2>1. \A v \in Vehicles : gap[v] - 1 \in Int /\ start[v] - 1 \in Int /\ late + 1 \in Int
    BY TimeAssumption DEF TypeOK
  <2>2. gap' \in [Vehicles -> 0..MaxStart] /\ start' \in [Vehicles -> 0..MaxStart]
    BY <2>1, ClipIsInRange
  <2>3. late' \in 0..MaxStart
    BY <2>1, ClipIsInRange, TimeAssumption DEF TypeOK
  <2> QED BY <2>2, <2>3 DEF TypeOK
<1>2. RunIsKnown' /\ Remembered' /\ ArmedOrUndone'
  BY DEF RunIsKnown, Remembered, ArmedOrUndone, auto
<1>3. TicksAreSeen'
  BY TimeAssumption DEF TypeOK, TicksAreSeen, Clip
<1> QED BY <1>1, <1>2, <1>3

(* What the depot does between fires keeps the invariant. *)
LEMMA DepotKeeps == ASSUME LInv, Depot PROVE LInv'
<1> USE DEF LInv, mind, fire
<1>1. ASSUME NEW r \in Runs, Starts(r) PROVE LInv'
  BY <1>1 DEF Starts, TypeOK, Remembered, ArmedOrUndone, TicksAreSeen, RunIsKnown, auto
<1>2. ASSUME NEW r \in Runs, Disarms(r) PROVE LInv'
  BY <1>2 DEF Disarms, TypeOK, Remembered, ArmedOrUndone, TicksAreSeen, RunIsKnown, auto
<1>3. ASSUME NEW r \in Runs, NEW s \in {"paused", "over"}, Leaves(r, s) PROVE LInv'
  BY <1>3 DEF Leaves, TypeOK, Remembered, ArmedOrUndone, TicksAreSeen, RunIsKnown, auto
<1>4. CASE Certifies
  BY <1>4 DEF Certifies, TypeOK, Remembered, ArmedOrUndone, TicksAreSeen, RunIsKnown, auto
<1>5. ASSUME NEW v \in Vehicles, Goes(v) PROVE LInv'
  BY <1>5 DEF Goes, TypeOK, Remembered, ArmedOrUndone, TicksAreSeen, RunIsKnown, auto
<1>6. ASSUME NEW v \in Vehicles, NEW s \in 0..MaxStart, Comes(v, s) PROVE LInv'
  BY <1>6 DEF Comes, TypeOK, Remembered, ArmedOrUndone, TicksAreSeen, RunIsKnown, auto
<1> QED BY <1>1, <1>2, <1>3, <1>4, <1>5, <1>6, TickKeeps DEF Depot

-----------------------------------------------------------------------------
(* The loop's steps, in the order of run_live. *)
LEMMA CheckKeeps == ASSUME LInv, Check \/ Skip PROVE LInv'
<1> USE DEF LInv, fire, world
<1>1. TypeOK'
  BY TimeAssumption DEF TypeOK, Check, Skip
<1>2. Remembered' /\ RunIsKnown' /\ ArmedOrUndone' /\ TicksAreSeen'
  BY DEF Remembered, ArmedOrUndone, TicksAreSeen, RunIsKnown, Check, Skip, auto
<1> QED BY <1>1, <1>2

(* A loop given its run resolves to that run; another run's clock only shifts the due times. *)
LEMMA ResolveKeeps == ASSUME LInv, NEW r \in Runs, Resolve(r) PROVE LInv'
<1> USE DEF LInv, Resolve, fire, world
<1>1. gap' \in [Vehicles -> 0..MaxStart]
  BY ShiftedIsInRange DEF TypeOK
<1>2. TypeOK'
  BY <1>1 DEF TypeOK
<1>3. r # NoRun
  BY RunAssumption
<1>4. Remembered'
  BY DEF Remembered, auto
<1>5. RunIsKnown' /\ ArmedOrUndone' /\ TicksAreSeen'
  BY <1>3 DEF RunIsKnown, ArmedOrUndone, TicksAreSeen
<1> QED BY <1>2, <1>4, <1>5

(* The run is armed unless it is the one armed last; who is not due yet has been answered for. *)
LEMMA ReadRunKeeps == ASSUME LInv, ReadRun PROVE LInv'
<1> USE DEF LInv, ReadRun, Arms, NotDue
<1>0. run \in Runs
  BY DEF TypeOK, RunIsKnown
<1>1. TypeOK'
  BY <1>0, TimeAssumption DEF TypeOK
<1>2. Remembered'
  BY DEF Remembered, auto
<1>3. RunIsKnown' /\ ArmedOrUndone' /\ TicksAreSeen'
  BY <1>0 DEF RunIsKnown, ArmedOrUndone, TicksAreSeen
<1> QED BY <1>1, <1>2, <1>3

(* So does the fetch of a frame. *)
LEMMA FetchFrameKeeps == ASSUME LInv, FetchFrame PROVE LInv'
  BY DEF LInv, FetchFrame, world, TypeOK, Remembered, ArmedOrUndone, TicksAreSeen, RunIsKnown, auto

(* What is put off is remembered, and is a row of the submission that follows. *)
LEMMA SolveKeeps == ASSUME LInv, Solve PROVE LInv'
<1> USE DEF LInv, Solve, IsLater, world
<1>1. PICK said \in [Vehicles -> {"none", "plan", "abstain", "later"}] :
        /\ rows' = said
        /\ told' = told \cup {v \in frame : said[v] = "later"}
        /\ gap' = [v \in Vehicles |-> IF v \in frame /\ said[v] = "later" THEN Due(v) ELSE gap[v]]
  OBVIOUS
<1>2. \A v \in Vehicles : Due(v) \in 0..MaxStart
  <2> TAKE v \in Vehicles
  <2>1. start[v] - Within - late \in Int
    BY TimeAssumption DEF TypeOK
  <2> QED BY <2>1, ClipIsInRange DEF Due
<1>3. TypeOK'
  BY <1>1, <1>2 DEF TypeOK
<1>4. Remembered' /\ RunIsKnown' /\ ArmedOrUndone' /\ TicksAreSeen'
  BY <1>1 DEF Remembered, ArmedOrUndone, TicksAreSeen, RunIsKnown, auto
<1> QED BY <1>3, <1>4

(* So does a submission, whatever becomes of it. *)
LEMMA SubmitKeeps == ASSUME LInv, Submit PROVE LInv'
<1> USE DEF LInv, Submit, world
<1>1. TypeOK'
  <2>1. run \in Runs /\ 0 \in 0..MaxStart
    BY TimeAssumption DEF TypeOK, RunIsKnown
  <2> QED BY <2>1, TimeAssumption DEF TypeOK, LastFired
<1>2. Remembered'
  BY DEF Remembered, TypeOK, auto
<1>3. RunIsKnown' /\ ArmedOrUndone' /\ TicksAreSeen'
  BY DEF RunIsKnown, ArmedOrUndone, TicksAreSeen, LastFired
<1> QED BY <1>1, <1>2, <1>3

(* The process ends, or goes on after its wait. *)
LEMMA OthersKeep ==
  ASSUME LInv, Ends \/ (pc' = "check" /\ UNCHANGED <<mind, fire, world>>)
  PROVE  LInv' \/ pc = "submit"
  BY DEF LInv, Ends, mind, fire, world, TypeOK, Remembered, ArmedOrUndone, TicksAreSeen, RunIsKnown, auto

(* So does every other turn of the loop. *)
LEMMA LoopKeeps == ASSUME LInv, Loop \/ Exhausted \/ PollFails PROVE LInv'
<1>1. CASE GivesUp \/ Unresolved \/ ReadEnds \/ Blind \/ SiteRefused \/ RunOver \/ Exhausted
  BY <1>1, OthersKeep DEF GivesUp, Unresolved, ReadEnds, Blind, SiteRefused, RunOver, Exhausted
<1>2. CASE Wakes \/ TimesOut \/ PollFails
  BY <1>2, OthersKeep DEF Wakes, TimesOut, PollFails
<1> QED BY <1>1, <1>2, CheckKeeps, ResolveKeeps, ReadRunKeeps, FetchFrameKeeps, SolveKeeps, SubmitKeeps DEF Loop

(* So it holds of every state the specification reaches. *)
LEMMA LoopInvariant == Spec => []LInv
<1>1. LInv /\ [Next]_vars => LInv'
  <2> SUFFICES ASSUME LInv, [Next]_vars PROVE LInv'
    OBVIOUS
  <2>1. CASE UNCHANGED vars
    BY <2>1 DEF vars, LInv, TypeOK, Remembered, ArmedOrUndone, TicksAreSeen, RunIsKnown, auto
  <2> QED BY <2>1, DepotKeeps, LoopKeeps DEF Next
<1> QED BY <1>1, LoopStarts, PTL DEF Spec

-----------------------------------------------------------------------------
(* AGivenRunsWithheldWasAnswered: what suppress_not_due drops from a frame of the run the loop was *)
(* given is a vehicle it has submitted a row for in that run.                                      *)
THEOREM AGivenRunIsAnsweredFor == Spec => []AGivenRunsWithheldWasAnswered
<1>1. LInv => AGivenRunsWithheldWasAnswered
  BY DEF LInv, Remembered, AGivenRunsWithheldWasAnswered, WithheldWasAnswered
<1> QED BY <1>1, LoopInvariant, PTL

(* MissesNothing: a blind frame is one whose run somebody disarmed, and no wait times out on a tick *)
(* that no frame has shown, whatever runs start, pause, end or change between two statements.       *)
THEOREM NothingIsMissed == Spec => MissesNothing
<1>1. LInv => [Blind => run \in undone]_vars
  BY DEF LInv, RunIsKnown, ArmedOrUndone, Blind, Sees
<1>2. LInv => [TimesOut => ~unread]_vars
  BY DEF LInv, TicksAreSeen, TimesOut
<1> QED BY <1>1, <1>2, LoopInvariant, PTL DEF MissesNothing, BlindOnlyWhenDisarmed, NoTickSleptThrough
=============================================================================
