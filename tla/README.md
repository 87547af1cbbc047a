# OTTO-Q: a TLA+ model of the depot's core

OTTO-Q runs a depot of autonomous vehicles. Production is a PostgreSQL database whose functions *are* the
scheduler (a tick, or **beat**, is one transaction), surrounded by processes that talk to it: proposers that plan
charging with a solver or a language model, a live bridge that makes the twin's chargers speak OCPP to a charger
back end, harnesses that compare policies and sites, and analyses that size, price and learn. This directory models
the parts where several of those actors meet, and the decisions they rest on.

"F" below is `lab/engine/export/2026-11-04/06_functions.sql`, the exported production functions. Paths are
relative to the repository.

## 1. Inventory

| Component | State it keeps | Operations | Meets | Status |
|---|---|---|---|---|
| Run control and row locks (F, migrations 0790, 0791) | the run's row, the proposals' rows, row locks | beat, proposer batch, stop, pause, resume, purge, demo start | each other, through row locks | modelled: `RunLocks`, `RunLedger` |
| First refusal and disposal of proposals (F) | `ottoq_cuopt_defer` rows, pending proposals | refresh, first-refusal arm, roll, hold, decide cursor, A3, dispose | metronome, planners, agent chain | modelled: `FirstRefusal` |
| Stall reservations and bookings (F) | stalls' and vehicles' pointers, timed holds, issued commands | reserve, emit, carry out, reclaim, walk, reroute, contract | world step, operators, decide step | partly: `StallBook` |
| CP-SAT proposer loop (`bridge/proposer_bridge.py`) | armed run, skips, `not_due_until`, last fired tick | check, resolve, arm, read frame, solve, submit, wait | database, certification harness | modelled: `ProposerLoop` |
| Forward proposer (`proposer/`, `bridge/proposer_bridge.py`) | none | frame to scenario, batch, passes, rows, record of the fire | solver, the door | modelled: `DecisionFrame`, `ForwardProposer` |
| CP-SAT charging model (`solvers/cpsat/model.py`) | none | build and solve, rolling re-solve, extraction | forward proposer, harnesses | modelled: `ChargeKernel`, `RollingPlan` |
| Lexicographic chain (`policies/forward.py`) | ceilings and trace of a call | one pass after another | solver | modelled: `ForwardChain` |
| Charger relay (`csms/csms_relay.py`, `charger_bridge.py`, migration 0697) | state file, stations, kept reports | load, flush, pull, deliver, save | HTTP door, back end | modelled: `CsmsRelay`, `ChargerFeed` |
| Charger back end (`csms/csms_server.py`) | connections, stations, transactions, `last_seq_no` | connect, disconnect, OCPP handlers, profile push | stations | modelled: `ChargerBackEnd`, `ChargingStation` |
| Charging stations (`csms/station_sim.py`) | transaction, profile, register | start, meter, stop, accept a profile | back end | modelled: `ChargingStation` |
| Post cell supervisor (`lab/safety`) | plant automata of one post, recorded traces | explore, monitor, replay | recorded traces | modelled: `PostCell`, `PostMonitor`, `PostRecord` |
| Intent, signals and the conductor | none | resolve a regime, propose signals, refuse a forecast | doctrine, solver | modelled: `Signals` |
| Doctrine caches | one cache per process, files | stamp, load verified, forget | editors, other processes | modelled: `Doctrine` |
| Learning from refusals | the batch | classify, flag, learn constraints | proposer | modelled: `Learning` |
| Policy comparison harness | one booking world | policies, booking, metrics, Pareto front, peak bound | - | modelled: `PolicyHarness`, `Comparison` |
| Shared site harness | one site world | policies, failures, a cell's report | solver | modelled: `SiteAlpha` |
| Tariffs, site profiles and storage | none | bill, connect, dispatch storage | sizer, harnesses | modelled: `SiteBilling` |
| Onboarding sizer | none | sweep, recommend, write a profile | site profiles | modelled: `Sizing` |
| Recall decision; wear and degradation | none | recall, cycle; wear of a state of charge | twin | modelled: `Recall`, `Wear` |
| Language-model proposer (`bridge/llm_proposer.py`) | spend file shared by processes | digest, ask, price, rows, submit | model provider, the door | modelled: `LlmProposer` |
| Conformance harness; site adapters; load harness | none, orders' ids, one run's log | schedule and check a pack; translate; probe and time | packs, robots, database | modelled: `Conformance`, `Adapters`, `LoadHarness` |
| Candidate promotion; twin world step; contract schemas; agent gateway; OttoCommand owner; depot v2 door; twin control and public API; charger service | | | | not modelled (section 8) |

`PROJECT.json` lists them all with their sources, what is left out of each, and every hazard at its line.

### What is hard here

* **Interleaving of transactions.** PostgreSQL locks rows, at READ COMMITTED, in an order the code's statements
  fix; a stop, a beat and a batch take the same rows in different orders.
* **Read before, used after.** The proposer loop reads a run, arms it, fetches a frame and submits in four calls;
  the run pauses, ends or changes between any two. A language-model process checks its cap against a file it read at its start.
* **Crash between two writes.** The relay's frames go to one place and its cursor to another; a spend file is truncated before it is written.
* **Two books of one fact.** Who sits in a stall is kept at the stall and at the vehicle; a hold and the command
  it covers run out by clocks of their own.
* **A protection that becomes a starvation.** First refusal holds a car out of a beat to wait for its planner.
* **A step that fails half way and is undone**: the roll of deferrals swallows its own error.
* **A memory that outlives what it is about**: due times of one run applied to the next; a cached doctrine after its file was edited;
  a charging profile after its transaction.
* **Reconnection**: a station is back before its old connection has been noticed to be gone.
* **A claim about an answer.** "Complete", "conforming", "clean", "not contaminated", "least": words a report may only
  use of an answer a bounded solver, a sampled check or a probe could really vouch for.
* **Boundaries in pure code**: midnight, half-open intervals, turnaround, a cap reached exactly, ties.

### What makes each component correct

* Run control: a proposal marked enacted is one the kernel took in a beat that committed; no stop waits for a beat that waits
  for it; every call is as if it took effect at once.
* First refusal: no two consecutive decide beats hold one car; an arming buys one hold; a queueing car is let in again and again.
* Stall book: seats agree on both sides; while a directive to a stall is in force no other car takes it.
* Proposer loop: no frame is read before its run is armed; a vehicle is withheld only after this loop answered for
  it, and is planned again; no tick is slept through.
* Forward proposer: every vehicle of the frame is accounted for once; what a row offers can be taken; what an early pass
  reached is never given up; a record says "complete" only of the best plan; a re-plan moves nothing that began.
* Relay: the back end hears frames in order without gaps; the reports tile the log and are true; no report is lost.
* Back end and stations: a station is commanded on the connection it speaks on; the book is bounded and catches up; no plan outlives its transaction.
* Post cell: the monitor blames exactly who is to blame; the supervisor never traps a car.
* The rest: each answer is what the function promises of it, checked against a reference stated without the function's own shortcuts.

## 2. Modules

| Module | What it is |
|---|---|
| `CsmsRelay` | the relay loop, its stations, the database half of its door |
| `ChargerFeed` | the abstract promise of the relay: at least once, in order, accounted for after being heard, kept before forgotten |
| `CsmsRelayProofs` | proofs about `CsmsRelay`, and that it implements `ChargerFeed` |
| `RunLocks`, `RunLocksProofs` | sessions, row locks, undo; one run, its proposals; its proofs |
| `RunLedger` | the same calls without locks, each at once; `RunLocks` implements it |
| `FirstRefusal`, `FirstRefusalProofs` | the deferral ledger over FIRE and DECIDE beats; its proofs |
| `StallBook` | seats, holds and commands of a yard over the steps of a tick; proved about in `FirstRefusalProofs` |
| `ProposerLoop`, `ProposerLoopProofs` | the loop `run_live`, with the depot moving between any two statements; its proofs |
| `DecisionFrame`, `ForwardProposer` | a frame as a scenario; the batch, the passes, the rows, and the fire around them |
| `ForwardChain`, `ChargeKernel`, `RollingPlan` | the chain of passes; the plans a solve may answer; the re-solve as the clock runs, over the chain's scenario and plan |
| `ForwardProposerProofs` | proofs about these five: what is held is never lost, what is offered can be taken, a re-plan keeps its word |
| `ChargerBackEnd`, `ChargingStation` | the back end's book of one station; one EVSE and the plans pushed to it |
| `ChargerBackEndProofs` | proofs about both, and about the monitor of a post's trace |
| `PostCell`, `PostMonitor`, `PostRecord` | the automata of a post; the monitor and the replay; supervised visits that write traces |
| `Signals`, `Doctrine`, `Learning` | the conductor's decisions, its stamped doctrine, what it learns |
| `PolicyHarness`, `Comparison`, `SiteAlpha`, `SiteBilling`, `Sizing` | policies and what is published of them; a site under failures; its bill and battery; its size |
| `Recall`, `Wear` | the two vehicle decisions |
| `LlmProposer`, `Conformance`, `Adapters`, `LoadHarness` | what stands around the engine |
| `DecisionProofs` | proofs about the doctrine, the dispatch of storage, learning, recall, wear and the sizing of a site, and the language model's spend and rows |
| `ArithmeticTheorems` | what the proofs need of least numbers, finite sums, minima and division |
| `MC*` | the instances TLC checks |

An operator whose comment begins "mutant of", or that a `PROJECT.json` mutant names, is a plausible bug of the definition
below it. No specification uses it; substituted, it must break the property it is listed with, which shows that the property
depends on the code.

### How state and actions correspond to the code

**CsmsRelay.** `disk` is the state file (`{"cursor", "pending_report"}`); `log` and `reports` are the tables;
`pc` says which call of `Relay.round` comes next. Actions: `StartRound` (load), `PostKept`/`Settle`
(`_flush_pending`, before and after the batch, told apart by `closing`), `StartAtHead` (first round), `Pull`,
`PullNothing`, `Connect`, `Boot`, `Say`, `Refuse` (`ChargerBridge.deliver`), `Save`. Each has its failure
(`PostFails`, where the relay may have kept the report although its answer was lost or was a 504; `PullFails`, `BackEndGone`,
`SaveFails`, `SettleFails`) and `Crash` may come anywhere. A `RelayError` keeps the bridge, any other exception
drops it. The in-memory copy of the file is no variable: every assignment to it is followed by a save or ends the round.

**RunLocks.** One `pc` per session: batches, the beat, and the doors. `lock[s]` is the mode a session holds the run's
row in (KEY SHARE, NO KEY UPDATE, UPDATE, with PostgreSQL's conflict table); `held`/`to` is a proposal's row lock
and its uncommitted version. `todo` is what a running UPDATE still has to take, row by row and in any order, since no
statement has an ORDER BY. A wait may end with an error (`Loses`): the deadlock detector or `lock_timeout`; the transaction
is then undone. The bodies are those that 0790 and 0791 install. Residues the repository acknowledges (G440's remainder for a
paused run, G491) are allowed by the properties.

**FirstRefusal.** `ledger[c]` is a car's row: `none`, `armed`, `spent`, `clear`, its `now` says it was spent at
this tick, `count` is `defer_count`. `World`, `Fire` and `Decide` are a metronome's steps; `Decide` is the
order of `ottoq_sim_decide_and_dispatch`: refresh when no FIRE beat is alive, arm, roll (may fail and be undone),
cursor, A3, dispose. Cars do not touch each other here, so TLC takes one; the proofs take any set.

**StallBook.** `step` walks through a tick: the world step (contract holds are refreshed, commands carried out), the operators' turn,
the decide step (reclaim, walk, reroute). `dial` is who carries commands out: the next tick, the same tick, or operators through the
door. `seat` and `at` are the two pointers, `holder` and `left` a stall's reservation and what it has left, `cmds` the
`begin_charge` commands with their age in ticks. Loops over cars take them in any order. `word` is a history: the stall the depot
last told a car while that directive is in force and not carried out.

**ProposerLoop.** `Check` .. `Wakes` are the loop's statements in order; `Depot` is what moves meanwhile. Times are
in ticks and relative to the loop's run (`gap`), so a change of run shifts them. Arming is visible at
once although it commits with the fire's first statement, which allows more behaviours, not fewer. `auto` is `--run auto`.

**ForwardProposer and the solver.** `stage` is where a call is: the frame, the batch, a pass, an answer, a refusal. `ChargeKernel!Plans`
is the set of all plans the constraints of `build_and_solve` admit; `Answers` is what a bounded solve may return: none, any
plan within its ceilings, or with `complete` set one that no admitted plan beats. Each pass of `ForwardChain` may get any of them. `ForwardProposer`
then writes a row per vehicle and `fire()` keeps what is due. `RollingPlan` extends the chain: over the same scenario and plan it solves again at a
later minute with the plan in hand as `previous`, and points going out of service (`clock`, `blocked`).

**ChargerBackEnd and ChargingStation.** One station, a fixed log of its transaction events. `conn` has the state of each connection
as the server sees it; `speaker` is the one the station speaks on, `handlers` the one the server commands. Answering and
breaking are separate: a frame may be handled and its answer lost, and then the relay begins its batch again (`batch` is
the saved cursor). Frames of a broken connection are not handled after a new one is open: back end and relay are one process
over loopback (`csms_service.py`). `ChargingStation` has the EVSE's start, meter and stop as steps with the call each
awaits, calls that time out, and plans on the wire that arrive late.

**PostCell.** The plant and the requirements are automata composed by shared events. `PostRecord` runs two cars through a post under one of four
supervisors and writes the rows a trace has; `PostMonitor` reads them with the code's windows and step.

**The decisions.** In `MCDecisions` and `MCOutside` a question is put in Init and answered in one step, so that a function is an action and its
promise an invariant over the pair. The doctrine caches and the language model's processes have state and run beside the
questions, in modes of their own.

## 3. Runs

Nine runs are expected to pass; three are expected to be violated and carry the findings of section 6.

| Run | Properties | Instance |
|---|---|---|
| `relay` | `IInv`, `NeverSaidAgain`, `SpeaksBooted`, `ImplementsFeed`, `EveryFrameReported` | 2 chargers and a foreign depot, 3 rows, pages of 2, any 2 faults |
| `run_locks` | `EnactedIsTaken`, `StopNeverCrosses`, `ImplementsLedger` | 2 batches, 1 car, 2 beats, every door once, anyone may lose a wait |
| `run_locks_stop_ends` | `StopEnds` | 2 cars per batch, a stop and a pause, only batches lose |
| `run_locks_twin_calls` | `OnlyTheTakenIsEnacted`: **violated** | 2 batches of one source |
| `first_refusal` | `OneHoldPerArming`, `HeldThenLetIn`, `LetInAgain` | one car, cap 1, chain with hand-off |
| | `StallsAreKept` | two cars, two stalls, ticks of 30 minutes, the three dials |
| `first_refusal_broken_reservation` | `EnactedWhenUsed`: **violated** | one car, no hand-off |
| `proposer_loop` | `AGivenRunsWithheldWasAnswered`, `MissesNothing`, `WithheldIsPlannedAgain` | 2 runs, 1 vehicle, clocks apart by -1, 0, 2; `--run auto` and a given run |
| `proposer_loop_auto_memory` | `WithheldWasAnswered`: **violated** | `--run auto` over 2 runs |
| `charger_back_end` | `AddressedWhereItSpeaks`, `BookIsKept` | 7 events of 3 transactions, room for 2, 4 connections |
| | `StationHonoursThePlan` | 2 cars on one EVSE, rating 3, time to 3, one plan on the wire |
| `post_cell` | `MonitorIsRight`, `SupervisionIsSound` | 2 cars, 4 supervisors, repairs of 2 and 5, ticks to 6 |
| `forward_proposer` | `EveryVehicleIsAccounted`, `OfferedIsTakeable`, `NothingHeldIsLost`, `CompleteIsBest` | frames of up to 3 stalls and 3 vehicles, 3 regimes, horizon 5 |
| | `RePlanKeepsItsWord` | a yard of 4 points, 2 cars, horizon 6, clock to 2 |
| `decisions` | the fourteen below | a grid of questions per function |

Three runs hold two parts that do not interact, told apart by a variable (`part`, `stage`, `scene`); a behaviour is of one of them.

What the properties of `decisions` say:

* `ConductorPlansWhatFired`: a regime that asks for signals is in force only when all were raised, every hour has a regime, and declared floors come first in each.
* `CorruptionNeverHides`: an unreadable quantity refuses a forecast exactly when a signal depends on it.
* `LearningKeepsTheSiteUp`: what refusals take from the next solve was earned, and is never more than its share of the site.
* `SolvesOnStampedDoctrine`: no call is answered with a doctrine, its version included, that nobody stamped.
* `ComparisonIsHonest`: what is published of a policy is of a booking that could be carried out, and of a bound that holds for it.
* `EveryAnswerBooks`: on the shared site, no policy and no admitted answer of the solver trips the world's assertions under any failure.
* `BillAddsUp`: a bill is its fixed charge, each minute of the curve once at the rate in force, and the demand charges in force, tier by tier, none on more than the day's or the past's peak.
* `DispatchIsLeast`: the storage ceiling is one the battery holds, losses included, and no whole kW above the least.
* `SizedSiteDelivers`: the recommended site carries its fleet hour by hour, battery and recharge included, and no connection that could is cheaper, nor as cheap and smaller; the profile's connection is its rounding.
* `WorseOffIsNeverSpared`: neither a recall nor a wear report is kinder to the vehicle that is worse off, and a recall decided is recorded once, as issued or refused.
* `SpendIsCapped`: a run's calls cost at most the cap and one more call, but for what no file heard of.
* `ConformingPackIsFeasible`: a schedule the harness calls conforming holds in every minute by what the pack says.
* `OutsideIsReadFaithfully`: whatever a language model answers, a car goes only to a stall of the digest, once, and each car has its row unless an id that is a list or an object raises; an order reaches its robot, the same work is the same order, a settled record comes back as it was.
* `LoadResultIsOneRun`: a result's latencies and percentiles are its own run's, and its verdict on contamination is one its probes support.

### Bounds, and why they are enough

* `MaxFaults = 2`: the cases that need more than one fault are a lost answer and then a crash, or a broken batch and then a
  failed save. `MaxSeq = 3` with pages of two gives a full page, a part page and a page after a restart. The theorems have no bound.
* Two batches suffice for every pair of submitters to overlap each other and a beat; one car suffices for the
  ledger since A3 and the supersede statement work car by car, two cars are used where lock order matters (`StopEnds`).
  `MaxTicks = 2` lets a proposal be left by one beat and taken by the next; each door is called once.
* Counts in `FirstRefusal` saturate just past `Cap` (and held beats past two): no guard or property tells higher ones apart.
* `StallBook` counts ten minutes as one; `Tick = 3` puts a decide hold (10 minutes) inside a tick, a contract hold (50) and a
  reroute hold (60) between one and two, and a command's life at two. Two cars on two stalls let each be in the other's way. The theorems have no bound.
* `Shifts`, `MaxStart` and `Within` cover a due time ahead of, at and behind the clock; a change of run moves it either way.
* Three transactions in a book of two are the least that let one go and come back; four connections let a handler be late for two others.
* `MaxNow = 3`, `MaxWire = 1` let a plan for the first car arrive during its charge, while its end is being told, and during the second's.
* Two cars on a post let one overstay into the other's visit; repairs of 2 and 5 against ticks of 2 end between, at and after a tick.
* Horizon 5 with charges of one to three units lets rows follow each other on a stall with a cooldown, be due, be late and not fit. A call
  has slack 1 or none, so that a ceiling of a pass binds or is one looser. The re-plan's clock of 2 is before, at and after the start of planned work.
* The grids of `decisions` put each threshold below, at and above its value, hours at both ends of a window that crosses midnight and of one
  that does not, every failure a scenario names, answers of up to three entries for four vehicles, in which either id may be a list or an object, packs with and without a move, up to three
  edits between loads and four processes of which two overlap. `Cap = 3` with calls of up to 2 is reached exactly and overshot.
  With `PerKw = 2` a sized connection can be half a kW, where rounding goes to the even one.

### Deadlock

TLC's deadlock check is off where the system, or the part observed, really stops: in `run_locks*` (the run is over, every door used), `charger_back_end`
(the log said, the connections used), `post_cell` (the trace ends), `forward_proposer` (the rows are written) and `decisions` (answered).
It is on in `relay`, `first_refusal*` and `proposer_loop*`.

## 4. Fairness

* `CsmsRelay`: weak fairness of the loop's own steps: `Relay.run` never returns, and faults are bounded.
* `RunLocks`: each session is scheduled, and a wait of a session that may lose it ends (deadlock detector, `lock_timeout`).
* `FirstRefusal`: the metronome beats (weak fairness of its steps), and not every decide step raises (strong fairness of `Decide`).
* `ProposerLoop`: the process runs; a running run ticks. Running out of submission retries and failing polls are not fair: they need not happen.

`StallBook`, `ChargingStation`, `PostRecord`, `ForwardProposer` and the decisions are checked for safety only and assume no fairness.

## 5. What is proved

TLAPS checks these for every value of the constants that satisfies the named assumptions.

**CsmsRelayProofs.** Assumptions `SizesAssumption`, `ForeignAssumption`. The properties alone are not inductive: that a
report is true after `Save` depends on what the pass has done, and that depends on where the round is. `IInv` adds where the cursor may be
(`CursorOK`), what each phase may assume (`PhaseOK`) and what the pass in progress has said (`PassOK`). `RelayInvariant` is that invariant; from it
`FramesAreHeardInOrder`, `NoFrameIsSkipped`, `ReportsTileTheLog`, `ReportsTellTheTruth`, and the action properties
`SavedFramesAreNeverSaidAgain`, `OwedReportsAreKept`, `ChargersSpeakBooted` (with a second small invariant on which
station is being booted). `RelayImplementsFeed` maps every step to a `ChargerFeed` step or a stutter.

**FirstRefusalProofs.** Assumptions `CapAssumption`, `DialAssumption`. `IInv` says what the histories remember of the ledger: no row is spent
at the tick whose decide beat is to come, an armed row has held no beat yet, a car held by the last decide beat has a spent row. From it
`RefusalTypes`, `AnArmingBuysOneHold`, `AHoldIsNeverRepeated`. `HeldAtMostCapTimes` proves the dial's bound where it does hold, with
the chain on and no hand-off, from a count: held beats never outnumber the armings counted, and are fewer while a row is armed.

**FirstRefusalProofs, second half (StallBook).** Assumptions `TickAssumption`, `NobodyAssumption`. That nobody takes the stall of a directive is not inductive by itself: a walk
may take any stall whose hold is over. `BInv` says why it never is: a directive in force is an issued command, its stall is empty, the hold there
is the car's own, and for each command to that stall it lasts at least as long as the command does. Emission, the world step's refresh, the same-tick dial, the reroute
and the operators' door each keep it (one lemma per action). From it `NoWalkFindsItsStallTaken`.

**ChargerBackEndProofs.** `AddressedOnTheNewest` needs only that the station's connection is open and is the handled one. `TheBookCatchesUp` needs a
strengthening: when a batch begins again the book tells old news for a while, and what is never lost is *which* news is old. A transaction of
which no frame is still to be said again is told of by its last one (`OldNewsIsSaidAgain`). Of the station
(`StationAssumption`), `TheStationHonoursThePlan`: unless a call failed, the plan in force is of the transaction on the EVSE or of the one whose end is being told, and whatever
the register has still to add since it was last read is what the limits in force allowed (`RegisterIsDue`).

**ChargerBackEndProofs, last part (PostRecord).** Assumption `PostAssumption`: the demate window, the tick and the repairs are positive, and a run ends before
the instant that stands for "never". `TheMonitorBlamesTheRightCars` is `MonitorIsRight` for any supervisors, any number of cars, and any window, tick and repairs. The monitor
sees rows only, so the invariant (`RunForm`; `VisitsForm` while the run goes on) says what the rows still tell of the post:

* `CellForm`: where charger, charge arm, tether and car can be together, from what each automaton does with an event (`ChargerTakes` .. `CarTakes`). It is why a car demates or is let go once.
* `RowsForm`: rows are of this run's past, and those of one instant are in the order the extraction sorts them by. The engine may not mate a car and fault it in the wrong order within a tick.
* `FaultsForm`: a post is out of service exactly by a fault that no tick has yet met the end of; that fault is unique while it lasts. From it `MatesForm`: a mate is on a dead charger
  exactly if the trace holds a fault before it that is not over at the mate's instant, which is what `FirstAtOrAfter` computes.
* `StaysForm`: each faulted visit is at one of five stages (`Plugged`, `Unplugging`, `Staying`, `WentAfter`, `LetGo`), and each stage says which rows it has written, at which instants,
  and that the car has overstayed exactly if a tick lies between its demate's end and now (or its departure) before the fault was over.

At the end every stage gives what the monitor reads from the rows of that car. A stage gives the instant of *every* row of a kind, so whichever row the monitor's search finds first, the proof knows its instant.

**RunLocksProofs.** Assumptions `BatchesAssumption`, `CarsAssumption`. Three layers, each inductive with the ones below. `LockInv`: where each
session may be, the modes it holds the run's row in, and that no two held modes conflict. `RowInv`: a session that holds a proposal's row found it pending
(a purge: found it there) and has written its own outcome; a batch's rows are its own or older ones of a car it writes; a deleted run has no rows.
`TookInv`: while the beat has the row FOR UPDATE nobody else commits, so what the kernel took stays pending until the beat marks it, and what the
beat marks enacted is what it took. From the first two `TheStopNeverCrosses`; from all three `WhatIsEnactedWasTaken`, and `RunsImplementTheLedger`, where each
commit is one `RunLedger` call and every other step a stutter. The third layer assumes `OwnSources`, one batch for each source: without it the
two results are false, as `run_locks_twin_calls` shows.

**ProposerLoopProofs.** Assumptions `RunAssumption`, `TimeAssumption`. The invariant says what the loop's variables remember of the run they are about: what it withholds it has
answered, but for the rows it is about to submit; an armed run carries its facts or was undone by somebody; a tick that no frame has shown is one the wait will notice.
From it `AGivenRunIsAnsweredFor` and the action property `NothingIsMissed`. With `--run auto` the first is false, as `proposer_loop_auto_memory` shows.

**ForwardProposerProofs.** The theorems are about `GivenSpec`: any frame, class table and options with which a call may begin (`IsGivenFrame`, `IsGivenTable`,
`IsGivenOptions`: ids are unique and ordered, numbers are numbers, the batch's limit is a number or none, a regime begins with the pass on tardiness and repeats none), or any scenario to roll a plan over, of any
number of stalls, vehicles and passes. `RunIsGiven` shows that every behaviour the run checks begins so, and each theorem is then stated for the run's `Spec` too.
The search is whatever `Answers` admits; of an answer only this is used, that its plan meets the model's constraints and the call's ceilings, and of one proven optimal that no such plan costs less.

* `NothingIsGivenUp`. That a ceiling is never exceeded is not inductive alone: `ChainInv` adds that the plan in hand is a plan of the model, that there is one figure for each pass
  run, each a number or `Retained`, and that the floor is part of what the plan serves. The delicate pass is the slower flow plan whose predecessor ships.
* `OffersCanBeTaken`. A scenario is drawn from its frame (`ScenarioIsDrawn`): each point is a free stall with that stall's kW and cooldown, each class is what *its* vehicle can draw, although it
  was made for the first vehicle of its name. A charge of a plan is at a candidate of its asset, so it fits, and two of them at a point are apart; `RowsInv` carries that from the plan to the rows.
* `EveryoneIsAnswered`. While the chain runs, the rows name once each vehicle that waits and is not in the batch, and the batch is part of those who wait (`AccountInv`); when it ships, they name once each that
  waits. A full batch is as long as the caller's limit, because a strict order over a finite set has a first of any number (`BatchIsFull`); the counts follow from counting by name and by kind.
* `ACompleteRecordIsTheBest`. An optimal answer is least in a price, the pass's figure and a charge on each vehicle declined, among the plans of *its* call, which carries a plan over and holds whom it serves;
  the claim is about the figures, among the plans of another call. A call at minute 0 pins nothing, so a plan of one such call is a plan of any wider one (`PlansOfAWiderCall`). `BestInv` then says, of a chain whose
  passes are all proven, that a plan that serves whom the chain holds and is within the ceilings before the i-th costs the i-th pass no less than the plan in hand, and that no such plan declines more; the second
  half carries the first over the pass that trades figures for rejections, because a rejection costs more than the whole site's power (`PassDeclinesNoMore`). No unproven pass leaves anything to keep.
* `WordIsKept`. Whatever the call, work that is pinned is where it was, work that is not goes to a point in service, and what has begun is pinned (`PlanMadeAgain`).

**DecisionProofs.** Assumptions `NoFileAssumption`, `AdvisorAssumption`, `MarksAssumption` (null is not a list), `PartsAssumption` (a kW has parts), `BillingAssumption` (a day and a kilowatt have parts; the mark for "none" is no number, battery or name of a window), `GridAssumption` (the day holds the grid's windows, whose names are not that mark either, and the kernel's
  objectives are among the names), `KeyAssumption` (the names are in an order, each once),
  `QuantityAssumption` (the marks for what cannot be read are no numbers, and the mark for what is absent is no section of a forecast; `GridAssumption` has it be no run's name).

* `AlwaysStampedDoctrine`: whatever a process caches was verified against a stamp when it was loaded, and stamps are never withdrawn.
* `TheDispatchIsLeast`, `LearningIsEarned`, `NoneIsSpared`, `SizedSitesDeliver`, `BillsAddUp`, `TheConductorPlansWhatFired`, `CorruptionIsHeard`: the promise of each function for every question it can be asked, within the limits named below. `DecisionsAreKept` makes them invariants, by showing that the run's questions
  are such questions. The halving search is proved to find the least ceiling because holding is monotone and the interval ends; the recursion over the load curve and over the halving interval is followed to its least counterexample.
  A site is sized by its bill, so the last one needs that a bill is a number: a peak is the greatest of finitely many readings, a price a sum of rungs (`PriceIsNatural`, `DemandIsNatural`). Then the cheapest,
  smallest candidate exists (`CheapestExists`), and a feasible one is what its fleet needs: each ceiling of a division is enough (`CeilIsEnough`, `StorageIsEnough`, `UnitsHoldTheStorage`).
* `BillsAddUp` is about every curve and day under the four tariffs of the grid. A sum window by window is the sum minute by minute (`SumByParts`, `EnergyAddsUp`), since the windows share the day out (`GridWindows`) and each minute
  has one rate (`MinuteRateIs`). A price is a rate for each unit (`PriceIsUnitByUnit`), which needs a ladder that rises (`IsRising`) and is proved by one more unit at a time (`PriceRises`). A reading is an average,
  so no more than the highest load (`ReadingIsBelowThePeak`), and a floor is a part of a past peak.
* `TheConductorPlansWhatFired` is about every artifact that has a default regime and names each regime once. A filtered sequence is read by its places (`SublistIs`): what is kept keeps its order (`SublistPicks`, by the rank of
  a place), and a sequence whose repeats are dropped still begins with what did not repeat (`DedupeIs`). So the declared floors, which are put first, stay first (`FloorsAre`, `ActiveIs`) and plan first (`ReadinessFirst`);
  the regime that leads is the first of its kind that matches (`ResolvedIs`).
* `CorruptionIsHeard` is about forecasts shaped as the run's: three hours, of which the first has any arrivals and any baseline but zero and the first two any load, read with windows of one or two hours, at any hour of the day, under
  any multiplier and legal or illegal overrides of all but the peak's fraction, for a target of 100 or none. An hour's entry is the one that is there (`EntryIs`), so a
  window's sum and its peak are those of its places (`SurgeOf`, `PeakOf`), past midnight too (`ThreeHours`); a spoiled quantity is at one place (`SpoiledIs`), which is read exactly when its hour is in the window (`ReadByPlace`).
  That a call the kernel's artifact answers plans at all is what the theorem above says of its floors (`KernelPlans`). A longer forecast, or a wider window, is not claimed.
* `TheSpendIsCapped`: what was billed to a run is what its file says, and what some process has in memory, and what no file heard of (`CapInv`); a process asks only below the cap. A call that cost nothing is not counted among the unheard.
* `RowsStayWithinTheDigest`: for every answer to every digest. The call raises, and leaves no row, exactly when an entry has an unhashable id that is looked up: as a vehicle's in any entry, as a stall's in the entry heard for a vehicle
  unless it abstains (`RaisesForWantOfAKey`). Any other answer leaves one row per vehicle, and a planned one is of an entry heard for it (`RowOf`).

**How recursion and sums are proved.** An induction theorem that takes a predicate as a parameter cannot be used, so a claim about every length is proved by taking the least one that fails
(`LeastNumber`) and stepping back from it. A sum or a fold of the community modules is a chosen recursive function; `ArithmeticTheorems` proves once that the choice exists and what it returns on a finite set.

**Only model-checked.** Liveness under fairness (`EveryFrameReported`, `StopEnds`, `LetInAgain`, `WithheldIsPlannedAgain`): the prover does not do it, nor
ENABLED. The
replay of traces and the reachability behind the supervisors (`SupervisionIsSound`), whose set of states is a fixpoint that is explored recursively; and those decisions whose code filters or sorts sequences or folds with an operator as argument (`ComparisonIsHonest`,
`EveryAnswerBooks`, `ConformingPackIsFeasible`, `OutsideIsReadFaithfully`, `LoadResultIsOneRun`): checked against a reference by enumeration.

## 6. Findings and observations

Each finding is a run that TLC finds violated; `PROJECT.json` quotes the lines.

* `run_locks_twin_calls`: A3 matches by source, so the row of an overlapping call of the same proposer is marked enacted too.
* `first_refusal_broken_reservation`: the source of an answer that is used is overwritten with `reservation_broken`, and its row is marked superseded.
* `proposer_loop_auto_memory`: due times are not cleared when `--run auto` moves to another run.

Noticed while modelling. The models allow these; the properties are stated so that they say what does hold.

*Relay, back end, stations.* Frames are said before the cursor is saved, so a crash between the two repeats them (`csms/csms_relay.py:12-15` says a crash never
re-delivers). `on_transaction_event` sets a new transaction's `last_seq_no` and then filters it away when the book is full (`csms_server.py:132-135`), so one repeated
seqNo is not warned of. At a station: a failed Ended call leaves the old profile for the next transaction; the meter applies a limit retroactively to its whole interval; a profile that names no
transaction, sent during one, is accepted for the next; a failed event call re-uses its seqNo. `TwinStation` handles no SetChargingProfile.

*First refusal.* `ottoq_cuopt_refresh` (F:16916) arms without looking at `defer_count`, so `cuopt_first_refusal_max_defers` bounds the holds only on the chain's path
(migration 0338:25 says it does). `ottoq_cuopt_defer_hold` releases on an abstention, for which `ottoq_cuopt_first_refusal_arm` arms.

*Stalls.* A car towed or staged for departure with a command under way passes the walk's state check and is seated, charging. A reroute refused at the gate leaves its
hour's hold. Under the operators' door the no-show sweep (F:43120-43150) may release a staged car's booking, and the reclaim then its hold, while its directive is in force.
A second, refused emission for one stall releases the hold of an earlier directive still in force (0493's path). Commands named `stage` without a new state seat a car in the stall's
row and leave the vehicle's alone.

*Proposer loop and forward proposer.* `suppress_not_due` never shows the solver a vehicle whose plan might have moved earlier, which the docstring at
`bridge/proposer_bridge.py:462` expects to overwrite its entry. `except RuntimeError` in the forward proposer (406-414) also swallows `ChainError`. Two rows on one stall can both be due when
the start window is longer than a charge. A charging curve sampled to the last minute drops charges that run past it. A re-plan may move an inspection that has begun (`model.py:320-322`).

*Post cell.* The replay ignores repairs within a visit and an arm that is withdrawing (`blurred` visits are excluded for that); `replay_post` calls `mon.ts(None)` when an undecidable fault is followed by another arrival.

*Comparison, sites, bills.* `headroom()` (`cost.py`) calls its figure an understatement; a gap to a lower bound overstates. In both as-is policies the preference for DC chargers is dead code. A point blocked for the
whole horizon, if the only one, books at the horizon. Path closures out of order would trip the booking assertion. `bill()` (`tariff.py:282`) prices one day's energy whatever the days, while `tariff.py:67` says the
representative day is repeated for the month. `to_site_profile` sizes storage units by energy only,
and rounds the connection to whole kW (`onboarding/sizer.py:399`), which may be up to half a kW less than the fleet was sized with.

*Recall.* The docstring of `recall/recall_decision.py:41-44` says that every `decide()` emits exactly one record and that "No decision is silent" (so does the heading at 121). The code emits nothing for an asset that stays deployed, as
`recall/RECALL.md:56-60` and `test_recall.py:90` say; `WorseOffIsNeverSpared` claims a record of recalls only.

*Learning.* A refusal of the live world that names no entity never adds up to a flag.

*Language model.* A "hard dollar ceiling per run" is overshot by the last call; without a spend file there is no ceiling across processes; overlapping processes lose each other's spend; a torn file forgets every
run's; an explicit `--run` is not checked for a certification arm.
An id that is a list or an object is looked up in a dict (`bridge/llm_proposer.py:235`, `:255`) and raises a `TypeError` out of `fire_llm`, after the money is in the ledger: no row and no record, though the docstrings say
"One row per digest vehicle, always" (`:221`) and "never raises for a bad answer" (`:451`). The NVIDIA route asks for a JSON object and enforces no schema, so such an answer can arrive.

*Conformance, adapters, load.* `schedule()` takes the first capable point although its docstring says earliest fit. After a move only one session is checked again, so the harness itself makes overlaps and calls the pack failing
(`conformance/harness.py:20-22` says otherwise); the turnaround between sessions is never verified. A re-planned intent at another point with the same `not_before` has the same order id; a manufacturer with "/" in its name is
split wrongly; `__init_subclass__` sees only a class's own members; a null in a text field becomes "None". A load pair that comes and goes between two probes is missed, though the docstring says an overlap marks the result.

## 7. Plan

1. Candidate promotion (`ottoq_promote_proposal_candidates`) with its budgets, feeding `FirstRefusal`'s pending rows; then the calendar of bookings and the no-show sweep in `StallBook`.
2. Two writers of charger frames whose commits cross, with `CsmsRelay`'s cursor: a listed hazard without a property. (The other is the purge of a run that runs again, G491, which the repository records as open and the abstract ledger admits.)
3. Proofs of the hour-by-hour forecast of any length, and of the decisions listed as only model-checked.
4. The agent's charge order and the arbiter; rotation of signing keys.

## 8. Not modelled, and why

* **Candidate promotion, agent gateway, signing keys**: stateful, and next in the plan. **Twin world step**: arithmetic over a world of tables; the models that need it take any
  step. **Contract schemas**: validation of messages. **OttoCommand owner**, **twin control and public API**: front ends whose calls are the operations
  modelled elsewhere. **Charger service**: wires back end and relay into one process, an assumption of both models.
* In `RunLocks`: fault doors (one lock each), the kernel's own proposers inside a beat, promotion inside disposal, the metronome's forced stop,
  other runs of the depot, one of the purged tables and one purge retry.
* In `FirstRefusal`: the rank protection dial, which stall is chosen, the price of an upgrade; the callers of the decide step that do not hold the run's lock.
* In `StallBook`: the calendar of bookings, chargers, bays and staging stalls are choices of the world; the no-show sweep and `ottoq_honour_reservation_proposal` are left out.
* In `ProposerLoop`: the site descriptor's figures, the fire's record, the offline mode, and `--no-arm`, `--allow-blind-frame`, `--no-follow-ticks`. That the site is read after the frame is kept (`SiteRefused`).
* In `ChargeKernel`: the search, the seeded generator, hashes. Pinned work's point is always a candidate; powers are whole kW. In `ForwardProposer`: wording, kilowatt-hours, hashes.
* In `SiteBilling`: rounding to cents (rates are scaled integers); `DispatchCeiling` halves to 1 kW, the code to 0.1 kW; a curve of the grid is filled to whole kW. In `Wear`: the Arrhenius factor is any increasing one.
* In `ChargerBackEnd`: boot, heartbeat, status, authorize and meter handlers keep no state two events can disagree on. In `ChargingStation`: one EVSE; an EVSE shares nothing with another.
* In `LlmProposer`, `Conformance`, `Adapters`, `LoadHarness`: HTTP requests, file reading, `pgbench`, redaction. The mining and vertiport adapters refuse every call.
* The order in which two writers of charger frames commit: `message_seq` is drawn at insert. The log of `CsmsRelay` grows at its end.
