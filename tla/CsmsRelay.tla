------------------------------ MODULE CsmsRelay ------------------------------
(***************************************************************************)
(* The live charger bridge: csms/csms_relay.py (the relay loop),            *)
(* csms/charger_bridge.py (the stations it speaks through) and the database *)
(* half of its door, migration 0697 (ottoq_csms_pull, ottoq_csms_report).   *)
(*                                                                          *)
(* A round loads the state file, posts the report it still owes, reads a    *)
(* page of the twin's charger frames after its cursor, has each charger say *)
(* its frames to the back end in order, writes the new cursor and the       *)
(* batch's report to the state file, posts the report and clears it.        *)
(* Between any two of these the process may die, the relay or the back end  *)
(* may be unreachable, an answer may be lost, and the file may not be       *)
(* written.                                                                 *)
(*                                                                          *)
(* The in-memory copy `st' of the state file is not a variable: every       *)
(* assignment to it is followed by state.save(st), or ends the round.       *)
(***************************************************************************)
EXTENDS Integers, Sequences, FiniteSets

CONSTANTS
  Stations,   \* the depot's chargers (ottoq_ocpp_chargers)
  Foreign,    \* marks a row of another depot: it takes a message_seq, no pull returns it
  MaxSeq,     \* bound: rows the twin and the other depots ever write
  Limit,      \* --limit: frames per page
  MaxFaults   \* bound: crashes, lost calls and failed writes

ASSUME SizesAssumption == MaxSeq \in Nat /\ Limit \in Nat \ {0} /\ MaxFaults \in Nat
ASSUME ForeignAssumption == Foreign \notin Stations

NoCursor == -1
Seqs == 1..MaxSeq
Outcomes == {"accepted", "not_2_0_1", "csms_error"}
Row == [station : Stations, v201 : BOOLEAN] \cup {[station |-> Foreign, v201 |-> TRUE]}

VARIABLES
  log,       \* ottoq_ocpp_messages in message_seq order
  reports,   \* ottoq_csms_reports: the reports kept, in report_id order
  disk,      \* the state file: cursor, and the report not yet kept (<<>> or <<r>>)
  pc,        \* where the round is
  closing,   \* the post in progress is the round's last call, not its first
  bridged,   \* self.bridge is not None
  stations,  \* bridge.stations: absent, opened (connected), booted
  batchTo,   \* page["next_after"]
  pos,       \* the last message_seq this pass has dealt with
  outs,      \* the outcome of each frame of this pass
  hears,     \* history: how often the back end heard each frame
  origin,    \* history: the head the first round started at
  faults     \* faults so far

round  == <<pc, closing, batchTo, pos, outs>>
bridge == <<bridged, stations>>
vars == <<log, reports, disk, round, bridge, hears, origin, faults>>

Report == [from : Nat, to : Nat, outs : [Seqs -> Outcomes \cup {"unsaid"}]]

TypeOK ==
  /\ log \in Seq(Row) /\ Len(log) <= MaxSeq
  /\ reports \in Seq(Report)
  /\ disk \in [cursor : Nat \cup {NoCursor}, pending : Seq(Report)] /\ Len(disk.pending) <= 1
  /\ pc \in {"idle", "post", "settle", "pull", "deliver", "boot"}
  /\ closing \in BOOLEAN /\ bridged \in BOOLEAN
  /\ stations \in [Stations -> {"absent", "opened", "booted"}]
  /\ batchTo \in Nat /\ pos \in Nat
  /\ outs \in [Seqs -> Outcomes \cup {"unsaid"}]
  /\ hears \in [Seqs -> Nat]
  /\ origin \in Nat \cup {NoCursor} /\ faults \in Nat

-----------------------------------------------------------------------------
(* mutant of TwinRows: the cursor's own frame is read again *)
TwinRowsFromCursor(lo, hi) ==
  {s \in Seqs : lo <= s /\ s <= hi /\ s <= Len(log) /\ log[s].station # Foreign}

(* The twin's frames with lo < message_seq <= hi, as ottoq_csms_pull selects them. *)
TwinRows(lo, hi) == {s \in Seqs : lo < s /\ s <= hi /\ s <= Len(log) /\ log[s].station # Foreign}

(* Those a station can say: the others fail the 2.0.1 schema before they leave it. *)
Sayable(lo, hi) == {s \in TwinRows(lo, hi) : log[s].v201}

(* hi ends the page after lo: it is a frame, the page is full or holds all there is. *)
EndsPage(lo, hi) ==
  /\ hi \in TwinRows(lo, Len(log))
  /\ \/ Cardinality(TwinRows(lo, hi)) = Limit
     \/ Cardinality(TwinRows(lo, hi)) < Limit /\ TwinRows(hi, Len(log)) = {}

(* The frames of the batch in message_seq order: s is the next to deliver. *)
IsNextFrame(s) == s \in TwinRows(pos, batchTo) /\ TwinRows(pos, s - 1) = {}

BatchReport == [from |-> disk.cursor + 1, to |-> batchTo, outs |-> outs]

NoStations == [x \in Stations |-> "absent"]
Unsaid == [s \in Seqs |-> "unsaid"]

Init ==
  /\ log = <<>> /\ reports = <<>>
  /\ disk = [cursor |-> NoCursor, pending |-> <<>>]
  /\ pc = "idle" /\ closing = FALSE
  /\ bridged = FALSE /\ stations = NoStations
  /\ batchTo = 0 /\ pos = 0 /\ outs = Unsaid
  /\ hears = [s \in Seqs |-> 0] /\ origin = NoCursor /\ faults = 0

-----------------------------------------------------------------------------
(* How a round ends when a call raises (Relay.run). *)
Fault == faults < MaxFaults /\ faults' = faults + 1
NoFault == UNCHANGED faults

EndRound == pc' = "idle" /\ UNCHANGED <<closing, batchTo, pos, outs>>

(* except RelayError: the relay answered, with an error; the stations stay connected *)
EndsRefused == EndRound /\ UNCHANGED bridge

(* mutant of EndsBroken: the bridge outlives the failure *)
EndsKeepingBridge == EndRound /\ UNCHANGED bridge

(* except Exception: the bridge is closed and dropped *)
EndsBroken == EndRound /\ bridged' = FALSE /\ stations' = NoStations

GoTo(l) == pc' = l /\ UNCHANGED <<batchTo, pos, outs>>

-----------------------------------------------------------------------------
(* The twin, and other depots, write rows; one writer at a time commits. *)
Write(r) ==
  /\ Len(log) < MaxSeq
  /\ log' = Append(log, r)
  /\ UNCHANGED <<reports, disk, round, bridge, hears, origin, faults>>

(* st = self.state.load(); if st.get("pending_report"): ... *)
StartRound ==
  /\ pc = "idle"
  /\ closing' = FALSE
  /\ GoTo(IF disk.pending # <<>> THEN "post" ELSE "pull")
  /\ NoFault /\ UNCHANGED <<log, reports, disk, bridge, hears, origin>>

(* POST /report, kept: ottoq_csms_report inserts a row whether or not it has it already *)
PostKept ==
  /\ pc = "post"
  /\ reports' = Append(reports, disk.pending[1])
  /\ GoTo("settle") /\ UNCHANGED closing
  /\ NoFault /\ UNCHANGED <<log, disk, bridge, hears, origin>>

(* mutant of PostFails: the report is forgotten although nobody kept it *)
PostFailsForgetting ==
  /\ pc = "post" /\ Fault
  /\ EndsRefused
  /\ disk' = [disk EXCEPT !.pending = <<>>]
  /\ UNCHANGED <<log, reports, hears, origin>>

(* POST /report: the relay refuses it, or is not reached, or its answer is lost; it answers
   504 when the database did not answer in time, which may have kept the report *)
PostFails ==
  /\ pc = "post" /\ Fault
  /\ EndsRefused \/ EndsBroken
  /\ reports' \in {reports, Append(reports, disk.pending[1])}
  /\ UNCHANGED <<log, disk, hears, origin>>

(* st["pending_report"] = None, saved; the round goes on or is over *)
Settle ==
  /\ pc = "settle"
  /\ disk' = [disk EXCEPT !.pending = <<>>]
  /\ GoTo(IF closing THEN "idle" ELSE "pull") /\ UNCHANGED closing
  /\ NoFault /\ UNCHANGED <<log, reports, bridge, hears, origin>>

(* the state file cannot be written: os.replace leaves the old one whole *)
SettleFails ==
  /\ pc = "settle" /\ Fault /\ EndsBroken
  /\ UNCHANGED <<log, reports, disk, hears, origin>>

(* GET /frames with no cursor: a new bridge, and the head becomes the cursor *)
StartAtHead ==
  /\ pc = "pull" /\ disk.cursor = NoCursor
  /\ disk' = [disk EXCEPT !.cursor = Len(log)] /\ origin' = Len(log)
  /\ bridged' = TRUE /\ stations' = NoStations
  /\ EndRound
  /\ NoFault /\ UNCHANGED <<log, reports, hears>>

(* if self.bridge is None: self.bridge = ChargerBridge(...) *)
EnsureBridge ==
  /\ bridged' = TRUE
  /\ stations' = IF bridged THEN stations ELSE NoStations

(* GET /frames?after=cursor: a page to deliver *)
Pull ==
  /\ pc = "pull" /\ disk.cursor # NoCursor
  /\ \E hi \in Seqs : EndsPage(disk.cursor, hi) /\ batchTo' = hi
  /\ pos' = disk.cursor /\ outs' = Unsaid
  /\ pc' = "deliver" /\ UNCHANGED closing
  /\ EnsureBridge
  /\ NoFault /\ UNCHANGED <<log, reports, disk, hears, origin>>

(* mutant of PullNothing: a page that is not full is left for later *)
PullNothingYet ==
  /\ pc = "pull" /\ disk.cursor # NoCursor
  /\ Cardinality(TwinRows(disk.cursor, Len(log))) < Limit
  /\ EnsureBridge /\ EndRound
  /\ NoFault /\ UNCHANGED <<log, reports, disk, hears, origin>>

(* if not frames: return *)
PullNothing ==
  /\ pc = "pull" /\ disk.cursor # NoCursor
  /\ TwinRows(disk.cursor, Len(log)) = {}
  /\ EnsureBridge /\ EndRound
  /\ NoFault /\ UNCHANGED <<log, reports, disk, hears, origin>>

PullFails ==
  /\ pc = "pull" /\ Fault
  /\ EndsRefused \/ EndsBroken
  /\ UNCHANGED <<log, reports, disk, hears, origin>>

-----------------------------------------------------------------------------
(* ChargerBridge.deliver: one frame after the other, each by its own station *)

(* _station: connect, and keep the station before it has booted *)
Connect ==
  /\ pc = "deliver"
  /\ \E s \in Seqs : /\ IsNextFrame(s) /\ stations[log[s].station] = "absent"
                     /\ stations' = [stations EXCEPT ![log[s].station] = "opened"]
  /\ GoTo("boot")
  /\ UNCHANGED <<closing, bridged>>
  /\ NoFault /\ UNCHANGED <<log, reports, disk, hears, origin>>

(* await st.boot(...) *)
Boot ==
  /\ pc = "boot"
  /\ \E s \in Seqs : /\ IsNextFrame(s)
                     /\ stations' = [stations EXCEPT ![log[s].station] = "booted"]
  /\ GoTo("deliver")
  /\ UNCHANGED <<closing, bridged>>
  /\ NoFault /\ UNCHANGED <<log, reports, disk, hears, origin>>

(* the back end hears frame s *)
Hears(s) == hears' = [hears EXCEPT ![s] = @ + 1]

(* out.append(Delivery(...)): frame s is dealt with *)
Dealt(s, o) ==
  /\ pos' = s /\ outs' = [outs EXCEPT ![s] = o]
  /\ UNCHANGED <<pc, closing, batchTo, bridge>>

(* send_raw: a station that is there sends the frame and the back end answers, *)
(* with a result or with a CALLERROR *)
Say ==
  /\ pc = "deliver"
  /\ \E s \in Seqs, o \in {"accepted", "csms_error"} :
       /\ IsNextFrame(s) /\ stations[log[s].station] # "absent" /\ log[s].v201
       /\ Hears(s) /\ Dealt(s, o)
  /\ NoFault /\ UNCHANGED <<log, reports, disk, origin>>

(* send_raw: the schema refuses the frame and it is never sent *)
Refuse ==
  /\ pc = "deliver"
  /\ \E s \in Seqs : /\ IsNextFrame(s) /\ stations[log[s].station] # "absent" /\ ~log[s].v201
                     /\ Dealt(s, "not_2_0_1")
  /\ NoFault /\ UNCHANGED <<log, reports, disk, hears, origin>>

(* the back end goes away: before it hears the next frame, or before it answers it *)
BackEndGone ==
  /\ pc \in {"deliver", "boot"} /\ TwinRows(pos, batchTo) # {}
  /\ Fault /\ EndsBroken
  /\ \/ UNCHANGED hears
     \/ pc = "deliver" /\ \E s \in Seqs : /\ IsNextFrame(s) /\ stations[log[s].station] # "absent"
                                          /\ log[s].v201 /\ Hears(s)
  /\ UNCHANGED <<log, reports, disk, origin>>

(* mutant of Save: the cursor is saved before the batch is said *)
SaveEarly ==
  /\ pc = "deliver"
  /\ disk' = [cursor |-> batchTo, pending |-> <<BatchReport>>]
  /\ closing' = TRUE /\ GoTo("post")
  /\ NoFault /\ UNCHANGED <<log, reports, bridge, hears, origin>>

(* the batch is over: cursor and report are written together, then the report is posted *)
Save ==
  /\ pc = "deliver" /\ TwinRows(pos, batchTo) = {}
  /\ disk' = [cursor |-> batchTo, pending |-> <<BatchReport>>]
  /\ closing' = TRUE /\ GoTo("post")
  /\ NoFault /\ UNCHANGED <<log, reports, bridge, hears, origin>>

SaveFails ==
  /\ pc = "deliver" /\ TwinRows(pos, batchTo) = {} /\ Fault /\ EndsBroken
  /\ UNCHANGED <<log, reports, disk, hears, origin>>

(* the process dies; the state file and the database stay *)
Crash ==
  /\ (pc # "idle" \/ bridged) /\ Fault /\ EndsBroken
  /\ UNCHANGED <<log, reports, disk, hears, origin>>

-----------------------------------------------------------------------------
RelayStep ==
  \/ StartRound \/ PostKept \/ Settle \/ StartAtHead \/ Pull \/ PullNothing
  \/ Connect \/ Boot \/ Say \/ Refuse \/ Save

FaultStep == PostFails \/ SettleFails \/ PullFails \/ BackEndGone \/ SaveFails \/ Crash

Next == (\E r \in Row : Write(r)) \/ RelayStep \/ FaultStep

Spec == Init /\ [][Next]_vars
FairSpec == Spec /\ WF_vars(RelayStep)

-----------------------------------------------------------------------------
(* The reports kept so far and, after them, the one still owed. *)
Accounted == IF disk.pending = <<>> THEN reports ELSE Append(reports, disk.pending[1])

(* The spans of a lie in (lo, hi], start after lo, end at hi, and each follows the one before
   it or repeats it. *)
Tile(a, lo, hi) ==
  /\ \A i \in 1..Len(a) : lo < a[i].from /\ a[i].from <= a[i].to /\ a[i].to <= hi
  /\ \A i \in 1..(Len(a) - 1) : a[i + 1] = a[i] \/ a[i + 1].from = a[i].to + 1
  /\ IF a = <<>> THEN hi = lo ELSE a[1].from = lo + 1 /\ a[Len(a)].to = hi

(* The outcomes o tell the truth of the frames in (lo, hi], and of no other. *)
OutcomesTrue(o, lo, hi) ==
  \A s \in Seqs :
    IF s \in TwinRows(lo, hi)
    THEN IF log[s].v201 THEN o[s] \in {"accepted", "csms_error"} /\ hears[s] > 0
                        ELSE o[s] = "not_2_0_1"
    ELSE o[s] = "unsaid"

(* The back end hears the chargers' frames in the order the twin wrote them: when it has heard a
   frame it has heard every sayable frame before it, back to the head the bridge started at,
   whatever crashed or was said again in between. *)
HeardInOrder ==
  \A s \in Seqs : hears[s] > 0 =>
    /\ s \in Sayable(origin, Len(log))
    /\ \A t \in Sayable(origin, s) : hears[t] > 0

(* The saved cursor never runs ahead of what was said: no crash between two calls of a round
   can make the bridge skip a frame. *)
CursorIsSaid ==
  disk.cursor # NoCursor => \A t \in Sayable(origin, disk.cursor) : hears[t] > 0

(* Read in order, the reports cover the twin's log from the head to the saved cursor with no gap
   and no overlap; a report may only be there twice in a row (kept, its answer lost, sent again). *)
ReportsTile == Tile(Accounted, origin, disk.cursor)

(* What a report says of a frame is what happened to it: a frame the schema refuses is
   not_2_0_1, any other was heard by the back end, and no outcome of another pass leaks in. *)
ReportsAreTrue ==
  \A i \in 1..Len(Accounted) :
    OutcomesTrue(Accounted[i].outs, Accounted[i].from - 1, Accounted[i].to)

(* "the frames are said: never say them again" (csms_relay.py:159): once the cursor is saved past
   a frame, no later round, restart or re-sent report makes a charger say it again. *)
NeverSaidAgain == [][\A s \in Seqs : hears'[s] # hears[s] => s > disk.cursor]_vars

(* A charger says a frame only on a connection it has booted on (_station keeps the station
   before boot is awaited, so a failed boot must not leave it behind). *)
SpeaksBooted == [][\A s \in Seqs : hears'[s] # hears[s] => stations[log[s].station] = "booted"]_vars

(* A report written to the state file is dropped from it only after the relay has kept it. *)
NoReportLost == [][disk.pending # <<>> /\ disk'.pending # disk.pending =>
                     /\ reports # <<>> /\ reports[Len(reports)] = disk.pending[1]
                     /\ disk'.pending = <<>>]_vars

(* Every frame the twin writes after the head is said and told of in a kept report, if faults
   do not go on for ever and the loop keeps running (Relay.run never returns). *)
EveryFrameReported ==
  \A s \in Seqs : origin # NoCursor /\ s \in TwinRows(origin, Len(log))
                     ~> \E i \in 1..Len(reports) : reports[i].from <= s /\ s <= reports[i].to

(* The promise CsmsRelay keeps: its frames, cursor and reports are ChargerFeed's. *)
SpanOf(r) == [from |-> r.from, to |-> r.to]
Feed == INSTANCE ChargerFeed WITH
  Rows      <- Row,
  FrameRows <- [station : Stations, v201 : {TRUE}],
  heard     <- {s \in Seqs : hears[s] > 0},
  accounted <- disk.cursor,
  owed      <- [i \in 1..Len(disk.pending) |-> SpanOf(disk.pending[i])],
  kept      <- [i \in 1..Len(reports) |-> SpanOf(reports[i])]

(* The relay loop, with its faults, does only what ChargerFeed allows: at least once, in order,
   accounted for after it was heard and kept before it is forgotten. *)
ImplementsFeed == Feed!Spec

(* The inductive invariant: where the cursor is, what each phase of a round can assume, and
   what the pass in progress has done. *)
CursorOK ==
  /\ origin <= disk.cursor /\ disk.cursor <= Len(log)
  /\ origin = NoCursor <=> disk.cursor = NoCursor
  /\ disk.cursor = NoCursor =>
       /\ reports = <<>> /\ disk.pending = <<>>
       /\ \A s \in Seqs : hears[s] = 0

PhaseOK ==
  /\ pc \in {"post", "settle"} => disk.pending # <<>>
  /\ pc = "settle" => reports # <<>> /\ reports[Len(reports)] = disk.pending[1]
  /\ pc \in {"pull", "deliver", "boot"} => disk.pending = <<>>

PassOK ==
  pc \in {"deliver", "boot"} =>
    /\ disk.cursor # NoCursor /\ disk.cursor < batchTo /\ batchTo <= Len(log)
    /\ disk.cursor <= pos /\ pos <= batchTo
    /\ OutcomesTrue(outs, disk.cursor, pos)

IInv == /\ TypeOK /\ CursorOK /\ PhaseOK /\ PassOK
        /\ HeardInOrder /\ CursorIsSaid /\ ReportsTile /\ ReportsAreTrue
=============================================================================
