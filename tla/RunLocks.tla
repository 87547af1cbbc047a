------------------------------ MODULE RunLocks ------------------------------
(***************************************************************************)
(* The row locks of one run: who takes the run's row and its proposals'     *)
(* rows, in which mode and in which order.                                  *)
(*   - the metronome's beat: the world step takes the run's row FOR UPDATE, *)
(*     then the decide step writes the proposals, then COMMIT;              *)
(*   - a proposer's batch: for each car, the pending rows of that car are   *)
(*     superseded and a new one is inserted, whose foreign key takes the    *)
(*     run's row FOR KEY SHARE; one transaction for all cars;               *)
(*   - the stop door: a running run's row FOR NO KEY UPDATE (0790), the     *)
(*     proposals, then ottoq_sim_mark_stopped's UPDATE of the run;          *)
(*   - pause and resume: an unlocked read, then an UPDATE that carries the  *)
(*     status that was read (0791);                                         *)
(*   - the prior-run purge: an unlocked choice of the run, its rows, then   *)
(*     its row; alone, or at the end of a demo start that first marks the   *)
(*     run aborted.                                                         *)
(* Bodies: 06_functions.sql as migrations 0790 and 0791 patch them.         *)
(*                                                                          *)
(* PostgreSQL's part: READ COMMITTED (a statement sees what was committed   *)
(* when it began; a row it waited for is read again), row-lock modes, and   *)
(* undo on abort. A row's uncommitted version is visible to its writer only.*)
(***************************************************************************)
EXTENDS Naturals, FiniteSets

CONSTANTS
  Batches,     \* the calls of ottoq_proposer_submit_batch
  Source(_),   \* the server-derived source of a batch
  Cars,
  Doors,       \* which of stop, pause, resume, purge, demo are called
  Impatient,   \* the sessions a lock wait may end with an error
  MaxTicks,    \* bound: beats
  MaxCalls     \* bound: calls of each door

ASSUME DoorsAssumption == Doors \subseteq {"stop", "pause", "resume", "purge", "demo"}
ASSUME BoundsAssumption == MaxTicks \in Nat /\ MaxCalls \in Nat
ASSUME CarsAssumption == Cars # {}
ASSUME BatchesAssumption == Batches \cap {"beat", "stop", "pause", "resume", "purge", "demo", "noone"} = {}

Beat == "beat"
NoOne == "noone"
AllDoors == {"stop", "pause", "resume", "purge", "demo"}
Purges == {"purge", "demo"}
Sessions == Batches \cup AllDoors \cup {Beat}

Proposals == Batches \X Cars
BatchOf(p) == p[1]
CarOf(p) == p[2]
SourceOf(p) == Source(p[1])
Outcomes == {"enacted", "superseded", "refused", "expired", "gone"}
Statuses == {"none", "pending"} \cup Outcomes

VARIABLES
  status,   \* the run's row, committed: running, paused, completed, gone
  ticks,    \* its tick_count, committed
  lock,     \* the mode each session holds the run's row in
  stat,     \* each proposal's row, committed; "none" before its insert
  held,     \* the session that holds the row
  to,       \* the row as its holder has written it
  pc,       \* where each session is
  todo,     \* the rows a session's current UPDATE or DELETE still has to take
  rest,     \* the cars a batch has still to write
  cur,      \* the car a batch is writing
  took,     \* the proposals the kernel took in this beat
  calls,    \* calls of each door so far
  retried,  \* the purge has retried the proposals' table
  taken,    \* history: the proposals taken in committed beats
  began     \* history: the run's status when the stop door began

rows == <<stat, held, to>>
vars == <<status, ticks, lock, rows, pc, todo, rest, cur, took, calls, retried, taken, began>>

Modes == {"none", "keyshare", "nokey", "update"}
RunStatuses == {"running", "paused", "completed", "gone"}

TypeOK ==
  /\ status \in RunStatuses /\ began \in RunStatuses
  /\ ticks \in Nat
  /\ lock \in [Sessions -> Modes]
  /\ stat \in [Proposals -> Statuses] /\ to \in [Proposals -> Statuses]
  /\ held \in [Proposals -> Sessions \cup {NoOne}]
  /\ pc \in [Sessions -> {"idle", "row", "lock", "write", "next", "choose", "enact",
                          "supersede", "dispose", "commit", "delete", "done"}]
  /\ todo \in [Sessions -> SUBSET Proposals]
  /\ rest \in [Batches -> SUBSET Cars] /\ cur \in [Batches -> Cars]
  /\ took \subseteq Proposals /\ taken \subseteq Proposals
  /\ calls \in [AllDoors -> Nat] /\ retried \in [Purges -> BOOLEAN]

-----------------------------------------------------------------------------
(* PostgreSQL's row-level lock conflicts. *)
Conflicts(a, b) ==
  \/ {a, b} = {"keyshare", "update"}
  \/ a \in {"nokey", "update"} /\ b \in {"nokey", "update"}

Blockers(s, m) == {t \in Sessions \ {s} : Conflicts(m, lock[t])}
CanLock(s, m) == Blockers(s, m) = {}

(* The row as session s sees it. *)
Seen(s, p) == IF held[p] = s THEN to[p] ELSE stat[p]
SeenPending(s) == {p \in Proposals : Seen(s, p) = "pending"}

Go(s, l) == pc' = [pc EXCEPT ![s] = l]
Take(s, S) == todo' = [todo EXCEPT ![s] = S]

(* Commit and abort of session s: its rows, its lock. *)
CommitRows(s) ==
  /\ stat' = [p \in Proposals |-> IF held[p] = s THEN to[p] ELSE stat[p]]
  /\ held' = [p \in Proposals |-> IF held[p] = s THEN NoOne ELSE held[p]]
  /\ UNCHANGED to
UndoRows(s) ==
  /\ held' = [p \in Proposals |-> IF held[p] = s THEN NoOne ELSE held[p]]
  /\ UNCHANGED <<stat, to>>
Unlock(s) == lock' = [lock EXCEPT ![s] = "none"]

(* What the statement at hand writes into a proposal's row; the beat's dispose refuses a proposal *)
(* that has become infeasible and expires one past its time, which is one outcome here.           *)
Writes(s) ==
  CASE s \in Batches -> "superseded"
    [] s = Beat /\ pc[s] = "enact" -> "enacted"
    [] s = Beat /\ pc[s] = "supersede" -> "superseded"
    [] s = Beat /\ pc[s] = "dispose" -> "refused"
    [] s = "stop" -> "expired"
    [] OTHER -> "gone"

(* mutant of StillMatches: the UPDATE no longer says status = 'pending' *)
MatchesAny(s, p) == Seen(s, p) # "none"

(* The WHERE of that statement, read again on a row it waited for. *)
StillMatches(s, p) == IF s \in Purges THEN Seen(s, p) # "none" ELSE Seen(s, p) = "pending"

TakeRow(s) ==
  /\ pc[s] \in {"enact", "supersede", "dispose", "delete"}
  /\ \E p \in todo[s] :
       /\ held[p] \in {NoOne, s}
       /\ Take(s, todo[s] \ {p})
       /\ IF StillMatches(s, p)
          THEN held' = [held EXCEPT ![p] = s] /\ to' = [to EXCEPT ![p] = Writes(s)]
          ELSE UNCHANGED <<held, to>>
  /\ UNCHANGED <<status, ticks, lock, stat, pc, rest, cur, took, calls, retried, taken, began>>

-----------------------------------------------------------------------------
(* ottoq_proposer_submit_batch: one sub-transaction over the rows. *)
BatchBegins(b) ==
  /\ pc[b] = "idle" /\ status # "gone"
  /\ \E cs \in (SUBSET Cars) \ {{}} : rest' = [rest EXCEPT ![b] = cs]
  /\ Go(b, "next")
  /\ UNCHANGED <<status, ticks, lock, rows, todo, cur, took, calls, retried, taken, began>>

(* ottoq_submit_external_proposal, the supersede: the pending rows of this car. *)
BatchRow(b) ==
  /\ pc[b] = "next"
  /\ \E c \in rest[b] :
       /\ cur' = [cur EXCEPT ![b] = c]
       /\ Take(b, {p \in SeenPending(b) : CarOf(p) = c})
  /\ Go(b, "supersede")
  /\ UNCHANGED <<status, ticks, lock, rows, rest, took, calls, retried, taken, began>>

(* the INSERT: its key check takes the run's row FOR KEY SHARE *)
BatchInserts(b) ==
  /\ pc[b] = "supersede" /\ todo[b] = {} /\ CanLock(b, "keyshare") /\ status # "gone"
  /\ lock' = [lock EXCEPT ![b] = "keyshare"]
  /\ held' = [held EXCEPT ![<<b, cur[b]>>] = b]
  /\ to' = [to EXCEPT ![<<b, cur[b]>>] = "pending"]
  /\ rest' = [rest EXCEPT ![b] = @ \ {cur[b]}]
  /\ Go(b, "next")
  /\ UNCHANGED <<status, ticks, stat, todo, cur, took, calls, retried, taken, began>>

BatchCommits(b) ==
  /\ pc[b] = "next" /\ rest[b] = {}
  /\ CommitRows(b) /\ Unlock(b) /\ Go(b, "done")
  /\ UNCHANGED <<status, ticks, todo, rest, cur, took, calls, retried, taken, began>>

(* EXCEPTION WHEN OTHERS: a refusal on row k rolls back rows 1..k-1 too. *)
BatchFails(b) ==
  /\ Go(b, "done") /\ Take(b, {}) /\ rest' = [rest EXCEPT ![b] = {}]
  /\ UndoRows(b) /\ Unlock(b)
  /\ UNCHANGED <<status, ticks, cur, took, calls, retried, taken, began>>

(* The key check finds no run: 23503. *)
BatchFindsNoRun(b) == pc[b] = "supersede" /\ todo[b] = {} /\ status = "gone" /\ BatchFails(b)

-----------------------------------------------------------------------------
(* ottoq_demo_metronome: a run that reads running is due. *)
BeatBegins ==
  /\ pc[Beat] = "idle" /\ status = "running" /\ ticks < MaxTicks
  /\ Go(Beat, "lock")
  /\ UNCHANGED <<status, ticks, lock, rows, todo, rest, cur, took, calls, retried, taken, began>>

(* mutant of WorldLock: the withdrawn first draft of 0790, FOR NO KEY UPDATE *)
WeakWorldLock == "nokey"

WorldLock == "update"

(* the world step's NOT FOUND OR status NOT IN ('running'), after its lock *)
Ticks == status = "running"

(* ottoq_sim_advance_tick_world; every other beat decides. *)
WorldStep ==
  /\ pc[Beat] = "lock" /\ CanLock(Beat, WorldLock)
  /\ IF Ticks
     THEN /\ lock' = [lock EXCEPT ![Beat] = WorldLock]
          /\ Go(Beat, IF ticks % 2 = 1 THEN "choose" ELSE "commit")
     ELSE UNCHANGED lock /\ Go(Beat, "commit")
  /\ UNCHANGED <<status, ticks, rows, todo, rest, cur, took, calls, retried, taken, began>>

(* ottoq_decide_tick: the kernel takes at most one pending proposal of a car. *)
Chooses ==
  /\ pc[Beat] = "choose"
  /\ \E T \in SUBSET SeenPending(Beat) :
       (\A p, q \in T : CarOf(p) = CarOf(q) => p = q) /\ took' = T
  /\ Go(Beat, "write")
  /\ UNCHANGED <<status, ticks, lock, rows, todo, rest, cur, calls, retried, taken, began>>

(* A3, first UPDATE: the pending rows whose car and source match a decision of this tick *)
EnactBegins ==
  /\ pc[Beat] = "write"
  /\ Take(Beat, {p \in SeenPending(Beat) :
                   \E q \in took : CarOf(p) = CarOf(q) /\ SourceOf(p) = SourceOf(q)})
  /\ Go(Beat, "enact")
  /\ UNCHANGED <<status, ticks, lock, rows, rest, cur, took, calls, retried, taken, began>>

(* A3, second UPDATE: what is still pending for a car that was decided *)
SupersedeBegins ==
  /\ pc[Beat] = "enact" /\ todo[Beat] = {}
  /\ Take(Beat, {p \in SeenPending(Beat) : \E q \in took : CarOf(p) = CarOf(q)})
  /\ Go(Beat, "supersede")
  /\ UNCHANGED <<status, ticks, lock, rows, rest, cur, took, calls, retried, taken, began>>

(* ottoq_dispose_external_proposals(run, tick, clock, false): what has become infeasible *)
DisposeBegins ==
  /\ pc[Beat] = "supersede" /\ todo[Beat] = {}
  /\ \E S \in SUBSET SeenPending(Beat) : Take(Beat, S)
  /\ Go(Beat, "dispose")
  /\ UNCHANGED <<status, ticks, lock, rows, rest, cur, took, calls, retried, taken, began>>

(* The metronome's closing UPDATE (next_tick_due_at) and COMMIT, also of a beat that did not tick. *)
BeatCommits ==
  /\ pc[Beat] \in {"commit", "dispose"} /\ todo[Beat] = {}
  /\ status = "gone" \/ CanLock(Beat, "nokey")
  /\ CommitRows(Beat) /\ Unlock(Beat) /\ Go(Beat, "idle")
  /\ ticks' = IF lock[Beat] = "none" THEN ticks ELSE ticks + 1
  /\ taken' = taken \cup took /\ took' = {}
  /\ UNCHANGED <<status, todo, rest, cur, calls, retried, began>>

(* The metronome handles either step's error: a failed decide is undone and the beat still commits. *)
BeatFails ==
  /\ UndoRows(Beat) /\ Take(Beat, {}) /\ took' = {}
  /\ Go(Beat, IF pc[Beat] = "commit" THEN "idle" ELSE "commit")
  /\ UNCHANGED <<status, ticks, lock, rest, cur, calls, retried, taken, began>>

-----------------------------------------------------------------------------
Calls(d) ==
  /\ d \in Doors /\ pc[d] = "idle" /\ calls[d] < MaxCalls
  /\ calls' = [calls EXCEPT ![d] = @ + 1]

(* ottoq_sim_stop_and_reset: a run that reads running is locked first. *)
StopBegins ==
  /\ Calls("stop") /\ began' = status
  /\ IF status = "running"
     THEN Go("stop", "lock") /\ UNCHANGED todo
     ELSE Go("stop", "dispose") /\ Take("stop", SeenPending("stop"))
  /\ UNCHANGED <<status, ticks, lock, rows, rest, cur, took, retried, taken>>

(* mutant of StopLock: the door before 0790 *)
NoStopLock == "none"

(* mutant of StopLock: the mode 0790 section 3 argues against *)
StrongStopLock == "update"

StopLock == "nokey"

StopLocks ==
  /\ pc["stop"] = "lock" /\ CanLock("stop", StopLock)
  /\ lock' = [lock EXCEPT !["stop"] = IF status = "running" THEN StopLock ELSE "none"]
  /\ began' = status
  /\ Take("stop", SeenPending("stop")) /\ Go("stop", "dispose")
  /\ UNCHANGED <<status, ticks, rows, rest, cur, took, calls, retried, taken>>

(* ottoq_sim_mark_stopped, and the commit *)
StopMarks ==
  /\ pc["stop"] = "dispose" /\ todo["stop"] = {}
  /\ IF status \in {"running", "paused"}
     THEN CanLock("stop", "nokey") /\ status' = "completed"
     ELSE UNCHANGED status
  /\ CommitRows("stop") /\ Unlock("stop") /\ Go("stop", "idle")
  /\ UNCHANGED <<ticks, todo, rest, cur, took, calls, retried, taken, began>>

StopFails ==
  /\ UndoRows("stop") /\ Unlock("stop") /\ Go("stop", "idle") /\ Take("stop", {})
  /\ UNCHANGED <<status, ticks, rest, cur, took, calls, retried, taken, began>>

-----------------------------------------------------------------------------
(* ottoq_pause_run and ottoq_resume_run: the status is read without a lock ... *)
SwitchReads(d, from) ==
  /\ Calls(d) /\ status = from
  /\ Go(d, "write")
  /\ UNCHANGED <<status, ticks, lock, rows, todo, rest, cur, took, retried, taken, began>>

(* ... and carried into the UPDATE: a run that has moved on is left as it is. *)
SwitchWrites(d, from, new) ==
  /\ pc[d] = "write"
  /\ IF status = from THEN CanLock(d, "nokey") /\ status' = new ELSE UNCHANGED status
  /\ Go(d, "idle")
  /\ UNCHANGED <<ticks, lock, rows, todo, rest, cur, took, calls, retried, taken, began>>

SwitchFails(d) ==
  /\ Go(d, "idle")
  /\ UNCHANGED <<status, ticks, lock, rows, todo, rest, cur, took, calls, retried, taken, began>>

-----------------------------------------------------------------------------
Referencing(s) == {p \in Proposals : Seen(s, p) \notin {"none", "gone"}}

(* ottoq_purge_prior_runs: the run is chosen unlocked, while it is not running ... *)
PurgeBegins ==
  /\ Calls("purge") /\ status \in {"paused", "completed"}
  /\ Take("purge", Referencing("purge")) /\ Go("purge", "delete")
  /\ UNCHANGED <<status, ticks, lock, rows, rest, cur, took, retried, taken, began>>

(* ... or ottoq_start_demo_run marks it aborted first, and then purges it. *)
DemoBegins ==
  /\ Calls("demo") /\ status # "gone"
  /\ Go("demo", "lock")
  /\ UNCHANGED <<status, ticks, lock, rows, todo, rest, cur, took, retried, taken, began>>

DemoAborts ==
  /\ pc["demo"] = "lock"
  /\ IF status \in {"running", "paused"}
     THEN CanLock("demo", "nokey") /\ lock' = [lock EXCEPT !["demo"] = "nokey"]
     ELSE UNCHANGED lock
  /\ Take("demo", Referencing("demo")) /\ Go("demo", "delete")
  /\ UNCHANGED <<status, ticks, rows, rest, cur, took, calls, retried, taken, began>>

(* It raises: everything it did is undone. *)
PurgeRaises(s) ==
  /\ UndoRows(s) /\ Unlock(s) /\ Go(s, "idle") /\ Take(s, {})
  /\ retried' = [retried EXCEPT ![s] = FALSE]
  /\ UNCHANGED <<status, ticks, rest, cur, took, calls, taken, began>>

(* The run's row last; a proposal inserted since the DELETE above fails it (23503). *)
PurgeDeletesRun(s) ==
  /\ pc[s] = "delete" /\ todo[s] = {} /\ CanLock(s, "update")
  /\ \/ /\ Referencing(s) = {}
        /\ status' = "gone"
        /\ CommitRows(s) /\ Unlock(s) /\ Go(s, "idle")
        /\ retried' = [retried EXCEPT ![s] = FALSE]
        /\ UNCHANGED <<ticks, todo, rest, cur, took, calls, taken, began>>
     \/ Referencing(s) # {} /\ PurgeRaises(s)

(* A lost lock inside the proposals' DELETE is parked and retried once; anywhere else it raises. *)
PurgeFails(s) ==
  IF pc[s] = "delete" /\ todo[s] # {} /\ ~retried[s]
  THEN /\ UndoRows(s)
       /\ todo' = [todo EXCEPT ![s] = {p \in Proposals : stat[p] \notin {"none", "gone"}}]
       /\ retried' = [retried EXCEPT ![s] = TRUE]
       /\ UNCHANGED <<status, ticks, lock, pc, rest, cur, took, calls, taken, began>>
  ELSE PurgeRaises(s)

-----------------------------------------------------------------------------
(* The mode a session's statement wants the run's row in. *)
Wants(s) ==
  CASE s \in Batches /\ pc[s] = "supersede" -> "keyshare"
    [] s = Beat /\ pc[s] = "lock" -> WorldLock
    [] s = Beat /\ pc[s] = "commit" /\ status # "gone" -> "nokey"
    [] s = "stop" /\ pc[s] = "lock" -> StopLock
    [] s = "stop" /\ pc[s] = "dispose" /\ status \in {"running", "paused"} -> "nokey"
    [] s = "pause" /\ pc[s] = "write" /\ status = "running" -> "nokey"
    [] s = "resume" /\ pc[s] = "write" /\ status = "paused" -> "nokey"
    [] s = "demo" /\ pc[s] = "lock" /\ status \in {"running", "paused"} -> "nokey"
    [] s \in Purges /\ pc[s] = "delete" -> "update"
    [] OTHER -> "none"

(* The sessions s waits for: of the rows it still has to take, or of the run's row. *)
WaitsOn(s) ==
  IF todo[s] # {}
  THEN LET holders == {held[p] : p \in todo[s]} IN
       IF holders \cap {NoOne, s} = {} THEN holders ELSE {}
  ELSE Blockers(s, Wants(s))

(* A deadlock's victim, or a lock_timeout: PostgreSQL ends the wait with an error. *)
Loses(s) ==
  /\ s \in Impatient /\ WaitsOn(s) # {}
  /\ \/ s \in Batches /\ BatchFails(s)
     \/ s = Beat /\ BeatFails
     \/ s = "stop" /\ StopFails
     \/ s \in {"pause", "resume"} /\ SwitchFails(s)
     \/ s \in Purges /\ PurgeFails(s)

-----------------------------------------------------------------------------
Init ==
  /\ status = "running" /\ ticks = 0
  /\ lock = [s \in Sessions |-> "none"]
  /\ \E D \in SUBSET Batches : \* the batches already in
       /\ \E S \in SUBSET (D \X Cars) :
            /\ \A p, q \in S : CarOf(p) = CarOf(q) => p = q
            /\ stat = [p \in Proposals |-> IF p \in S THEN "pending" ELSE "none"]
       /\ pc = [s \in Sessions |-> IF s \in D THEN "done" ELSE "idle"]
  /\ held = [p \in Proposals |-> NoOne] /\ to = [p \in Proposals |-> "none"]
  /\ todo = [s \in Sessions |-> {}]
  /\ rest = [b \in Batches |-> {}] /\ cur = [b \in Batches |-> CHOOSE c \in Cars : TRUE]
  /\ took = {} /\ taken = {}
  /\ calls = [d \in AllDoors |-> 0] /\ retried = [s \in Purges |-> FALSE]
  /\ began = "running"

BatchStep(b) == BatchRow(b) \/ BatchInserts(b) \/ BatchCommits(b) \/ BatchFindsNoRun(b)
BeatStep == WorldStep \/ Chooses \/ EnactBegins \/ SupersedeBegins \/ DisposeBegins \/ BeatCommits
StopStep == StopLocks \/ StopMarks
SwitchStep == SwitchWrites("pause", "running", "paused") \/ SwitchWrites("resume", "paused", "running")
PurgeStep == DemoAborts \/ \E s \in Purges : PurgeDeletesRun(s)

(* A call that has begun goes on. *)
GoesOn == \/ \E s \in Sessions : TakeRow(s)
          \/ \E b \in Batches : BatchStep(b)
          \/ BeatStep \/ StopStep \/ SwitchStep \/ PurgeStep

Begins == \/ \E b \in Batches : BatchBegins(b)
          \/ BeatBegins \/ StopBegins \/ PurgeBegins \/ DemoBegins
          \/ SwitchReads("pause", "running") \/ SwitchReads("resume", "paused")

Next == Begins \/ GoesOn \/ \E s \in Sessions : Loses(s)

Spec == Init /\ [][Next]_vars

(* A session is scheduled, and a wait of an impatient one ends. *)
Fairness == /\ WF_vars(BeatStep) /\ WF_vars(StopStep) /\ WF_vars(SwitchStep) /\ WF_vars(PurgeStep)
            /\ \A b \in Batches : WF_vars(BatchStep(b))
            /\ \A s \in Sessions : WF_vars(TakeRow(s)) /\ WF_vars(Loses(s))

FairSpec == Spec /\ Fairness

-----------------------------------------------------------------------------
(* The ledger names as enacted exactly the proposals the kernel took, in beats that committed      *)
(* (0790 section 1 (b)): no batch slips a newer proposal under decide_tick's A3.                    *)
EnactedIsTaken ==
  /\ \A p \in Proposals : stat[p] = "enacted" => p \in taken
  /\ \A p \in taken : stat[p] \in {"enacted", "gone"}

(* The comment at decide_tick's A3, of a pending row whose car was decided but not by this row:    *)
(* it is pre-empted, not enacted. The overlapping calls of one proposer break it.                   *)
OnlyTheTakenIsEnacted == \A p \in Proposals : stat[p] = "enacted" => p \in taken

(* A stop that found its run running and a beat never wait for each other (0790 section 2, G440). *)
StopAndBeatNeverCross ==
  pc["stop"] # "idle" /\ began = "running"
    => ~(Beat \in WaitsOn("stop") /\ "stop" \in WaitsOn(Beat))

(* A batch that has superseded and waits for its key check is not what the stop waits for          *)
(* while the stop holds the run's row (0790 section 3).                                             *)
StopAndKeyCheckNeverCross ==
  \A b \in Batches : ~(b \in WaitsOn("stop") /\ Wants(b) = "keyshare" /\ todo[b] = {} /\ "stop" \in WaitsOn(b))

(* The locks of every session, well formed and never crossed: a stop is never the second of two      *)
(* that wait for each other.                                                                        *)
StopNeverCrosses == TypeOK /\ StopAndBeatNeverCross /\ StopAndKeyCheckNeverCross

(* Sessions, locks and undo come down to calls that take effect at once. *)
Ledger == INSTANCE RunLedger
ImplementsLedger == Ledger!Spec

(* A stop that has begun comes to an end without losing a lock. *)
StopEnds == pc["stop"] # "idle" ~> pc["stop"] = "idle"
=============================================================================
