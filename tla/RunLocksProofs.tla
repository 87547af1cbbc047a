--------------------------- MODULE RunLocksProofs ---------------------------
(***************************************************************************)
(* RunLocks proved, for any batches, cars, doors, beats and calls, in      *)
(* three layers:                                                           *)
(*   - LockInv: where the sessions are, in which modes they hold the run's *)
(*     row, and that no two modes conflict;                                *)
(*   - RowInv: what a session that holds a proposal's row found there and  *)
(*     has written;                                                        *)
(*   - TookInv: what the kernel took is pending, and no other session      *)
(*     commits, until the beat has marked it and commits itself.           *)
(* The third needs every source to have one batch: with a second batch of  *)
(* a source in flight it is false, and so is what follows from it.         *)
(***************************************************************************)
EXTENDS RunLocks, TLAPS

(* The names of the sessions are apart from one another. *)
LEMMA SessionsAreDistinct ==
  /\ Beat \notin Batches /\ NoOne \notin Sessions
  /\ \A d \in AllDoors : d \notin Batches /\ d # Beat
  /\ Beat \in Sessions /\ Batches \subseteq Sessions /\ AllDoors \subseteq Sessions
  BY BatchesAssumption DEF Beat, NoOne, Sessions, AllDoors

(* Where each kind of session may be. *)
Places ==
  /\ \A b \in Batches : pc[b] \in {"idle", "next", "supersede", "done"}
  /\ pc[Beat] \in {"idle", "lock", "commit", "choose", "write", "enact", "supersede", "dispose"}
  /\ pc["stop"] \in {"idle", "lock", "dispose"}
  /\ \A d \in {"pause", "resume"} : pc[d] \in {"idle", "write"}
  /\ pc["purge"] \in {"idle", "delete"} /\ pc["demo"] \in {"idle", "lock", "delete"}
  /\ \A s \in Sessions : todo[s] # {} => pc[s] \in {"enact", "supersede", "dispose", "delete"}

(* No two sessions hold the run's row in modes that conflict. *)
Exclusive == \A s, t \in Sessions : s # t => ~Conflicts(lock[s], lock[t])

(* The modes each session ever holds it in. *)
HeldModes ==
  /\ lock[Beat] \in {"none", "update"}
  /\ lock["stop"] \in {"none", "nokey"}
  /\ \A b \in Batches : lock[b] \in {"none", "keyshare"}
  /\ \A d \in {"pause", "resume", "purge"} : lock[d] = "none"
  /\ lock["demo"] \in {"none", "nokey"}

(* What holding it, or being somewhere, means. *)
LocksMean ==
  /\ lock[Beat] = "update" => status = "running"
  /\ pc[Beat] \in {"choose", "write", "enact", "supersede", "dispose"} => lock[Beat] = "update"
  /\ pc[Beat] \in {"idle", "lock"} => lock[Beat] = "none"
  /\ pc["stop"] \in {"idle", "lock"} => lock["stop"] = "none"
  /\ pc["stop"] = "dispose" /\ began = "running" => lock["stop"] = "nokey"
  /\ \A b \in Batches :
       /\ pc[b] \in {"idle", "done"} => lock[b] = "none"
       /\ pc[b] = "next" /\ rest[b] = {} => lock[b] = "keyshare"
       /\ lock[b] = "keyshare" => status # "gone"
       /\ pc[b] = "supersede" => cur[b] \in rest[b]

LockInv == TypeOK /\ Places /\ Exclusive /\ HeldModes /\ LocksMean

-----------------------------------------------------------------------------
USE SessionsAreDistinct

(* PostgreSQL's table, mode by mode. *)
LEMMA ConflictTable ==
  /\ \A m : ~Conflicts("none", m) /\ ~Conflicts(m, "none")
  /\ \A m, n : Conflicts(m, n) <=> Conflicts(n, m)
  /\ ~Conflicts("keyshare", "keyshare") /\ ~Conflicts("keyshare", "nokey")
  /\ Conflicts("keyshare", "update") /\ Conflicts("nokey", "update")
  /\ Conflicts("nokey", "nokey") /\ Conflicts("update", "update")
<1>1. \A m : ~Conflicts("none", m) /\ ~Conflicts(m, "none")
  BY DEF Conflicts
<1>2. \A m, n : Conflicts(m, n) <=> Conflicts(n, m)
  BY DEF Conflicts
<1> QED BY <1>1, <1>2 DEF Conflicts

(* A session that lets go of the row, or takes it in a mode nobody's conflicts with. *)
LEMMA ExclusiveKept ==
  ASSUME TypeOK, Exclusive, NEW s \in Sessions, NEW m \in Modes,
         lock' = [lock EXCEPT ![s] = m],
         m # "none" => CanLock(s, m)
  PROVE  Exclusive'
<1> SUFFICES ASSUME NEW t \in Sessions, NEW u \in Sessions, t # u PROVE ~Conflicts(lock'[t], lock'[u])
  BY DEF Exclusive
<1>1. CASE t # s /\ u # s
  BY <1>1 DEF TypeOK, Exclusive
<1>2. CASE m = "none"
  BY <1>1, <1>2, ConflictTable DEF TypeOK
<1>3. CASE m # "none" /\ (t = s \/ u = s)
  BY <1>3, ConflictTable DEF TypeOK, CanLock, Blockers
<1> QED BY <1>1, <1>2, <1>3

(* No session has begun and none holds the run's row. *)
LEMMA LocksStart == Init => LockInv
<1> SUFFICES ASSUME Init PROVE LockInv
  OBVIOUS
<1>1. TypeOK
  <2>1. cur \in [Batches -> Cars]
    BY CarsAssumption DEF Init
  <2>2. stat \in [Proposals -> Statuses] /\ pc \in [Sessions -> {"done", "idle"}]
    BY DEF Init, Statuses
  <2> QED BY <2>1, <2>2 DEF Init, TypeOK, RunStatuses, Modes, Statuses
<1>2. Places /\ Exclusive /\ HeldModes /\ LocksMean
  BY SMTT(30) DEF Init, Places, Exclusive, HeldModes, LocksMean, Conflicts, Beat, AllDoors
<1> QED BY <1>1, <1>2 DEF LockInv

(* Taking a proposal's row touches no lock of the run's. *)
LEMMA RowsKeepLocks == ASSUME LockInv, NEW s \in Sessions, TakeRow(s) PROVE LockInv'
<1> USE DEF LockInv, TakeRow, Take
<1>1. TypeOK'
  <2>1. Writes(s) \in Statuses
    BY DEF Writes, Statuses, Outcomes
  <2> QED BY <2>1 DEF TypeOK
<1>2. Places' /\ Exclusive' /\ HeldModes' /\ LocksMean'
  BY DEF TypeOK, Places, Exclusive, HeldModes, LocksMean, AllDoors
<1> QED BY <1>1, <1>2

(* A batch takes the run's row for its key check and lets go when it ends. *)
LEMMA BatchKeepsLocks ==
  ASSUME LockInv, NEW b \in Batches, BatchBegins(b) \/ BatchRow(b) \/ BatchInserts(b) \/ BatchCommits(b) \/ BatchFails(b)
  PROVE  LockInv'
<1> USE DEF LockInv, Take, Go, Unlock, CommitRows, UndoRows, rows
<1>1. CASE BatchBegins(b)
  <2>1. PICK cs \in SUBSET Cars : cs # {} /\ rest' = [rest EXCEPT ![b] = cs]
    BY <1>1 DEF BatchBegins
  <2>2. TypeOK'
    BY <1>1, <2>1 DEF BatchBegins, TypeOK
  <2>3. Places' /\ Exclusive' /\ HeldModes' /\ LocksMean'
    BY <1>1, <2>1 DEF BatchBegins, TypeOK, Places, Exclusive, HeldModes, LocksMean, AllDoors
  <2> QED BY <2>2, <2>3
<1>2. CASE BatchRow(b)
  BY <1>2 DEF BatchRow, TypeOK, Places, Exclusive, HeldModes, LocksMean, AllDoors, SeenPending
<1>3. CASE BatchInserts(b)
  <2>1. TypeOK'
    BY <1>3 DEF BatchInserts, TypeOK, Proposals, Modes, Statuses
  <2>2. Exclusive'
    BY <1>3, ExclusiveKept DEF BatchInserts, Modes
  <2>3. Places' /\ HeldModes' /\ LocksMean'
    BY <1>3 DEF BatchInserts, TypeOK, Places, HeldModes, LocksMean, AllDoors
  <2> QED BY <2>1, <2>2, <2>3
<1>4. CASE BatchCommits(b)
  <2>1. TypeOK'
    BY <1>4 DEF BatchCommits, TypeOK, Modes
  <2>2. Exclusive'
    BY <1>4, ExclusiveKept DEF BatchCommits, Modes
  <2>3. Places' /\ HeldModes' /\ LocksMean'
    BY <1>4 DEF BatchCommits, TypeOK, Places, HeldModes, LocksMean, AllDoors
  <2> QED BY <2>1, <2>2, <2>3
<1>5. CASE BatchFails(b)
  <2>1. TypeOK'
    BY <1>5 DEF BatchFails, TypeOK, Modes
  <2>2. Exclusive'
    BY <1>5, ExclusiveKept DEF BatchFails, Modes
  <2>3. Places' /\ HeldModes' /\ LocksMean'
    BY <1>5 DEF BatchFails, TypeOK, Places, HeldModes, LocksMean, AllDoors
  <2> QED BY <2>1, <2>2, <2>3
<1> QED BY <1>1, <1>2, <1>3, <1>4, <1>5

(* The world step takes the row of a running run; only the commit gives it back. *)
LEMMA BeatKeepsLocks ==
  ASSUME LockInv,
         BeatBegins \/ WorldStep \/ Chooses \/ EnactBegins \/ SupersedeBegins \/ DisposeBegins \/ BeatCommits
           \/ (BeatFails /\ WaitsOn(Beat) # {})
  PROVE  LockInv'
<1> USE DEF LockInv, Take, Go, Unlock, CommitRows, UndoRows, rows
<1>1. CASE BeatBegins
  BY <1>1 DEF BeatBegins, TypeOK, Places, Exclusive, HeldModes, LocksMean, AllDoors
<1>2. CASE WorldStep
  <2>1. TypeOK'
    BY <1>2 DEF WorldStep, TypeOK, Modes, WorldLock
  <2>2. Exclusive'
    BY <1>2, ExclusiveKept DEF WorldStep, Modes, WorldLock, Exclusive
  <2>3. Places' /\ HeldModes' /\ LocksMean'
    BY <1>2, SMTT(30) DEF WorldStep, TypeOK, Places, HeldModes, LocksMean, AllDoors, WorldLock, Ticks
  <2> QED BY <2>1, <2>2, <2>3
<1>3. CASE Chooses
  <2>1. TypeOK'
    BY <1>3 DEF Chooses, TypeOK, SeenPending
  <2>2. Places' /\ Exclusive' /\ HeldModes' /\ LocksMean'
    BY <1>3 DEF Chooses, TypeOK, Places, Exclusive, HeldModes, LocksMean, AllDoors
  <2> QED BY <2>1, <2>2
<1>4. CASE EnactBegins \/ SupersedeBegins \/ DisposeBegins
  <2>1. PICK S \in SUBSET Proposals : todo' = [todo EXCEPT ![Beat] = S]
    BY <1>4 DEF EnactBegins, SupersedeBegins, DisposeBegins, SeenPending
  <2>2. TypeOK'
    BY <1>4, <2>1 DEF EnactBegins, SupersedeBegins, DisposeBegins, TypeOK
  <2>3. Places' /\ Exclusive' /\ HeldModes' /\ LocksMean'
    BY <1>4, <2>1, SMTT(30) DEF EnactBegins, SupersedeBegins, DisposeBegins, TypeOK, Places, Exclusive, HeldModes, LocksMean, AllDoors
  <2> QED BY <2>2, <2>3
<1>5. CASE BeatCommits
  <2>1. TypeOK'
    BY <1>5 DEF BeatCommits, TypeOK, Modes
  <2>2. Exclusive'
    BY <1>5, ExclusiveKept DEF BeatCommits, Modes
  <2>3. Places' /\ HeldModes' /\ LocksMean'
    BY <1>5 DEF BeatCommits, TypeOK, Places, HeldModes, LocksMean, AllDoors
  <2> QED BY <2>1, <2>2, <2>3
<1>6. CASE BeatFails /\ WaitsOn(Beat) # {}
  <2>1. pc[Beat] = "commit" => lock[Beat] = "none"
    <3> SUFFICES ASSUME pc[Beat] = "commit", lock[Beat] = "update" PROVE FALSE
      BY DEF HeldModes
    <3>1. todo[Beat] = {} /\ Wants(Beat) \in {"nokey", "none"}
      BY <1>6 DEF Places, Wants, Beat
    <3>2. Blockers(Beat, "nokey") = {} /\ Blockers(Beat, "none") = {}
      BY ConflictTable DEF Blockers, Exclusive, TypeOK, Modes
    <3> QED BY <1>6, <3>1, <3>2 DEF WaitsOn
  <2>2. TypeOK'
    BY <1>6 DEF BeatFails, TypeOK
  <2>3. Places' /\ Exclusive' /\ HeldModes' /\ LocksMean'
    BY <1>6, <2>1 DEF BeatFails, TypeOK, Places, Exclusive, HeldModes, LocksMean, AllDoors
  <2> QED BY <2>2, <2>3
<1> QED BY <1>1, <1>2, <1>3, <1>4, <1>5, <1>6

(* Who may change the run's status: a session whose lock excludes the beat's and the batches' that inserted. *)
LEMMA NobodyElse ==
  ASSUME LockInv, NEW s \in Sessions \ (Batches \cup {Beat})
  PROVE  /\ CanLock(s, "nokey") => lock[Beat] = "none"
         /\ CanLock(s, "update") => lock[Beat] = "none" /\ \A b \in Batches : lock[b] = "none"
  BY ConflictTable DEF LockInv, HeldModes, CanLock, Blockers

(* A stop of a running run holds its row from before the dispose on. *)
LEMMA StopKeepsLocks ==
  ASSUME LockInv, StopBegins \/ StopLocks \/ StopMarks \/ StopFails
  PROVE  LockInv'
<1> USE DEF LockInv, Take, Go, Unlock, CommitRows, UndoRows, rows, AllDoors
<1>0. "stop" \in Sessions \ (Batches \cup {Beat}) /\ SeenPending("stop") \subseteq Proposals
  BY DEF SeenPending
<1>1. CASE StopBegins
  <2>1. TypeOK'
    BY <1>0, <1>1 DEF StopBegins, Calls, TypeOK
  <2>2. Places' /\ Exclusive' /\ HeldModes' /\ LocksMean'
    BY <1>0, <1>1 DEF StopBegins, Calls, TypeOK, Places, Exclusive, HeldModes, LocksMean
  <2> QED BY <2>1, <2>2
<1>2. CASE StopLocks
  <2>1. TypeOK'
    BY <1>0, <1>2 DEF StopLocks, TypeOK, Modes, StopLock
  <2>2. Exclusive'
    BY <1>0, <1>2, ExclusiveKept DEF StopLocks, Modes, StopLock
  <2>3. Places' /\ HeldModes' /\ LocksMean'
    BY <1>0, <1>2 DEF StopLocks, TypeOK, Places, HeldModes, LocksMean, StopLock
  <2> QED BY <2>1, <2>2, <2>3
<1>3. CASE StopMarks
  <2>1. TypeOK'
    BY <1>0, <1>3 DEF StopMarks, TypeOK, Modes, RunStatuses
  <2>2. Exclusive'
    BY <1>0, <1>3, ExclusiveKept DEF StopMarks, Modes
  <2>3. Places' /\ HeldModes' /\ LocksMean'
    BY <1>0, <1>3, NobodyElse DEF StopMarks, TypeOK, Places, HeldModes, LocksMean
  <2> QED BY <2>1, <2>2, <2>3
<1>4. CASE StopFails
  <2>1. TypeOK'
    BY <1>0, <1>4 DEF StopFails, TypeOK, Modes
  <2>2. Exclusive'
    BY <1>0, <1>4, ExclusiveKept DEF StopFails, Modes
  <2>3. Places' /\ HeldModes' /\ LocksMean'
    BY <1>0, <1>4 DEF StopFails, TypeOK, Places, HeldModes, LocksMean
  <2> QED BY <2>1, <2>2, <2>3
<1> QED BY <1>1, <1>2, <1>3, <1>4

(* Pause and resume hold the row for one statement only, and change the status against no beat's lock. *)
LEMMA SwitchKeepsLocks ==
  ASSUME LockInv, NEW d \in {"pause", "resume"}, NEW from \in {"running", "paused"}, NEW new \in {"running", "paused"},
         SwitchReads(d, from) \/ SwitchWrites(d, from, new) \/ SwitchFails(d)
  PROVE  LockInv'
<1> USE DEF LockInv, Go, rows, AllDoors
<1>1. TypeOK'
  BY DEF SwitchReads, SwitchWrites, SwitchFails, Calls, TypeOK, RunStatuses
<1>2. Places' /\ Exclusive' /\ HeldModes'
  BY SMTT(30) DEF SwitchReads, SwitchWrites, SwitchFails, Calls, TypeOK, Places, Exclusive, HeldModes
<1>3. LocksMean'
  BY NobodyElse DEF SwitchReads, SwitchWrites, SwitchFails, Calls, TypeOK, LocksMean, HeldModes
<1> QED BY <1>1, <1>2, <1>3

(* A purge deletes the row only while no other session holds it. *)
LEMMA PurgeKeepsLocks ==
  ASSUME LockInv, NEW s \in Purges,
         PurgeBegins \/ DemoBegins \/ DemoAborts \/ PurgeDeletesRun(s) \/ PurgeFails(s)
  PROVE  LockInv'
<1> USE DEF LockInv, Take, Go, Unlock, CommitRows, UndoRows, rows, AllDoors, Purges
<1>0. s \in Sessions \ (Batches \cup {Beat}) /\ \A d \in Purges : Referencing(d) \subseteq Proposals
  BY DEF Referencing
<1>1. CASE PurgeBegins
  BY <1>0, <1>1 DEF PurgeBegins, Calls, TypeOK, Places, Exclusive, HeldModes, LocksMean
<1>2. CASE DemoBegins
  BY <1>0, <1>2 DEF DemoBegins, Calls, TypeOK, Places, Exclusive, HeldModes, LocksMean
<1>3. CASE DemoAborts
  <2>1. TypeOK'
    BY <1>0, <1>3 DEF DemoAborts, TypeOK, Modes
  <2>2. Exclusive'
    BY <1>0, <1>3, ExclusiveKept DEF DemoAborts, Modes, Exclusive
  <2>3. Places' /\ HeldModes' /\ LocksMean'
    BY <1>0, <1>3 DEF DemoAborts, TypeOK, Places, HeldModes, LocksMean
  <2> QED BY <2>1, <2>2, <2>3
<1>4. CASE PurgeRaises(s)
  <2>1. TypeOK'
    BY <1>0, <1>4 DEF PurgeRaises, TypeOK, Modes
  <2>2. Exclusive'
    BY <1>0, <1>4, ExclusiveKept DEF PurgeRaises, Modes
  <2>3. Places' /\ HeldModes' /\ LocksMean'
    BY <1>0, <1>4 DEF PurgeRaises, TypeOK, Places, HeldModes, LocksMean
  <2> QED BY <2>1, <2>2, <2>3
<1>5. CASE PurgeDeletesRun(s) /\ Referencing(s) = {}
  <2>1. TypeOK'
    <3>1. /\ status' = "gone" /\ lock' = [lock EXCEPT ![s] = "none"] /\ pc' = [pc EXCEPT ![s] = "idle"]
          /\ retried' = [retried EXCEPT ![s] = FALSE]
          /\ stat' = [p \in Proposals |-> IF held[p] = s THEN to[p] ELSE stat[p]]
          /\ held' = [p \in Proposals |-> IF held[p] = s THEN NoOne ELSE held[p]]
          /\ UNCHANGED <<to, ticks, todo, rest, cur, took, calls, taken, began>>
      BY <1>5 DEF PurgeDeletesRun
    <3> QED BY <1>0, <3>1 DEF TypeOK, Modes, RunStatuses
  <2>2. Exclusive'
    BY <1>0, <1>5, ExclusiveKept DEF PurgeDeletesRun, Modes
  <2>3. Places' /\ HeldModes' /\ LocksMean'
    BY <1>0, <1>5, NobodyElse DEF PurgeDeletesRun, TypeOK, Places, HeldModes, LocksMean
  <2> QED BY <2>1, <2>2, <2>3
<1>6. CASE PurgeFails(s)
  <2>1. CASE pc[s] = "delete" /\ todo[s] # {} /\ ~retried[s]
    <3>0. PICK S \in SUBSET Proposals : todo' = [todo EXCEPT ![s] = S]
      BY <1>6, <2>1 DEF PurgeFails
    <3>1. TypeOK'
      <4>1. /\ held' = [p \in Proposals |-> IF held[p] = s THEN NoOne ELSE held[p]]
            /\ retried' = [retried EXCEPT ![s] = TRUE]
            /\ UNCHANGED <<status, stat, to, ticks, lock, pc, rest, cur, took, calls, taken, began>>
        BY <1>6, <2>1 DEF PurgeFails
      <4> QED BY <1>0, <3>0, <4>1 DEF TypeOK
    <3>2. Places' /\ Exclusive' /\ HeldModes' /\ LocksMean'
      BY <1>0, <1>6, <2>1 DEF PurgeFails, TypeOK, Places, Exclusive, HeldModes, LocksMean
    <3> QED BY <3>1, <3>2
  <2> QED BY <2>1, <1>4, <1>6 DEF PurgeFails
<1> QED BY <1>1, <1>2, <1>3, <1>4, <1>5, <1>6 DEF PurgeDeletesRun

(* The first layer. *)
LEMMA LocksAreKept == Spec => []LockInv
<1>1. LockInv /\ [Next]_vars => LockInv'
  <2> SUFFICES ASSUME LockInv, [Next]_vars PROVE LockInv'
    OBVIOUS
  <2>1. CASE Begins
    BY <2>1, BatchKeepsLocks, BeatKeepsLocks, StopKeepsLocks, SwitchKeepsLocks, PurgeKeepsLocks DEF Begins, Purges
  <2>2. CASE GoesOn
    <3>1. ASSUME NEW b \in Batches, BatchStep(b) PROVE LockInv'
      BY <3>1, BatchKeepsLocks DEF BatchStep, BatchFindsNoRun
    <3>2. CASE BeatStep \/ StopStep
      BY <3>2, BeatKeepsLocks, StopKeepsLocks DEF BeatStep, StopStep
    <3>3. CASE SwitchStep
      BY <3>3, SwitchKeepsLocks DEF SwitchStep
    <3>4. CASE PurgeStep
      BY <3>4, PurgeKeepsLocks DEF PurgeStep, Purges
    <3> QED BY <2>2, <3>1, <3>2, <3>3, <3>4, RowsKeepLocks DEF GoesOn
  <2>3. ASSUME NEW s \in Sessions, Loses(s) PROVE LockInv'
    BY <2>3, BatchKeepsLocks, BeatKeepsLocks, StopKeepsLocks, SwitchKeepsLocks, PurgeKeepsLocks DEF Loses
  <2>4. CASE UNCHANGED vars
    BY <2>4 DEF vars, rows, LockInv, TypeOK, Places, Exclusive, HeldModes, LocksMean
  <2> QED BY <2>1, <2>2, <2>3, <2>4 DEF Next
<1> QED BY <1>1, LocksStart, PTL DEF Spec
-----------------------------------------------------------------------------
(* What a session that holds a proposal's row has found there and written. *)
BeatRows == \A p \in Proposals : held[p] = Beat =>
  pc[Beat] \in {"enact", "supersede", "dispose"} /\ stat[p] = "pending" /\ to[p] \in {"enacted", "superseded", "refused"}

StopRows == \A p \in Proposals : held[p] = "stop" =>
  pc["stop"] = "dispose" /\ stat[p] = "pending" /\ to[p] = "expired"

PurgeRows == \A p \in Proposals, s \in Purges : held[p] = s =>
  pc[s] = "delete" /\ stat[p] # "none" /\ to[p] = "gone"

SwitchRows == \A p \in Proposals : held[p] \notin {"pause", "resume"}

(* A batch's own rows, and the older ones of the same cars. *)
Own(b, p) == BatchOf(p) = b /\ to[p] = "pending" /\ CarOf(p) \notin rest[b] /\ lock[b] = "keyshare"
Older(b, p) == /\ BatchOf(p) # b /\ stat[p] = "pending" /\ to[p] = "superseded"
               /\ (pc[b] = "supersede" /\ CarOf(p) = cur[b]) \/ held[<<b, CarOf(p)>>] = b
BatchRows == \A b \in Batches :
  /\ pc[b] # "done" => \A c \in Cars : stat[<<b, c>>] = "none"
  /\ \A p \in Proposals : held[p] = b => pc[b] \in {"next", "supersede"} /\ (Own(b, p) \/ Older(b, p))
  /\ \A p \in todo[b] : CarOf(p) = cur[b]

GoneRows == status = "gone" => \A p \in Proposals : stat[p] \in {"none", "gone"}

RowInv == BeatRows /\ StopRows /\ PurgeRows /\ SwitchRows /\ BatchRows /\ GoneRows

(* A proposal is its batch and its car. *)
LEMMA Pairs ==
  /\ \A p \in Proposals : BatchOf(p) \in Batches /\ CarOf(p) \in Cars /\ p = <<BatchOf(p), CarOf(p)>>
  /\ \A b \in Batches, c \in Cars : <<b, c>> \in Proposals /\ BatchOf(<<b, c>>) = b /\ CarOf(<<b, c>>) = c
  BY DEF Proposals, BatchOf, CarOf

(* No row is taken, and no batch still to come has one. *)
LEMMA RowsStart == Init => RowInv
<1> SUFFICES ASSUME Init PROVE RowInv
  OBVIOUS
<1>1. \A p \in Proposals : held[p] = NoOne
  BY DEF Init
<1>2. \A b \in Batches : todo[b] = {}
  BY DEF Init
<1>3. \A b \in Batches, c \in Cars : pc[b] # "done" => stat[<<b, c>>] = "none"
  <2>1. PICK D \in SUBSET Batches :
          /\ \E S \in SUBSET (D \X Cars) : stat = [p \in Proposals |-> IF p \in S THEN "pending" ELSE "none"]
          /\ pc = [s \in Sessions |-> IF s \in D THEN "done" ELSE "idle"]
    BY ZenonT(30) DEF Init
  <2>2. PICK S \in SUBSET (D \X Cars) : stat = [p \in Proposals |-> IF p \in S THEN "pending" ELSE "none"]
    BY <2>1
  <2> QED BY <2>1, <2>2, Pairs
<1>4. status = "running"
  BY DEF Init
<1> QED BY <1>1, <1>2, <1>3, <1>4 DEF RowInv, BeatRows, StopRows, PurgeRows, SwitchRows, BatchRows, GoneRows, Purges, AllDoors

(* A statement takes one more row of its list, if what it waits for still matches. *)
LEMMA TakingKeepsRows == ASSUME LockInv, RowInv, NEW s \in Sessions, TakeRow(s) PROVE RowInv'
<1> USE DEF RowInv
<1>1. PICK p \in todo[s] :
        /\ held[p] \in {NoOne, s}
        /\ todo' = [todo EXCEPT ![s] = todo[s] \ {p}]
        /\ IF StillMatches(s, p) THEN held' = [held EXCEPT ![p] = s] /\ to' = [to EXCEPT ![p] = Writes(s)]
                                 ELSE UNCHANGED <<held, to>>
  BY DEF TakeRow, Take
<1>2. UNCHANGED <<status, lock, stat, pc, rest, cur>> /\ pc[s] \in {"enact", "supersede", "dispose", "delete"}
  BY DEF TakeRow
<1>3. p \in Proposals
  BY DEF LockInv, TypeOK
<1> USE <1>2, <1>3 DEF LockInv, TypeOK
<1>4. CASE ~StillMatches(s, p)
  BY <1>1, <1>4, Pairs DEF BeatRows, StopRows, PurgeRows, SwitchRows, BatchRows, GoneRows, Own, Older
<1>5. CASE StillMatches(s, p)
  <2> DEFINE others == \A q \in Proposals : q # p => held'[q] = held[q] /\ to'[q] = to[q]
  <2>1. others /\ held'[p] = s /\ to'[p] = Writes(s)
    BY <1>1, <1>5
  <2> HIDE DEF others
  <2>2. CASE s = Beat
    <3>1. stat[p] = "pending" /\ Writes(s) \in {"enacted", "superseded", "refused"}
      BY <1>1, <1>5, <2>2 DEF StillMatches, Seen, Purges, AllDoors, Writes, BeatRows, Places, Beat
    <3>2. held[p] # Beat => held'[p] = Beat
      BY <2>1, <2>2
    <3>3. \A b \in Batches : held[p] # b
      BY <1>1, <2>2
    <3> QED BY <1>1, <2>1, <2>2, <3>1, <3>3, Pairs
            DEF others, BeatRows, StopRows, PurgeRows, SwitchRows, BatchRows, GoneRows, Own, Older, Places, AllDoors, Purges, Beat
  <2>3. CASE s = "stop"
    <3>1. stat[p] = "pending" /\ Writes(s) = "expired"
      BY <1>1, <1>5, <2>3 DEF StillMatches, Seen, Purges, AllDoors, Writes, StopRows, Beat
    <3> QED BY <1>1, <2>1, <2>3, <3>1, Pairs
            DEF others, BeatRows, StopRows, PurgeRows, SwitchRows, BatchRows, GoneRows, Own, Older, Places, AllDoors, Purges, Beat
  <2>4. CASE s \in Purges
    <3>1. stat[p] # "none" /\ Writes(s) = "gone"
      BY <1>1, <1>5, <2>4 DEF StillMatches, Seen, Purges, AllDoors, Writes, PurgeRows, Beat
    <3> QED BY <1>1, <2>1, <2>4, <3>1, Pairs
            DEF others, BeatRows, StopRows, PurgeRows, SwitchRows, BatchRows, GoneRows, Own, Older, Places, AllDoors, Purges, Beat
  <2>5. CASE s \in Batches
    <3>1. Writes(s) = "superseded" /\ pc[s] = "supersede" /\ CarOf(p) = cur[s] /\ cur[s] \in rest[s]
      BY <2>5 DEF Writes, BatchRows, Places, LocksMean
    <3>2. held[p] = NoOne /\ stat[p] = "pending" /\ BatchOf(p) # s
      <4>1. Seen(s, p) = "pending"
        BY <1>5, <2>5 DEF StillMatches, Purges, AllDoors
      <4>2. held[p] # s
        <5> SUFFICES ASSUME held[p] = s PROVE FALSE
          OBVIOUS
        <5>1. Own(s, p) \/ Older(s, p)
          BY <2>5 DEF BatchRows
        <5>2. to[p] = "pending"
          BY <4>1 DEF Seen
        <5> QED BY <3>1, <5>1, <5>2 DEF Own, Older
      <4>3. stat[p] = "pending"
        BY <4>1, <4>2 DEF Seen
      <4>4. BatchOf(p) # s
        <5>1. stat[<<s, CarOf(p)>>] = "none"
          BY <2>5, <3>1, Pairs DEF BatchRows
        <5> QED BY <4>3, <5>1, Pairs
      <4> QED BY <1>1, <4>2, <4>3, <4>4
    <3>3. BatchRows'
      BY <1>1, <2>1, <2>5, <3>1, <3>2, Pairs DEF others, BatchRows, Own, Older
    <3> QED BY <2>1, <2>5, <3>1, <3>2, <3>3
            DEF others, BeatRows, StopRows, PurgeRows, SwitchRows, GoneRows, AllDoors, Purges, Beat
  <2> QED BY <2>2, <2>3, <2>4, <2>5 DEF Sessions, AllDoors, Purges, Places
<1> QED BY <1>4, <1>5

(* Every session but s stays where it is. *)
OthersStay(s) ==
  /\ \A t \in Sessions \ {s} : pc'[t] = pc[t] /\ lock'[t] = lock[t] /\ todo'[t] = todo[t]
  /\ \A b \in Batches \ {s} : rest'[b] = rest[b] /\ cur'[b] = cur[b]

(* A session that has taken no row, or the beat between two of its UPDATEs, moves on. *)
LEMMA MovesKeepRows ==
  ASSUME LockInv, RowInv, NEW s \in Sessions, OthersStay(s), UNCHANGED rows,
         (\A p \in Proposals : held[p] # s) \/ (s = Beat /\ pc'[Beat] \in {"supersede", "dispose"}),
         s \in Batches => pc[s] # "done" /\ todo'[s] = {},
         status' = "gone" => status = "gone"
  PROVE  RowInv'
<1> USE DEF RowInv, OthersStay, rows
<1>1. BeatRows' /\ StopRows' /\ PurgeRows' /\ SwitchRows' /\ GoneRows'
  BY DEF BeatRows, StopRows, PurgeRows, SwitchRows, GoneRows, AllDoors, Purges
<1>2. BatchRows'
  <2> SUFFICES ASSUME NEW b \in Batches
               PROVE  /\ pc'[b] # "done" => \A c \in Cars : stat'[<<b, c>>] = "none"
                      /\ \A p \in Proposals : held'[p] = b => pc'[b] \in {"next", "supersede"} /\ (Own(b, p) \/ Older(b, p))'
                      /\ \A p \in todo'[b] : CarOf(p) = cur'[b]
    BY DEF BatchRows
  <2>1. CASE b = s
    BY <2>1 DEF BatchRows
  <2>2. CASE b # s
    BY <2>2 DEF BatchRows, Own, Older
  <2> QED BY <2>1, <2>2
<1> QED BY <1>1, <1>2

(* A row that was never inserted is held by its own batch only. *)
LEMMA OnlyItsOwn ==
  ASSUME RowInv, NEW s \in Sessions, NEW p \in Proposals, held[p] = s, stat[p] = "none"
  PROVE  s \in Batches /\ BatchOf(p) = s
<1> USE DEF RowInv
<1>1. s # Beat /\ s # "stop" /\ s \notin Purges /\ s \notin {"pause", "resume"}
  BY DEF BeatRows, StopRows, PurgeRows, SwitchRows
<1>2. s \in Batches
  BY <1>1 DEF Sessions, AllDoors, Purges
<1>3. Own(s, p) \/ Older(s, p)
  BY <1>2 DEF BatchRows
<1> QED BY <1>2, <1>3 DEF Own, Older

(* A session commits or is undone: it lets go of its rows. *)
LEMMA ReleaseKeepsRows ==
  ASSUME LockInv, RowInv, NEW s \in Sessions, OthersStay(s),
         held' = [p \in Proposals |-> IF held[p] = s THEN NoOne ELSE held[p]], UNCHANGED to,
         \A p \in Proposals : held[p] # s => stat'[p] = stat[p],
         s \in Batches => pc'[s] = "done" /\ todo'[s] = {},
         GoneRows'
  PROVE  RowInv'
<1> USE DEF RowInv, OthersStay
<1>1. \A p \in Proposals : /\ held'[p] # s
                           /\ held'[p] # NoOne => held'[p] = held[p] /\ stat'[p] = stat[p] /\ to'[p] = to[p]
                           /\ held[p] # s => held'[p] = held[p]
  OBVIOUS
<1>2. BeatRows' /\ StopRows' /\ PurgeRows' /\ SwitchRows'
  BY <1>1 DEF BeatRows, StopRows, PurgeRows, SwitchRows, AllDoors, Purges
<1>3. BatchRows'
  <2> SUFFICES ASSUME NEW b \in Batches
               PROVE  /\ pc'[b] # "done" => \A c \in Cars : stat'[<<b, c>>] = "none"
                      /\ \A p \in Proposals : held'[p] = b => pc'[b] \in {"next", "supersede"} /\ (Own(b, p) \/ Older(b, p))'
                      /\ \A p \in todo'[b] : CarOf(p) = cur'[b]
    BY DEF BatchRows
  <2>1. CASE b = s
    BY <1>1, <2>1
  <2>2. CASE b # s
    <3>1. ASSUME NEW c \in Cars, pc[b] # "done" PROVE stat'[<<b, c>>] = "none"
      <4>1. stat[<<b, c>>] = "none" /\ <<b, c>> \in Proposals /\ BatchOf(<<b, c>>) = b
        BY <3>1, Pairs DEF BatchRows
      <4> QED BY <2>2, <4>1, OnlyItsOwn
    <3>2. ASSUME NEW p \in Proposals, held'[p] = b PROVE (Own(b, p) \/ Older(b, p))'
      <4>1. held[p] = b /\ stat'[p] = stat[p] /\ to'[p] = to[p] /\ (Own(b, p) \/ Older(b, p))
        BY <1>1, <3>2 DEF BatchRows
      <4>2. held[<<b, CarOf(p)>>] = b => held'[<<b, CarOf(p)>>] = b
        BY <1>1, <2>2, Pairs
      <4> QED BY <2>2, <4>1, <4>2 DEF Own, Older
    <3> QED BY <1>1, <2>2, <3>1, <3>2 DEF BatchRows
  <2> QED BY <2>1, <2>2
<1> QED BY <1>2, <1>3


(* Who has taken no row, by where it is. *)
LEMMA HoldsNothing ==
  ASSUME LockInv, RowInv
  PROVE  /\ pc[Beat] \in {"idle", "lock", "choose", "write", "commit"} => \A p \in Proposals : held[p] # Beat
         /\ pc["stop"] \in {"idle", "lock"} => \A p \in Proposals : held[p] # "stop"
         /\ \A d \in {"pause", "resume"} : \A p \in Proposals : held[p] # d
         /\ \A s \in Purges : pc[s] \in {"idle", "lock"} => \A p \in Proposals : held[p] # s
         /\ \A b \in Batches : pc[b] \in {"idle", "done"} => \A p \in Proposals : held[p] # b
<1> USE DEF RowInv
<1>1. /\ pc[Beat] \in {"idle", "lock", "choose", "write", "commit"} => \A p \in Proposals : held[p] # Beat
      /\ pc["stop"] \in {"idle", "lock"} => \A p \in Proposals : held[p] # "stop"
      /\ \A d \in {"pause", "resume"} : \A p \in Proposals : held[p] # d
  BY DEF BeatRows, StopRows, SwitchRows
<1>2. \A s \in Purges : pc[s] \in {"idle", "lock"} => \A p \in Proposals : held[p] # s
  BY DEF PurgeRows
<1>3. \A b \in Batches : pc[b] \in {"idle", "done"} => \A p \in Proposals : held[p] # b
  BY DEF BatchRows
<1> QED BY <1>1, <1>2, <1>3

(* The row a batch inserts was there for nobody before. *)
LEMMA InsertsANewRow ==
  ASSUME LockInv, RowInv, NEW b \in Batches, BatchInserts(b)
  PROVE  held[<<b, cur[b]>>] = NoOne
<1> DEFINE p0 == <<b, cur[b]>>
<1>1. p0 \in Proposals /\ CarOf(p0) \in rest[b] /\ BatchOf(p0) = b /\ stat[p0] = "none"
  BY Pairs DEF BatchInserts, LockInv, TypeOK, LocksMean, RowInv, BatchRows
<1> HIDE DEF p0
<1> SUFFICES ASSUME held[p0] # NoOne PROVE FALSE
  BY DEF p0
<1>2. held[p0] = b
  BY <1>1, OnlyItsOwn DEF LockInv, TypeOK
<1> QED BY <1>1, <1>2 DEF RowInv, BatchRows, Own, Older

(* A batch finds the older rows of a car, inserts its own, commits or is undone. *)
LEMMA BatchKeepsRows ==
  ASSUME LockInv, RowInv, NEW b \in Batches,
         BatchBegins(b) \/ BatchRow(b) \/ BatchInserts(b) \/ BatchCommits(b) \/ BatchFails(b)
  PROVE  RowInv'
<1> USE DEF Go, Take, rows
<1>1. CASE BatchBegins(b)
  <2>1. OthersStay(b) /\ UNCHANGED rows /\ todo'[b] = {} /\ UNCHANGED status
    BY <1>1 DEF BatchBegins, OthersStay, LockInv, TypeOK, Places
  <2> QED BY <1>1, <2>1, HoldsNothing, MovesKeepRows DEF BatchBegins, LockInv, TypeOK
<1>2. CASE BatchRow(b)
  <2>1. /\ UNCHANGED <<status, lock, rows, rest>> /\ pc[b] = "next" /\ pc' = [pc EXCEPT ![b] = "supersede"]
        /\ \A p \in todo'[b] : CarOf(p) = cur'[b]
        /\ \A c \in Batches \ {b} : todo'[c] = todo[c] /\ cur'[c] = cur[c]
    BY <1>2 DEF BatchRow, LockInv, TypeOK
  <2> USE <2>1 DEF RowInv, LockInv, TypeOK
  <2>2. BeatRows' /\ StopRows' /\ PurgeRows' /\ SwitchRows' /\ GoneRows'
    BY DEF BeatRows, StopRows, PurgeRows, SwitchRows, GoneRows, AllDoors, Purges
  <2>3. BatchRows'
    BY SMTT(30) DEF BatchRows, Own, Older
  <2> QED BY <2>2, <2>3
<1>3. CASE BatchInserts(b)
  <2> DEFINE p0 == <<b, cur[b]>>
  <2>0. /\ p0 \in Proposals /\ BatchOf(p0) = b /\ CarOf(p0) = cur[b] /\ cur[b] \in rest[b]
        /\ pc[b] = "supersede" /\ stat[p0] = "none"
    BY <1>3, Pairs, SMTT(30) DEF BatchInserts, LockInv, TypeOK, LocksMean, RowInv, BatchRows
  <2>1. held[p0] = NoOne
    BY <1>3, InsertsANewRow
  <2>2. /\ held'[p0] = b /\ to'[p0] = "pending" /\ UNCHANGED <<status, stat, cur, todo>>
        /\ \A p \in Proposals : p # p0 => held'[p] = held[p] /\ to'[p] = to[p]
        /\ lock'[b] = "keyshare" /\ pc'[b] = "next" /\ rest'[b] = rest[b] \ {cur[b]} /\ todo[b] = {}
        /\ \A s \in Sessions \ {b} : lock'[s] = lock[s] /\ pc'[s] = pc[s]
        /\ \A c \in Batches \ {b} : rest'[c] = rest[c]
    BY <1>3, <2>0 DEF BatchInserts, LockInv, TypeOK
  <2> HIDE DEF p0
  <2>3. BeatRows' /\ StopRows' /\ PurgeRows' /\ SwitchRows' /\ GoneRows'
    BY <2>0, <2>2 DEF RowInv, BeatRows, StopRows, PurgeRows, SwitchRows, GoneRows, AllDoors, Purges
  <2>4. BatchRows'
    <3> SUFFICES ASSUME NEW c \in Batches
                 PROVE  /\ pc'[c] # "done" => \A x \in Cars : stat'[<<c, x>>] = "none"
                        /\ \A p \in Proposals : held'[p] = c => pc'[c] \in {"next", "supersede"} /\ (Own(c, p) \/ Older(c, p))'
                        /\ \A p \in todo'[c] : CarOf(p) = cur'[c]
      BY DEF BatchRows
    <3>1. CASE c = b
      <4>1. \A x \in Cars : stat'[<<b, x>>] = "none"
        BY <2>0, <2>2 DEF RowInv, BatchRows
      <4>2. ASSUME NEW p \in Proposals, held'[p] = b PROVE (Own(b, p) \/ Older(b, p))'
        <5>1. CASE p = p0
          BY <2>0, <2>2, <5>1 DEF Own
        <5>2. CASE p # p0
          <6>1. held[p] = b /\ to'[p] = to[p] /\ (Own(b, p) \/ Older(b, p))
            BY <2>2, <4>2, <5>2 DEF RowInv, BatchRows
          <6>2. CarOf(p) = cur[b] => held'[<<b, CarOf(p)>>] = b
            BY <2>2 DEF p0
          <6>3. held[<<b, CarOf(p)>>] = b => held'[<<b, CarOf(p)>>] = b
            BY <2>2, Pairs
          <6> QED BY <2>2, <6>1, <6>2, <6>3 DEF Own, Older
        <5> QED BY <5>1, <5>2
      <4> QED BY <2>2, <3>1, <4>1, <4>2
    <3>2. CASE c # b
      <4>1. ASSUME NEW p \in Proposals, held'[p] = c PROVE pc[c] \in {"next", "supersede"} /\ (Own(c, p) \/ Older(c, p))'
        <5>1. p # p0 /\ held[p] = c /\ to'[p] = to[p]
          BY <2>2, <3>2, <4>1
        <5>2. pc[c] \in {"next", "supersede"} /\ (Own(c, p) \/ Older(c, p))
          BY <5>1 DEF RowInv, BatchRows
        <5>3. held[<<c, CarOf(p)>>] = c => held'[<<c, CarOf(p)>>] = c
          BY <2>1, <2>2, Pairs
        <5> QED BY <2>2, <3>2, <5>1, <5>2, <5>3 DEF Own, Older
      <4> QED BY <2>2, <3>2, <4>1 DEF RowInv, BatchRows
    <3> QED BY <3>1, <3>2
  <2> QED BY <2>3, <2>4 DEF RowInv
<1>4. CASE BatchCommits(b)
  <2>1. /\ OthersStay(b) /\ pc'[b] = "done" /\ todo'[b] = {} /\ UNCHANGED <<to, status>>
        /\ held' = [p \in Proposals |-> IF held[p] = b THEN NoOne ELSE held[p]]
        /\ \A p \in Proposals : held[p] # b => stat'[p] = stat[p]
    BY <1>4 DEF BatchCommits, CommitRows, Unlock, OthersStay, LockInv, TypeOK, Places
  <2>2. GoneRows'
    BY <1>4 DEF BatchCommits, LockInv, LocksMean, GoneRows
  <2> QED BY <2>1, <2>2, ReleaseKeepsRows
<1>5. CASE BatchFails(b)
  <2>1. /\ OthersStay(b) /\ pc'[b] = "done" /\ todo'[b] = {} /\ UNCHANGED <<to, status, stat>>
        /\ held' = [p \in Proposals |-> IF held[p] = b THEN NoOne ELSE held[p]]
    BY <1>5 DEF BatchFails, UndoRows, Unlock, OthersStay, LockInv, TypeOK
  <2>2. GoneRows'
    BY <2>1 DEF RowInv, GoneRows
  <2> QED BY <2>1, <2>2, ReleaseKeepsRows
<1> QED BY <1>1, <1>2, <1>3, <1>4, <1>5

(* The beat lists rows for its three UPDATEs, commits or is undone. *)
LEMMA BeatKeepsRows ==
  ASSUME LockInv, RowInv,
         BeatBegins \/ WorldStep \/ Chooses \/ EnactBegins \/ SupersedeBegins \/ DisposeBegins \/ BeatCommits \/ BeatFails
  PROVE  RowInv'
<1> USE DEF Go, Take, rows
<1>1. CASE BeatBegins \/ WorldStep \/ Chooses \/ EnactBegins
  <2>1. OthersStay(Beat) /\ UNCHANGED <<stat, held, to, status>> /\ pc[Beat] \in {"idle", "lock", "choose", "write"}
    BY <1>1 DEF BeatBegins, WorldStep, Chooses, EnactBegins, OthersStay, LockInv, TypeOK
  <2> QED BY <2>1, HoldsNothing, MovesKeepRows
<1>2. CASE SupersedeBegins \/ DisposeBegins
  <2>1. OthersStay(Beat) /\ UNCHANGED <<stat, held, to, status>> /\ pc'[Beat] \in {"supersede", "dispose"}
    BY <1>2 DEF SupersedeBegins, DisposeBegins, OthersStay, LockInv, TypeOK
  <2> QED BY <2>1, MovesKeepRows
<1>3. CASE BeatCommits
  <2>1. /\ OthersStay(Beat) /\ UNCHANGED <<to, status>>
        /\ held' = [p \in Proposals |-> IF held[p] = Beat THEN NoOne ELSE held[p]]
        /\ \A p \in Proposals : held[p] # Beat => stat'[p] = stat[p]
    BY <1>3 DEF BeatCommits, CommitRows, Unlock, OthersStay, LockInv, TypeOK
  <2>2. GoneRows'
    BY <2>1 DEF RowInv, GoneRows, BeatRows
  <2> QED BY <2>1, <2>2, ReleaseKeepsRows
<1>4. CASE BeatFails
  <2>1. /\ OthersStay(Beat) /\ UNCHANGED <<to, status, stat>>
        /\ held' = [p \in Proposals |-> IF held[p] = Beat THEN NoOne ELSE held[p]]
    BY <1>4 DEF BeatFails, UndoRows, OthersStay, LockInv, TypeOK
  <2>2. GoneRows'
    BY <2>1 DEF RowInv, GoneRows
  <2> QED BY <2>1, <2>2, ReleaseKeepsRows
<1> QED BY <1>1, <1>2, <1>3, <1>4

(* The stop lists the pending rows, commits or is undone. *)
LEMMA StopKeepsRows ==
  ASSUME LockInv, RowInv, StopBegins \/ StopLocks \/ StopMarks \/ StopFails
  PROVE  RowInv'
<1> USE DEF Go, Take, rows, AllDoors
<1>1. CASE StopBegins \/ StopLocks
  <2>1. OthersStay("stop") /\ UNCHANGED <<stat, held, to, status>> /\ pc["stop"] \in {"idle", "lock"}
    BY <1>1 DEF StopBegins, StopLocks, Calls, OthersStay, LockInv, TypeOK
  <2> QED BY <2>1, HoldsNothing, MovesKeepRows
<1>2. CASE StopMarks
  <2>1. /\ OthersStay("stop") /\ UNCHANGED to /\ (status' = "gone" => status = "gone")
        /\ held' = [p \in Proposals |-> IF held[p] = "stop" THEN NoOne ELSE held[p]]
        /\ \A p \in Proposals : held[p] # "stop" => stat'[p] = stat[p]
    BY <1>2 DEF StopMarks, CommitRows, Unlock, OthersStay, LockInv, TypeOK
  <2>2. GoneRows'
    BY <2>1 DEF RowInv, GoneRows, StopRows
  <2> QED BY <2>1, <2>2, ReleaseKeepsRows
<1>3. CASE StopFails
  <2>1. /\ OthersStay("stop") /\ UNCHANGED <<to, status, stat>>
        /\ held' = [p \in Proposals |-> IF held[p] = "stop" THEN NoOne ELSE held[p]]
    BY <1>3 DEF StopFails, UndoRows, Unlock, OthersStay, LockInv, TypeOK
  <2>2. GoneRows'
    BY <2>1 DEF RowInv, GoneRows
  <2> QED BY <2>1, <2>2, ReleaseKeepsRows
<1> QED BY <1>1, <1>2, <1>3

(* Pause and resume take no proposal's row. *)
LEMMA SwitchKeepsRows ==
  ASSUME LockInv, RowInv, NEW d \in {"pause", "resume"}, NEW from \in {"running", "paused"}, NEW new \in {"running", "paused"},
         SwitchReads(d, from) \/ SwitchWrites(d, from, new) \/ SwitchFails(d)
  PROVE  RowInv'
<1>1. d \in Sessions /\ d \notin Batches
  BY DEF AllDoors
<1>2. OthersStay(d) /\ UNCHANGED <<stat, held, to>> /\ (status' = "gone" => status = "gone")
  BY <1>1 DEF SwitchReads, SwitchWrites, SwitchFails, Calls, Go, rows, OthersStay, LockInv, TypeOK
<1> QED BY <1>1, <1>2, HoldsNothing, MovesKeepRows DEF rows

(* The purge takes every row and deletes the run, or is undone. *)
LEMMA PurgeKeepsRows ==
  ASSUME LockInv, RowInv, NEW s \in Purges,
         PurgeBegins \/ DemoBegins \/ DemoAborts \/ PurgeDeletesRun(s) \/ PurgeFails(s)
  PROVE  RowInv'
<1> USE DEF Go, Take, rows, AllDoors
<1>0. s \in Sessions /\ s \notin Batches /\ "purge" \in Purges /\ "demo" \in Purges
  BY DEF Purges
<1>1. CASE PurgeBegins
  <2>1. OthersStay("purge") /\ UNCHANGED <<stat, held, to, status>> /\ pc["purge"] = "idle"
    BY <1>1 DEF PurgeBegins, Calls, OthersStay, LockInv, TypeOK
  <2> QED BY <1>0, <2>1, HoldsNothing, MovesKeepRows
<1>2. CASE DemoBegins \/ DemoAborts
  <2>1. OthersStay("demo") /\ UNCHANGED <<stat, held, to, status>> /\ pc["demo"] \in {"idle", "lock"}
    BY <1>2 DEF DemoBegins, DemoAborts, Calls, OthersStay, LockInv, TypeOK
  <2> QED BY <1>0, <2>1, HoldsNothing, MovesKeepRows
<1>3. CASE PurgeRaises(s)
  <2>1. /\ OthersStay(s) /\ UNCHANGED <<to, status, stat>>
        /\ held' = [p \in Proposals |-> IF held[p] = s THEN NoOne ELSE held[p]]
    BY <1>0, <1>3 DEF PurgeRaises, UndoRows, Unlock, OthersStay, LockInv, TypeOK
  <2>2. GoneRows'
    BY <2>1 DEF RowInv, GoneRows
  <2> QED BY <1>0, <2>1, <2>2, ReleaseKeepsRows
<1>4. CASE PurgeDeletesRun(s) /\ Referencing(s) = {}
  <2>1. /\ OthersStay(s) /\ UNCHANGED to
        /\ held' = [p \in Proposals |-> IF held[p] = s THEN NoOne ELSE held[p]]
        /\ stat' = [p \in Proposals |-> IF held[p] = s THEN to[p] ELSE stat[p]]
    BY <1>0, <1>4 DEF PurgeDeletesRun, CommitRows, Unlock, OthersStay, LockInv, TypeOK
  <2>2. GoneRows'
    BY <1>4, <2>1 DEF Referencing, Seen, GoneRows
  <2> QED BY <1>0, <2>1, <2>2, ReleaseKeepsRows
<1>5. CASE PurgeFails(s) /\ ~PurgeRaises(s)
  <2>1. /\ OthersStay(s) /\ UNCHANGED <<to, status, stat>>
        /\ held' = [p \in Proposals |-> IF held[p] = s THEN NoOne ELSE held[p]]
    BY <1>0, <1>5 DEF PurgeFails, UndoRows, OthersStay, LockInv, TypeOK
  <2>2. GoneRows'
    BY <2>1 DEF RowInv, GoneRows
  <2> QED BY <1>0, <2>1, <2>2, ReleaseKeepsRows
<1> QED BY <1>1, <1>2, <1>3, <1>4, <1>5 DEF PurgeDeletesRun

(* The second layer, step by step ... *)
LEMMA NextKeepsRows == ASSUME LockInv, RowInv, [Next]_vars PROVE RowInv'
<1>1. CASE Begins
  BY <1>1, BatchKeepsRows, BeatKeepsRows, StopKeepsRows, SwitchKeepsRows, PurgeKeepsRows DEF Begins, Purges
<1>2. CASE GoesOn
  <2>1. ASSUME NEW b \in Batches, BatchStep(b) PROVE RowInv'
    BY <2>1, BatchKeepsRows DEF BatchStep, BatchFindsNoRun
  <2>2. CASE BeatStep \/ StopStep
    BY <2>2, BeatKeepsRows, StopKeepsRows DEF BeatStep, StopStep
  <2>3. CASE SwitchStep \/ PurgeStep
    BY <2>3, SwitchKeepsRows, PurgeKeepsRows DEF SwitchStep, PurgeStep, Purges
  <2> QED BY <1>2, <2>1, <2>2, <2>3, TakingKeepsRows DEF GoesOn
<1>3. ASSUME NEW s \in Sessions, Loses(s) PROVE RowInv'
  BY <1>3, BatchKeepsRows, BeatKeepsRows, StopKeepsRows, SwitchKeepsRows, PurgeKeepsRows DEF Loses
<1>4. CASE UNCHANGED vars
  BY <1>4 DEF vars, rows, RowInv, BeatRows, StopRows, PurgeRows, SwitchRows, BatchRows, GoneRows, Own, Older
<1> QED BY <1>1, <1>2, <1>3, <1>4 DEF Next

(* ... and in every behaviour. *)
LEMMA RowsAreKept == Spec => [](LockInv /\ RowInv)
<1>1. LockInv /\ RowInv /\ [Next]_vars => RowInv'
  BY NextKeepsRows
<1> QED BY <1>1, LocksStart, LocksAreKept, RowsStart, PTL DEF Spec

-----------------------------------------------------------------------------
(* StopNeverCrosses: the stop of a running run holds the run's row before it takes a proposal's, so the beat *)
(* it could meet has not ticked; and a key check never waits for the mode the stop holds it in.              *)
THEOREM TheStopNeverCrosses == Spec => []StopNeverCrosses
<1>1. LockInv /\ RowInv => StopNeverCrosses
  <2> SUFFICES ASSUME LockInv, RowInv PROVE StopNeverCrosses
    OBVIOUS
  <2> USE DEF AllDoors
  <2>1. StopAndBeatNeverCross
    <3> SUFFICES ASSUME pc["stop"] # "idle", began = "running", Beat \in WaitsOn("stop"), "stop" \in WaitsOn(Beat) PROVE FALSE
      BY DEF StopAndBeatNeverCross
    <3>1. CASE pc["stop"] = "lock"
      <4>1. lock["stop"] = "none" /\ \A p \in Proposals : held[p] # "stop"
        BY <3>1, HoldsNothing DEF LockInv, LocksMean
      <4>2. "stop" \notin Blockers(Beat, Wants(Beat))
        BY <4>1, ConflictTable DEF Blockers
      <4> QED BY <4>1, <4>2 DEF WaitsOn, LockInv, TypeOK
    <3>2. CASE pc["stop"] = "dispose"
      <4>1. lock["stop"] = "nokey" /\ lock[Beat] = "none"
        BY <3>2, ConflictTable DEF LockInv, LocksMean, HeldModes, Exclusive
      <4>2. \A p \in Proposals : held[p] # Beat
        BY <4>1 DEF LockInv, LocksMean, RowInv, BeatRows
      <4>3. Beat \notin Blockers("stop", Wants("stop"))
        BY <4>1, ConflictTable DEF Blockers
      <4> QED BY <4>2, <4>3 DEF WaitsOn, LockInv, TypeOK
    <3> QED BY <3>1, <3>2 DEF LockInv, Places
  <2>2. StopAndKeyCheckNeverCross
    BY ConflictTable DEF StopAndKeyCheckNeverCross, WaitsOn, Blockers, LockInv, HeldModes
  <2> QED BY <2>1, <2>2 DEF StopNeverCrosses, LockInv
<1> QED BY <1>1, RowsAreKept, PTL

-----------------------------------------------------------------------------
(* What the kernel took, from its choice to the commit; every source has one batch. *)
OwnSources == \A b, c \in Batches : Source(b) = Source(c) => b = c

(* A row the beat has given way to a decision of its car. *)
OfATakenCar(p) == \E q \in took : CarOf(p) = CarOf(q)

TookInv ==
  /\ pc[Beat] \in {"idle", "lock", "choose", "commit"} => took = {}
  /\ \A p, q \in took : CarOf(p) = CarOf(q) => p = q
  /\ \A p \in took : stat[p] = "pending"
  /\ pc[Beat] = "enact" => /\ todo[Beat] \subseteq took
                           /\ \A p \in todo[Beat] : held[p] # Beat
                           /\ \A p \in took \ todo[Beat] : held[p] = Beat /\ to[p] = "enacted"
  /\ pc[Beat] = "supersede" => \A p \in todo[Beat] : OfATakenCar(p)
  /\ pc[Beat] \in {"supersede", "dispose"} => \A p \in took : held[p] = Beat /\ to[p] = "enacted"
  /\ \A p \in Proposals : held[p] = Beat /\ to[p] = "enacted" => p \in took
  /\ \A p \in Proposals : held[p] = Beat /\ to[p] = "superseded" => OfATakenCar(p)

(* What a step of any other session leaves as it is. *)
OutOfTheBeat ==
  /\ UNCHANGED <<took, taken>> /\ pc'[Beat] = pc[Beat] /\ todo'[Beat] = todo[Beat]
  /\ lock[Beat] = "update" => UNCHANGED stat
  /\ \A p \in Proposals : /\ held'[p] = Beat <=> held[p] = Beat
                          /\ held[p] = Beat => to'[p] = to[p]
                          /\ stat'[p] = "enacted" => stat[p] = "enacted"
                          /\ stat[p] \in {"enacted", "gone"} => stat'[p] \in {"enacted", "gone"}

(* Another session takes a row the beat does not hold. *)
LEMMA TakingLeavesTheBeat == ASSUME LockInv, RowInv, NEW s \in Sessions \ {Beat}, TakeRow(s) PROVE OutOfTheBeat
  BY DEF TakeRow, Take, OutOfTheBeat, LockInv, TypeOK

(* A batch commits against no beat's lock: it holds the run's row for its key check. *)
LEMMA BatchLeavesTheBeat ==
  ASSUME LockInv, RowInv, NEW b \in Batches,
         BatchBegins(b) \/ BatchRow(b) \/ BatchInserts(b) \/ BatchCommits(b) \/ BatchFails(b)
  PROVE  OutOfTheBeat
<1> USE DEF OutOfTheBeat, Go, Take, rows
<1>1. CASE BatchBegins(b) \/ BatchRow(b)
  BY <1>1 DEF BatchBegins, BatchRow, LockInv, TypeOK
<1>2. CASE BatchInserts(b)
  BY <1>2, InsertsANewRow DEF BatchInserts, LockInv, TypeOK
<1>3. CASE BatchCommits(b)
  <2>1. lock[Beat] # "update"
    BY <1>3, ConflictTable DEF BatchCommits, LockInv, LocksMean, Exclusive
  <2>2. ASSUME NEW p \in Proposals, held[p] = b PROVE to[p] \in {"pending", "superseded"} /\ stat[p] \in {"none", "pending"}
    <3>1. Own(b, p) \/ Older(b, p)
      BY <2>2 DEF RowInv, BatchRows
    <3>2. stat[<<b, CarOf(p)>>] = "none"
      BY <1>3, Pairs DEF BatchCommits, RowInv, BatchRows
    <3> QED BY <3>1, <3>2, Pairs DEF Own, Older
  <2> QED BY <1>3, <2>1, <2>2 DEF BatchCommits, CommitRows, LockInv, TypeOK
<1>4. CASE BatchFails(b)
  BY <1>4 DEF BatchFails, UndoRows, LockInv, TypeOK
<1> QED BY <1>1, <1>2, <1>3, <1>4

(* So do the stop and the purge: they write or delete the run's row. *)
LEMMA DoorsLeaveTheBeat ==
  ASSUME LockInv, RowInv,
         \/ StopBegins \/ StopLocks \/ StopMarks \/ StopFails
         \/ PurgeBegins \/ DemoBegins \/ DemoAborts \/ \E s \in Purges : PurgeDeletesRun(s) \/ PurgeFails(s)
         \/ \E d \in {"pause", "resume"}, from, new \in {"running", "paused"} :
              SwitchReads(d, from) \/ SwitchWrites(d, from, new) \/ SwitchFails(d)
  PROVE  OutOfTheBeat
<1> USE DEF OutOfTheBeat, Go, Take, rows, AllDoors
<1>1. CASE StopBegins \/ StopLocks \/ PurgeBegins \/ DemoBegins \/ DemoAborts
  BY <1>1 DEF StopBegins, StopLocks, PurgeBegins, DemoBegins, DemoAborts, Calls, LockInv, TypeOK
<1>2. CASE StopMarks
  <2>1. lock[Beat] # "update"
    BY <1>2, NobodyElse DEF StopMarks, LockInv, LocksMean
  <2> QED BY <1>2, <2>1 DEF StopMarks, CommitRows, LockInv, TypeOK, RowInv, StopRows
<1>3. CASE StopFails
  BY <1>3 DEF StopFails, UndoRows, LockInv, TypeOK
<1>4. ASSUME NEW s \in Purges, PurgeRaises(s) PROVE OutOfTheBeat
  BY <1>4 DEF PurgeRaises, UndoRows, Purges, LockInv, TypeOK
<1>5. ASSUME NEW s \in Purges, PurgeDeletesRun(s), Referencing(s) = {} PROVE OutOfTheBeat
  <2>1. lock[Beat] # "update"
    BY <1>5, NobodyElse DEF PurgeDeletesRun, Purges
  <2> QED BY <1>5, <2>1 DEF PurgeDeletesRun, CommitRows, Purges, LockInv, TypeOK, RowInv, PurgeRows
<1>6. ASSUME NEW s \in Purges, PurgeFails(s), ~PurgeRaises(s) PROVE OutOfTheBeat
  BY <1>6 DEF PurgeFails, UndoRows, Purges, LockInv, TypeOK
<1>7. ASSUME NEW d \in {"pause", "resume"}, NEW from \in {"running", "paused"}, NEW new \in {"running", "paused"},
             SwitchReads(d, from) \/ SwitchWrites(d, from, new) \/ SwitchFails(d)
      PROVE  OutOfTheBeat
  BY <1>7 DEF SwitchReads, SwitchWrites, SwitchFails, Calls, LockInv, TypeOK
<1> QED BY <1>1, <1>2, <1>3, <1>4, <1>5, <1>6, <1>7 DEF PurgeDeletesRun

(* ... so the third layer is the beat's alone to break. *)
LEMMA OutOfTheBeatKeeps ==
  ASSUME LockInv, RowInv, TookInv, EnactedIsTaken, OutOfTheBeat
  PROVE  TookInv' /\ EnactedIsTaken'
<1> USE DEF LockInv, TypeOK, OutOfTheBeat
<1>1. took # {} => lock[Beat] = "update"
  BY DEF TookInv, Places, LocksMean
<1>2. TookInv'
  BY <1>1 DEF TookInv, OfATakenCar
<1>3. EnactedIsTaken'
  BY DEF EnactedIsTaken
<1> QED BY <1>2, <1>3

(* The beat marks a proposal: in the first UPDATE one the kernel took, in the others one it did not. *)
LEMMA BeatTakesARow ==
  ASSUME OwnSources, LockInv, RowInv, TookInv, EnactedIsTaken, TakeRow(Beat)
  PROVE  TookInv' /\ EnactedIsTaken'
<1> USE DEF LockInv, TypeOK
<1>1. PICK p \in todo[Beat] :
        /\ held[p] \in {NoOne, Beat}
        /\ todo' = [todo EXCEPT ![Beat] = todo[Beat] \ {p}]
        /\ IF StillMatches(Beat, p) THEN held' = [held EXCEPT ![p] = Beat] /\ to' = [to EXCEPT ![p] = Writes(Beat)]
                                    ELSE UNCHANGED <<held, to>>
  BY DEF TakeRow, Take
<1>2. UNCHANGED <<stat, pc, took, taken>> /\ p \in Proposals /\ pc[Beat] \in {"enact", "supersede", "dispose"}
  BY DEF TakeRow, Places
<1>3. EnactedIsTaken'
  BY <1>2 DEF EnactedIsTaken
<1>4. StillMatches(Beat, p) <=> Seen(Beat, p) = "pending"
  BY DEF StillMatches, Purges, AllDoors
<1>5. CASE pc[Beat] = "enact"
  <2>1. p \in took /\ held[p] # Beat /\ stat[p] = "pending" /\ StillMatches(Beat, p) /\ Writes(Beat) = "enacted"
    <3>1. p \in took /\ held[p] # Beat /\ stat[p] = "pending"
      BY <1>1, <1>5 DEF TookInv
    <3> QED BY <1>4, <1>5, <3>1 DEF Seen, Writes, Beat
  <2>2. held'[p] = Beat /\ to'[p] = "enacted" /\ \A q \in Proposals \ {p} : held'[q] = held[q] /\ to'[q] = to[q]
    BY <1>1, <1>2, <2>1
  <2> QED BY <1>1, <1>2, <1>3, <1>5, <2>1, <2>2 DEF TookInv, OfATakenCar
<1>6. CASE pc[Beat] # "enact" /\ StillMatches(Beat, p)
  <2>1. p \notin took
    BY <1>2, <1>4, <1>6 DEF TookInv, Seen
  <2>2. Writes(Beat) = IF pc[Beat] = "supersede" THEN "superseded" ELSE "refused"
    BY <1>2, <1>6 DEF Writes, Beat
  <2>3. held'[p] = Beat /\ to'[p] = Writes(Beat) /\ \A q \in Proposals \ {p} : held'[q] = held[q] /\ to'[q] = to[q]
    BY <1>1, <1>2, <1>6
  <2>4. pc[Beat] = "supersede" => OfATakenCar(p)
    BY DEF TookInv
  <2> QED BY <1>1, <1>2, <1>3, <1>6, <2>1, <2>2, <2>3, <2>4 DEF TookInv, OfATakenCar
<1>7. CASE ~StillMatches(Beat, p)
  <2>1. pc[Beat] # "enact"
    BY <1>1, <1>4, <1>7 DEF TookInv, Seen
  <2> QED BY <1>1, <1>2, <1>3, <1>7, <2>1 DEF TookInv, OfATakenCar
<1> QED BY <1>5, <1>6, <1>7

(* The kernel chooses, the first UPDATE lists what it chose, and the commit shows it. *)
LEMMA BeatKeepsTook ==
  ASSUME OwnSources, LockInv, RowInv, TookInv, EnactedIsTaken,
         BeatBegins \/ WorldStep \/ Chooses \/ EnactBegins \/ SupersedeBegins \/ DisposeBegins \/ BeatCommits \/ BeatFails
  PROVE  TookInv' /\ EnactedIsTaken'
<1> USE DEF Go, Take, rows, LockInv, TypeOK
<1>1. CASE BeatBegins \/ WorldStep
  BY <1>1 DEF BeatBegins, WorldStep, TookInv, OfATakenCar, EnactedIsTaken
<1>2. CASE Chooses
  <2>1. PICK T \in SUBSET SeenPending(Beat) : (\A p, q \in T : CarOf(p) = CarOf(q) => p = q) /\ took' = T
    BY <1>2 DEF Chooses
  <2>2. \A p \in Proposals : held[p] # Beat
    BY <1>2, HoldsNothing DEF Chooses
  <2>3. \A p \in T : p \in Proposals /\ stat[p] = "pending"
    BY <2>2 DEF SeenPending, Seen
  <2>4. UNCHANGED <<rows, taken>> /\ pc'[Beat] = "write"
    BY <1>2 DEF Chooses
  <2> QED BY <2>1, <2>2, <2>3, <2>4 DEF TookInv, OfATakenCar, EnactedIsTaken
<1>3. CASE EnactBegins
  <2>1. \A p \in Proposals : held[p] # Beat
    BY <1>3, HoldsNothing DEF EnactBegins
  <2>2. \A p, q \in Proposals : SourceOf(p) = SourceOf(q) /\ CarOf(p) = CarOf(q) => p = q
    BY Pairs DEF OwnSources, SourceOf, BatchOf
  <2>3. UNCHANGED <<rows, took, taken>> /\ pc'[Beat] = "enact"
        /\ todo'[Beat] = {p \in SeenPending(Beat) : \E q \in took : CarOf(p) = CarOf(q) /\ SourceOf(p) = SourceOf(q)}
    BY <1>3 DEF EnactBegins
  <2>4. todo'[Beat] = took
    BY <2>1, <2>2, <2>3 DEF SeenPending, Seen, TookInv
  <2> QED BY <2>1, <2>3, <2>4 DEF TookInv, OfATakenCar, EnactedIsTaken
<1>4. CASE SupersedeBegins
  BY <1>4 DEF SupersedeBegins, TookInv, OfATakenCar, EnactedIsTaken
<1>5. CASE DisposeBegins
  BY <1>5 DEF DisposeBegins, TookInv, OfATakenCar, EnactedIsTaken
<1>6. CASE BeatCommits
  <2>1. /\ stat' = [p \in Proposals |-> IF held[p] = Beat THEN to[p] ELSE stat[p]]
        /\ held' = [p \in Proposals |-> IF held[p] = Beat THEN NoOne ELSE held[p]]
        /\ UNCHANGED to /\ took' = {} /\ taken' = taken \cup took /\ pc'[Beat] = "idle"
    BY <1>6 DEF BeatCommits, CommitRows
  <2>2. TookInv'
    BY <2>1 DEF TookInv, OfATakenCar
  <2>3. \A p \in took : held[p] = Beat /\ to[p] = "enacted"
    BY <1>6 DEF BeatCommits, TookInv
  <2>4. \A p \in taken : held[p] # Beat
    BY DEF EnactedIsTaken, RowInv, BeatRows
  <2>5. EnactedIsTaken'
    BY <2>1, <2>3, <2>4 DEF EnactedIsTaken, TookInv
  <2> QED BY <2>2, <2>5
<1>7. CASE BeatFails
  <2>1. /\ held' = [p \in Proposals |-> IF held[p] = Beat THEN NoOne ELSE held[p]]
        /\ UNCHANGED <<stat, to, taken>> /\ took' = {} /\ pc'[Beat] \in {"idle", "commit"}
    BY <1>7 DEF BeatFails, UndoRows
  <2>2. TookInv'
    BY <2>1 DEF TookInv, OfATakenCar
  <2> QED BY <2>1, <2>2 DEF EnactedIsTaken
<1> QED BY <1>1, <1>2, <1>3, <1>4, <1>5, <1>6, <1>7

(* The third layer, step by step ... *)
LEMMA NextKeepsTook ==
  ASSUME OwnSources, LockInv, RowInv, TookInv, EnactedIsTaken, [Next]_vars
  PROVE  TookInv' /\ EnactedIsTaken'
<1>1. CASE Begins
  BY <1>1, BeatKeepsTook, BatchLeavesTheBeat, DoorsLeaveTheBeat, OutOfTheBeatKeeps DEF Begins
<1>2. CASE GoesOn
  <2>1. ASSUME NEW s \in Sessions, TakeRow(s) PROVE TookInv' /\ EnactedIsTaken'
    BY <2>1, BeatTakesARow, TakingLeavesTheBeat, OutOfTheBeatKeeps
  <2>2. ASSUME NEW b \in Batches, BatchStep(b) PROVE TookInv' /\ EnactedIsTaken'
    BY <2>2, BatchLeavesTheBeat, OutOfTheBeatKeeps DEF BatchStep, BatchFindsNoRun
  <2>3. CASE BeatStep
    BY <2>3, BeatKeepsTook DEF BeatStep
  <2>4. CASE StopStep \/ SwitchStep \/ PurgeStep
    BY <2>4, DoorsLeaveTheBeat, OutOfTheBeatKeeps DEF StopStep, SwitchStep, PurgeStep
  <2> QED BY <1>2, <2>1, <2>2, <2>3, <2>4 DEF GoesOn
<1>3. ASSUME NEW s \in Sessions, Loses(s) PROVE TookInv' /\ EnactedIsTaken'
  BY <1>3, BeatKeepsTook, BatchLeavesTheBeat, DoorsLeaveTheBeat, OutOfTheBeatKeeps DEF Loses
<1>4. CASE UNCHANGED vars
  BY <1>4 DEF vars, rows, TookInv, OfATakenCar, EnactedIsTaken
<1> QED BY <1>1, <1>2, <1>3, <1>4 DEF Next

(* Nothing was taken before the first beat. *)
LEMMA TookStart == Init => TookInv /\ EnactedIsTaken
<1> SUFFICES ASSUME Init PROVE TookInv /\ EnactedIsTaken
  OBVIOUS
<1>1. \A p \in Proposals : stat[p] # "enacted" /\ held[p] # Beat
  BY DEF Init
<1>2. pc[Beat] = "idle" /\ took = {} /\ taken = {}
  BY DEF Init
<1> QED BY <1>1, <1>2 DEF TookInv, EnactedIsTaken

(* ... and the three together. *)
LEMMA RunInvariant == ASSUME OwnSources PROVE Spec => [](LockInv /\ RowInv /\ TookInv /\ EnactedIsTaken)
<1>1. LockInv /\ RowInv /\ TookInv /\ EnactedIsTaken /\ [Next]_vars => TookInv' /\ EnactedIsTaken'
  BY NextKeepsTook
<1> QED BY <1>1, TookStart, RowsAreKept, PTL DEF Spec

(* EnactedIsTaken: the beat's lock keeps every other session from committing between the choice and the      *)
(* beat's own commit, so its UPDATE by car and source meets exactly the rows the kernel took.                *)
THEOREM WhatIsEnactedWasTaken == ASSUME OwnSources PROVE Spec => []EnactedIsTaken
BY RunInvariant, PTL

-----------------------------------------------------------------------------
(* The commits of the sessions, one by one, as calls of the ledger. *)
LEMMA BatchIsASubmission ==
  ASSUME LockInv, RowInv, NEW b \in Batches, BatchCommits(b)
  PROVE  Ledger!Submit
<1> USE DEF LockInv, TypeOK
<1> DEFINE new == {p \in Proposals : held[p] = b /\ BatchOf(p) = b}
           old == {p \in Proposals : held[p] = b /\ BatchOf(p) # b}
<1>1. \A p \in Proposals : held[p] = b =>
        \/ BatchOf(p) = b /\ stat[p] = "none" /\ to[p] = "pending"
        \/ BatchOf(p) # b /\ stat[p] = "pending" /\ to[p] = "superseded" /\ held[<<b, CarOf(p)>>] = b
  <2> SUFFICES ASSUME NEW p \in Proposals, held[p] = b
               PROVE  \/ BatchOf(p) = b /\ stat[p] = "none" /\ to[p] = "pending"
                      \/ BatchOf(p) # b /\ stat[p] = "pending" /\ to[p] = "superseded" /\ held[<<b, CarOf(p)>>] = b
    OBVIOUS
  <2>1. (Own(b, p) \/ Older(b, p)) /\ pc[b] = "next" /\ stat[<<b, CarOf(p)>>] = "none"
    BY Pairs DEF BatchCommits, RowInv, BatchRows
  <2> QED BY <2>1, Pairs DEF Own, Older
<1>2. status # "gone" /\ UNCHANGED <<status, ticks>>
  BY DEF BatchCommits, LocksMean
<1>3. new \in SUBSET {p \in Proposals : stat[p] = "none"} /\ old \in SUBSET Ledger!Pending
  BY <1>1 DEF Ledger!Pending
<1>4. \A p \in old : \E q \in new : CarOf(p) = CarOf(q)
  <2> SUFFICES ASSUME NEW p \in old PROVE <<b, CarOf(p)>> \in new /\ CarOf(<<b, CarOf(p)>>) = CarOf(p)
    OBVIOUS
  <2> QED BY <1>1, Pairs
<1>5. stat' = Ledger!Marked(Ledger!Marked(stat, new, "pending"), old, "superseded")
  <2>1. stat' = [p \in Proposals |-> IF held[p] = b THEN to[p] ELSE stat[p]]
    BY DEF BatchCommits, CommitRows
  <2> QED BY <1>1, <2>1 DEF Ledger!Marked
<1> HIDE DEF new, old
<1> QED BY <1>2, <1>3, <1>4, <1>5 DEF Ledger!Submit

(* A beat that ticked is the ledger's beat; one that did not shows nothing. *)
LEMMA BeatIsABeat ==
  ASSUME LockInv, RowInv, TookInv, BeatCommits
  PROVE  [Ledger!Next]_(Ledger!vars)
<1> USE DEF LockInv, TypeOK
<1>1. stat' = [p \in Proposals |-> IF held[p] = Beat THEN to[p] ELSE stat[p]] /\ UNCHANGED status
  BY DEF BeatCommits, CommitRows
<1>2. CASE lock[Beat] = "none"
  <2>1. \A p \in Proposals : held[p] # Beat
    BY <1>2, HoldsNothing DEF BeatCommits, LocksMean
  <2>2. stat' = stat
    BY <1>1, <2>1
  <2> QED BY <1>1, <1>2, <2>2 DEF BeatCommits, Ledger!vars
<1>3. CASE lock[Beat] = "update"
  <2> DEFINE enacted == {p \in Proposals : held[p] = Beat /\ to[p] = "enacted"}
             other == {p \in Proposals : held[p] = Beat /\ to[p] = "superseded"}
             refused == {p \in Proposals : held[p] = Beat /\ to[p] = "refused"}
  <2>1. \A p \in Proposals : held[p] = Beat => stat[p] = "pending" /\ to[p] \in {"enacted", "superseded", "refused"}
    BY DEF RowInv, BeatRows
  <2>2. status = "running" /\ ticks' = ticks + 1
    BY <1>3 DEF BeatCommits, LocksMean
  <2>3. enacted \in SUBSET Ledger!Pending /\ refused \in SUBSET (Ledger!Pending \ (enacted \cup other))
    BY <2>1 DEF Ledger!Pending
  <2>4. \A p, q \in enacted : CarOf(p) = CarOf(q) => p = q
    BY DEF TookInv
  <2>5. other \in SUBSET {p \in Ledger!Pending \ enacted : \E q \in enacted : CarOf(p) = CarOf(q)}
    <3> SUFFICES ASSUME NEW p \in other PROVE p \in Ledger!Pending \ enacted /\ \E q \in enacted : CarOf(p) = CarOf(q)
      OBVIOUS
    <3>1. PICK q \in took : CarOf(p) = CarOf(q)
      BY DEF TookInv, OfATakenCar
    <3>2. pc[Beat] = "dispose"
      BY <3>1 DEF BeatCommits, TookInv
    <3>3. q \in enacted
      BY <3>1, <3>2 DEF TookInv
    <3> QED BY <2>1, <3>1, <3>3 DEF Ledger!Pending
  <2>6. stat' = Ledger!Marked(Ledger!Marked(Ledger!Marked(stat, enacted, "enacted"), other, "superseded"), refused, "refused")
    BY <1>1, <2>1 DEF Ledger!Marked
  <2> HIDE DEF enacted, other, refused
  <2>7. Ledger!Beat
    BY <1>1, <2>2, <2>3, <2>4, <2>5, <2>6 DEF Ledger!Beat
  <2> QED BY <2>7 DEF Ledger!Next
<1> QED BY <1>2, <1>3 DEF HeldModes

(* A stop's commit; of a run that is gone it shows nothing. *)
LEMMA StopIsAStop ==
  ASSUME LockInv, RowInv, StopMarks
  PROVE  [Ledger!Next]_(Ledger!vars)
<1> USE DEF LockInv, TypeOK
<1>1. stat' = [p \in Proposals |-> IF held[p] = "stop" THEN to[p] ELSE stat[p]] /\ UNCHANGED ticks
  BY DEF StopMarks, CommitRows
<1>2. \A p \in Proposals : held[p] = "stop" => stat[p] = "pending" /\ to[p] = "expired"
  BY DEF RowInv, StopRows
<1>3. CASE status = "gone"
  <2>1. \A p \in Proposals : held[p] # "stop"
    BY <1>2, <1>3 DEF RowInv, GoneRows
  <2> QED BY <1>1, <1>3, <2>1 DEF StopMarks, Ledger!vars
<1>4. CASE status # "gone"
  <2> DEFINE S == {p \in Proposals : held[p] = "stop"}
  <2>1. S \in SUBSET Ledger!Pending /\ stat' = Ledger!Marked(stat, S, "expired")
    BY <1>1, <1>2 DEF Ledger!Pending, Ledger!Marked
  <2> HIDE DEF S
  <2>2. status' = IF status \in {"running", "paused"} THEN "completed" ELSE status
    BY DEF StopMarks
  <2> QED BY <1>1, <1>4, <2>1, <2>2 DEF Ledger!Stop, Ledger!Next
<1> QED BY <1>3, <1>4

(* A purge's commit; a second purge of the same run shows nothing. *)
LEMMA PurgeIsAPurge ==
  ASSUME LockInv, RowInv, NEW s \in Purges, PurgeDeletesRun(s)
  PROVE  [Ledger!Next]_(Ledger!vars)
<1> USE DEF LockInv, TypeOK
<1>1. CASE Referencing(s) # {}
  BY <1>1 DEF PurgeDeletesRun, PurgeRaises, UndoRows, Ledger!vars
<1>2. CASE Referencing(s) = {}
  <2>1. stat' = [p \in Proposals |-> IF held[p] = s THEN to[p] ELSE stat[p]] /\ status' = "gone" /\ UNCHANGED ticks
    BY <1>2 DEF PurgeDeletesRun, CommitRows
  <2>2. \A p \in Proposals : IF held[p] = s THEN stat[p] # "none" /\ to[p] = "gone" ELSE stat[p] \in {"none", "gone"}
    BY <1>2 DEF RowInv, PurgeRows, Referencing, Seen
  <2>3. CASE status = "gone"
    <3>1. stat' = stat
      BY <2>1, <2>2, <2>3 DEF RowInv, GoneRows
    <3> QED BY <2>1, <2>3, <3>1 DEF Ledger!vars
  <2>4. CASE status # "gone"
    <3>1. stat' = [p \in Proposals |-> IF stat[p] = "none" THEN "none" ELSE "gone"]
      BY <2>1, <2>2
    <3> QED BY <2>1, <2>4, <3>1 DEF Ledger!Purge, Ledger!Next
  <2> QED BY <2>3, <2>4
<1> QED BY <1>1, <1>2

(* Every step but a commit, a pause and a resume shows nothing. *)
LEMMA StepsAreTheLedgers ==
  ASSUME LockInv, RowInv, TookInv, [Next]_vars
  PROVE  [Ledger!Next]_(Ledger!vars)
<1> USE DEF rows
<1>1. CASE Begins
  BY <1>1 DEF Begins, BatchBegins, BeatBegins, StopBegins, PurgeBegins, DemoBegins, SwitchReads, Ledger!vars
<1>2. CASE GoesOn
  <2>1. ASSUME NEW s \in Sessions, TakeRow(s) PROVE [Ledger!Next]_(Ledger!vars)
    BY <2>1 DEF TakeRow, Ledger!vars
  <2>2. ASSUME NEW b \in Batches, BatchStep(b) PROVE [Ledger!Next]_(Ledger!vars)
    BY <2>2, BatchIsASubmission
       DEF BatchStep, BatchRow, BatchInserts, BatchFindsNoRun, BatchFails, UndoRows, Ledger!vars, Ledger!Next
  <2>3. CASE BeatStep
    BY <2>3, BeatIsABeat DEF BeatStep, WorldStep, Chooses, EnactBegins, SupersedeBegins, DisposeBegins, Ledger!vars
  <2>4. CASE StopStep
    BY <2>4, StopIsAStop DEF StopStep, StopLocks, Ledger!vars
  <2>5. CASE SwitchStep
    BY <2>5 DEF SwitchStep, SwitchWrites, Ledger!vars, Ledger!Next, Ledger!Pause, Ledger!Resume
  <2>6. CASE PurgeStep
    BY <2>6, PurgeIsAPurge DEF PurgeStep, DemoAborts, Ledger!vars
  <2> QED BY <1>2, <2>1, <2>2, <2>3, <2>4, <2>5, <2>6 DEF GoesOn
<1>3. ASSUME NEW s \in Sessions, Loses(s) PROVE [Ledger!Next]_(Ledger!vars)
  BY <1>3 DEF Loses, BatchFails, BeatFails, StopFails, SwitchFails, PurgeFails, PurgeRaises, UndoRows, Ledger!vars
<1>4. CASE UNCHANGED vars
  BY <1>4 DEF vars, Ledger!vars
<1> QED BY <1>1, <1>2, <1>3, <1>4 DEF Next

(* ImplementsLedger: only a commit shows, and each commit is one call of the ledger, taking effect at once.  *)
THEOREM RunsImplementTheLedger == ASSUME OwnSources PROVE Spec => ImplementsLedger
<1>1. Init => Ledger!Init
  <2> SUFFICES ASSUME Init PROVE Ledger!Init
    OBVIOUS
  <2>1. PICK D \in SUBSET Batches : \E S \in SUBSET (D \X Cars) :
          stat = [p \in Proposals |-> IF p \in S THEN "pending" ELSE "none"]
    BY ZenonT(60) DEF Init
  <2>2. PICK S \in SUBSET (D \X Cars) : stat = [p \in Proposals |-> IF p \in S THEN "pending" ELSE "none"]
    BY <2>1
  <2>3. S \in SUBSET Proposals
    BY DEF Proposals
  <2> QED BY <2>2, <2>3 DEF Init, Ledger!Init
<1>2. LockInv /\ RowInv /\ TookInv /\ [Next]_vars => [Ledger!Next]_(Ledger!vars)
  BY StepsAreTheLedgers
<1> QED BY <1>1, <1>2, RunInvariant, PTL DEF ImplementsLedger, Spec, Ledger!Spec

=============================================================================
