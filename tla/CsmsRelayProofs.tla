--------------------------- MODULE CsmsRelayProofs ---------------------------
(***************************************************************************)
(* What the relay loop guarantees for every set of stations, every page     *)
(* size and every number of rows and faults. The proofs rest on IInv, the   *)
(* inductive invariant of CsmsRelay.                                        *)
(***************************************************************************)
EXTENDS CsmsRelay, SequenceTheorems, TLAPS

-----------------------------------------------------------------------------
(* A report's span. *)
LEMMA SpanType == \A r \in Report : r.from \in Nat /\ r.to \in Nat
BY DEF Report

(* A sequence grown by an element of its type keeps the type. *)
LEMMA AppendType ==
  \A S : \A q \in Seq(S), e \in S : Append(q, e) \in Seq(S)
OBVIOUS

(* Three facts about a sequence of spans that tile (lo, hi]. *)

(* Keeping the last report a second time leaves the tiling as it is. *)
LEMMA TileRepeat ==
  ASSUME NEW a \in Seq(Report), NEW lo \in Int, NEW hi \in Int, a # <<>>, Tile(a, lo, hi)
  PROVE  Tile(Append(a, a[Len(a)]), lo, hi)
<1> DEFINE n == Len(a)
           b == Append(a, a[n])
<1>1. n \in Nat /\ n > 0 /\ a[n] \in Report
  OBVIOUS
<1>2. Len(b) = n + 1 /\ b # <<>> /\ b[n + 1] = a[n] /\ \A i \in 1..n : b[i] = a[i]
  BY <1>1
<1> HIDE DEF n, b
<1>3. \A i \in 1..n : lo < a[i].from /\ a[i].from <= a[i].to /\ a[i].to <= hi
  BY DEF Tile, n
<1>4. \A i \in 1..(n - 1) : a[i + 1] = a[i] \/ a[i + 1].from = a[i].to + 1
  BY DEF Tile, n
<1>5. a[1].from = lo + 1 /\ a[n].to = hi
  BY DEF Tile, n
<1>6. \A i \in 1..Len(b) : lo < b[i].from /\ b[i].from <= b[i].to /\ b[i].to <= hi
  BY <1>1, <1>2, <1>3
<1>7. \A i \in 1..(Len(b) - 1) : b[i + 1] = b[i] \/ b[i + 1].from = b[i].to + 1
  <2> SUFFICES ASSUME NEW i \in 1..n PROVE b[i + 1] = b[i] \/ b[i + 1].from = b[i].to + 1
    BY <1>1, <1>2
  <2>1. CASE i = n
    BY <2>1, <1>1, <1>2
  <2>2. CASE i # n
    <3>1. i \in 1..(n - 1) /\ i + 1 \in 1..n
      BY <2>2, <1>1
    <3> QED BY <3>1, <1>2, <1>4
  <2> QED BY <2>1, <2>2
<1>8. b[1].from = lo + 1 /\ b[Len(b)].to = hi
  BY <1>1, <1>2, <1>5
<1>9. Tile(b, lo, hi)
  BY <1>2, <1>6, <1>7, <1>8 DEF Tile
<1> QED BY <1>9 DEF b, n

(* Forgetting the second of two equal last reports does too. *)
LEMMA TileForget ==
  ASSUME NEW a \in Seq(Report), NEW lo \in Int, NEW hi \in Int, a # <<>>,
         Tile(Append(a, a[Len(a)]), lo, hi)
  PROVE  Tile(a, lo, hi)
<1> DEFINE n == Len(a)
           b == Append(a, a[n])
<1>1. n \in Nat /\ n > 0 /\ a[n] \in Report
  OBVIOUS
<1>2. Len(b) = n + 1 /\ b # <<>> /\ b[n + 1] = a[n] /\ \A i \in 1..n : b[i] = a[i]
  BY <1>1
<1>3. Tile(b, lo, hi)
  OBVIOUS
<1> HIDE DEF n, b
<1>4. \A i \in 1..(n + 1) : lo < b[i].from /\ b[i].from <= b[i].to /\ b[i].to <= hi
  BY <1>2, <1>3 DEF Tile
<1>5. \A i \in 1..n : b[i + 1] = b[i] \/ b[i + 1].from = b[i].to + 1
  BY <1>1, <1>2, <1>3 DEF Tile
<1>6. b[1].from = lo + 1 /\ b[n + 1].to = hi
  BY <1>2, <1>3 DEF Tile
<1>7. \A i \in 1..n : lo < a[i].from /\ a[i].from <= a[i].to /\ a[i].to <= hi
  BY <1>1, <1>2, <1>4
<1>8. \A i \in 1..(n - 1) : a[i + 1] = a[i] \/ a[i + 1].from = a[i].to + 1
  <2> SUFFICES ASSUME NEW i \in 1..(n - 1) PROVE a[i + 1] = a[i] \/ a[i + 1].from = a[i].to + 1
    OBVIOUS
  <2>1. i \in 1..n /\ i + 1 \in 1..n
    BY <1>1
  <2> QED BY <2>1, <1>2, <1>5
<1>9. a[1].from = lo + 1 /\ a[n].to = hi
  BY <1>1, <1>2, <1>6
<1> QED BY <1>7, <1>8, <1>9 DEF Tile, n

(* A report that begins where the cursor was extends it to the new cursor. *)
LEMMA TileExtend ==
  ASSUME NEW a \in Seq(Report), NEW lo \in Int, NEW hi \in Int, NEW r \in Report,
         Tile(a, lo, hi), lo <= hi, r.from = hi + 1, r.from <= r.to
  PROVE  Tile(Append(a, r), lo, r.to)
<1> DEFINE n == Len(a)
           b == Append(a, r)
<1>1. n \in Nat /\ r.from \in Nat /\ r.to \in Nat
  BY SpanType
<1>2. Len(b) = n + 1 /\ b # <<>> /\ b[n + 1] = r /\ \A i \in 1..n : b[i] = a[i] /\ a[i] \in Report
  OBVIOUS
<1> HIDE DEF n, b
<1>3. \A i \in 1..n : lo < a[i].from /\ a[i].from <= a[i].to /\ a[i].to <= hi
  BY DEF Tile, n
<1>4. \A i \in 1..(n - 1) : a[i + 1] = a[i] \/ a[i + 1].from = a[i].to + 1
  BY DEF Tile, n
<1>5. IF n = 0 THEN hi = lo ELSE a[1].from = lo + 1 /\ a[n].to = hi
  BY DEF Tile, n
<1>6. \A i \in 1..Len(b) : lo < b[i].from /\ b[i].from <= b[i].to /\ b[i].to <= r.to
  <2> SUFFICES ASSUME NEW i \in 1..(n + 1)
               PROVE  lo < b[i].from /\ b[i].from <= b[i].to /\ b[i].to <= r.to
    BY <1>2
  <2>1. CASE i = n + 1
    BY <2>1, <1>1, <1>2
  <2>2. CASE i \in 1..n
    <3>1. a[i].from \in Nat /\ a[i].to \in Nat
      BY <2>2, <1>2, SpanType
    <3> QED BY <2>2, <3>1, <1>1, <1>2, <1>3
  <2> QED BY <2>1, <2>2, <1>1
<1>7. \A i \in 1..(Len(b) - 1) : b[i + 1] = b[i] \/ b[i + 1].from = b[i].to + 1
  <2> SUFFICES ASSUME NEW i \in 1..n PROVE b[i + 1] = b[i] \/ b[i + 1].from = b[i].to + 1
    BY <1>1, <1>2
  <2>1. CASE i = n
    BY <2>1, <1>1, <1>2, <1>5
  <2>2. CASE i # n
    <3>1. i \in 1..(n - 1) /\ i + 1 \in 1..n
      BY <2>2, <1>1
    <3> QED BY <3>1, <1>2, <1>4
  <2> QED BY <2>1, <2>2
<1>8. b[1].from = lo + 1 /\ b[Len(b)].to = r.to
  <2>1. CASE n = 0
    BY <2>1, <1>2, <1>5
  <2>2. CASE n # 0
    BY <2>2, <1>1, <1>2, <1>5
  <2> QED BY <2>1, <2>2
<1>9. Tile(b, lo, r.to)
  BY <1>2, <1>6, <1>7, <1>8 DEF Tile
<1> QED BY <1>9 DEF b

-----------------------------------------------------------------------------
(* Every step keeps the types; a kept report is one that was owed, hence PhaseOK. *)
LEMMA TypeStep == TypeOK /\ PhaseOK /\ [Next]_vars => TypeOK'
<1> SUFFICES ASSUME TypeOK, PhaseOK, [Next]_vars PROVE TypeOK'
  OBVIOUS
<1> USE DEF TypeOK
<1>1. ASSUME NEW r \in Row, Write(r) PROVE TypeOK'
  <2>1. log' \in Seq(Row) /\ Len(log') = Len(log) + 1 /\ Len(log) \in Nat
    BY <1>1 DEF Write
  <2>2. Len(log') <= MaxSeq
    BY <1>1, <2>1, SizesAssumption DEF Write
  <2> QED BY <1>1, <2>1, <2>2 DEF Write, round, bridge
<1>2. disk.pending # <<>> => disk.pending[1] \in Report
  OBVIOUS
<1>3. CASE StartRound
  BY <1>3 DEF StartRound, GoTo, NoFault, bridge
<1>4. CASE PostKept
  <2>1. reports' \in Seq(Report)
    BY <1>2, <1>4 DEF PostKept, PhaseOK
  <2> QED BY <1>4, <2>1 DEF PostKept, GoTo, NoFault, bridge
<1>5. CASE Settle
  <2>1. disk'.cursor = disk.cursor /\ disk'.pending = <<>>
        /\ disk' = [cursor |-> disk.cursor, pending |-> <<>>]
    BY <1>5 DEF Settle
  <2>2. <<>> \in Seq(Report) /\ Len(<<>>) = 0
    OBVIOUS
  <2>3. disk' \in [cursor : Nat \cup {NoCursor}, pending : Seq(Report)] /\ Len(disk'.pending) <= 1
    BY <2>1, <2>2
  <2> QED BY <1>5, <2>3 DEF Settle, GoTo, NoFault, bridge
<1>6. CASE StartAtHead
  <2>1. Len(log) \in Nat
    OBVIOUS
  <2>2. disk' = [cursor |-> Len(log), pending |-> disk.pending]
    BY <1>6 DEF StartAtHead
  <2>3. disk' \in [cursor : Nat \cup {NoCursor}, pending : Seq(Report)] /\ Len(disk'.pending) <= 1
    BY <2>1, <2>2
  <2> QED BY <1>6, <2>1, <2>3 DEF StartAtHead, EndRound, NoFault, NoStations
<1>7. CASE Pull
  <2>1. batchTo' \in Nat /\ pos' \in Nat
    BY <1>7 DEF Pull, Seqs
  <2>2. stations' \in [Stations -> {"absent", "opened", "booted"}] /\ bridged' \in BOOLEAN
    BY <1>7 DEF Pull, EnsureBridge, NoStations
  <2> QED BY <1>7, <2>1, <2>2 DEF Pull, Unsaid, NoFault
<1>8. CASE PullNothing
  <2>1. stations' \in [Stations -> {"absent", "opened", "booted"}] /\ bridged' \in BOOLEAN
    BY <1>8 DEF PullNothing, EnsureBridge, NoStations
  <2> QED BY <1>8, <2>1 DEF PullNothing, EndRound, NoFault
<1>9. CASE Connect
  <2>1. stations' \in [Stations -> {"absent", "opened", "booted"}]
    BY <1>9 DEF Connect
  <2> QED BY <1>9, <2>1 DEF Connect, GoTo, NoFault
<1>10. CASE Boot
  <2>1. stations' \in [Stations -> {"absent", "opened", "booted"}]
    BY <1>10 DEF Boot
  <2> QED BY <1>10, <2>1 DEF Boot, GoTo, NoFault
<1>11. ASSUME NEW s \in Seqs, NEW o \in Outcomes, Dealt(s, o)
       PROVE  pos' \in Nat /\ outs' \in [Seqs -> Outcomes \cup {"unsaid"}]
  BY <1>11 DEF Dealt, Seqs
<1>12. ASSUME NEW s \in Seqs, Hears(s) PROVE hears' \in [Seqs -> Nat]
  BY <1>12 DEF Hears
<1>13. CASE Say
  <2>1. pos' \in Nat /\ outs' \in [Seqs -> Outcomes \cup {"unsaid"}] /\ hears' \in [Seqs -> Nat]
    BY <1>11, <1>12, <1>13 DEF Say, Outcomes
  <2> QED BY <1>13, <2>1 DEF Say, Dealt, NoFault, bridge
<1>14. CASE Refuse
  <2>1. pos' \in Nat /\ outs' \in [Seqs -> Outcomes \cup {"unsaid"}]
    BY <1>11, <1>14 DEF Refuse, Outcomes
  <2> QED BY <1>14, <2>1 DEF Refuse, Dealt, NoFault, bridge
<1>15. CASE Save
  <2>1. disk.cursor + 1 \in Nat /\ BatchReport \in Report
    BY DEF BatchReport, Report, NoCursor
  <2> QED BY <1>15, <2>1 DEF Save, GoTo, NoFault, bridge
<1>16. ASSUME EndsRefused \/ EndsBroken
       PROVE  /\ pc' \in {"idle", "post", "settle", "pull", "deliver", "boot"}
              /\ closing' \in BOOLEAN /\ bridged' \in BOOLEAN
              /\ stations' \in [Stations -> {"absent", "opened", "booted"}]
              /\ batchTo' \in Nat /\ pos' \in Nat
              /\ outs' \in [Seqs -> Outcomes \cup {"unsaid"}]
  BY <1>16 DEF EndsRefused, EndsBroken, EndRound, NoStations, bridge
<1>17. ASSUME Fault PROVE faults' \in Nat
  BY <1>17 DEF Fault
<1>18. CASE PostFails
  <2>1. reports' \in Seq(Report)
    <3>1. disk.pending[1] \in Report
      BY <1>2, <1>18 DEF PostFails, PhaseOK
    <3>2. reports' = reports \/ reports' = Append(reports, disk.pending[1])
      BY <1>18 DEF PostFails
    <3>3. reports \in Seq(Report) /\ Append(reports, disk.pending[1]) \in Seq(Report)
      BY <3>1, AppendType
    <3> QED BY <3>2, <3>3, Zenon
  <2>2. EndsRefused \/ EndsBroken
    BY <1>18 DEF PostFails
  <2>3. UNCHANGED <<log, disk, hears, origin>> /\ faults' \in Nat
    BY <1>17, <1>18 DEF PostFails
  <2>4. /\ pc' \in {"idle", "post", "settle", "pull", "deliver", "boot"}
        /\ closing' \in BOOLEAN /\ bridged' \in BOOLEAN
        /\ stations' \in [Stations -> {"absent", "opened", "booted"}]
        /\ batchTo' \in Nat /\ pos' \in Nat
        /\ outs' \in [Seqs -> Outcomes \cup {"unsaid"}]
    BY <1>16, <2>2
  <2> QED BY <2>1, <2>3, <2>4
<1>19. CASE SettleFails
  BY <1>16, <1>17, <1>19 DEF SettleFails
<1>20. CASE PullFails
  BY <1>16, <1>17, <1>20 DEF PullFails
<1>21. CASE BackEndGone
  <2>1. hears' \in [Seqs -> Nat]
    BY <1>12, <1>21 DEF BackEndGone
  <2> QED BY <1>16, <1>17, <1>21, <2>1 DEF BackEndGone
<1>22. CASE SaveFails
  BY <1>16, <1>17, <1>22 DEF SaveFails
<1>23. CASE Crash
  BY <1>16, <1>17, <1>23 DEF Crash
<1>24. CASE UNCHANGED vars
  BY <1>24 DEF vars, round, bridge
<1> QED
  BY <1>1, <1>3, <1>4, <1>5, <1>6, <1>7, <1>8, <1>9, <1>10, <1>13, <1>14, <1>15, <1>18,
     <1>19, <1>20, <1>21, <1>22, <1>23, <1>24 DEF Next, RelayStep, FaultStep

-----------------------------------------------------------------------------
(* A step that leaves the log, the reports, the state file and what was heard alone disturbs
   nothing but the phase and the pass. *)
LEMMA PhaseStep ==
  ASSUME IInv, UNCHANGED <<log, reports, disk, hears, origin>>, TypeOK', PhaseOK', PassOK'
  PROVE  IInv'
<1>1. CursorOK'
  BY DEF IInv, CursorOK
<1>2. HeardInOrder' /\ CursorIsSaid'
  BY DEF IInv, HeardInOrder, CursorIsSaid, Sayable, TwinRows
<1>3. Accounted' = Accounted
  BY DEF Accounted
<1>4. ReportsTile'
  BY <1>3 DEF IInv, ReportsTile
<1>5. ReportsAreTrue'
  BY <1>3 DEF IInv, ReportsAreTrue, OutcomesTrue, TwinRows
<1> QED BY <1>1, <1>2, <1>4, <1>5 DEF IInv

(* The reports with the one owed are a sequence of reports. *)
LEMMA AccountedType == TypeOK => Accounted \in Seq(Report)
<1> SUFFICES ASSUME TypeOK PROVE Accounted \in Seq(Report)
  OBVIOUS
<1>1. reports \in Seq(Report) /\ disk.pending \in Seq(Report)
  BY DEF TypeOK
<1>2. disk.pending # <<>> => disk.pending[1] \in Report
  BY <1>1
<1> QED BY <1>1, <1>2, AppendType DEF Accounted

-----------------------------------------------------------------------------
(* The inductive step, action by action. *)

(* Calls that fail, or change only the connections, end the round or move it on. *)
LEMMA QuietStep ==
  ASSUME IInv, TypeOK',
         StartRound \/ SettleFails \/ PullNothing \/ PullFails \/ Connect \/ Boot
           \/ SaveFails \/ Crash \/ UNCHANGED vars
  PROVE  IInv'
<1> USE DEF IInv
<1>1. UNCHANGED <<log, reports, disk, hears, origin>>
  BY DEF StartRound, SettleFails, PullNothing, PullFails, Connect, Boot, SaveFails, Crash, vars
<1>2. ASSUME pc' = "idle" PROVE PhaseOK' /\ PassOK'
  BY <1>2 DEF PhaseOK, PassOK
<1>3. CASE StartRound
  BY <1>1, <1>3, PhaseStep DEF StartRound, GoTo, PhaseOK, PassOK
<1>4. CASE SettleFails \/ PullNothing \/ PullFails \/ SaveFails \/ Crash
  <2>1. pc' = "idle"
    BY <1>4 DEF SettleFails, PullNothing, PullFails, SaveFails, Crash, EndsRefused, EndsBroken, EndRound
  <2> QED BY <1>1, <1>2, <2>1, PhaseStep
<1>5. CASE Connect \/ Boot
  <2>1. pc \in {"deliver", "boot"} /\ pc' \in {"deliver", "boot"} /\ UNCHANGED <<batchTo, pos, outs>>
    BY <1>5 DEF Connect, Boot, GoTo
  <2>2. PhaseOK'
    BY <1>1, <2>1 DEF PhaseOK
  <2>3. PassOK'
    BY <1>1, <2>1 DEF PassOK, OutcomesTrue, TwinRows
  <2> QED BY <1>1, <2>2, <2>3, PhaseStep
<1>6. CASE UNCHANGED vars
  <2>1. UNCHANGED <<pc, batchTo, pos, outs>>
    BY <1>6 DEF vars, round
  <2>2. PhaseOK'
    BY <1>1, <2>1 DEF PhaseOK
  <2>3. PassOK'
    BY <1>1, <2>1 DEF PassOK, OutcomesTrue, TwinRows
  <2> QED BY <1>1, <2>2, <2>3, PhaseStep
<1> QED BY <1>3, <1>4, <1>5, <1>6

(* A new row lies after everything read, said or reported. *)
LEMMA WriteStep ==
  ASSUME IInv, TypeOK', NEW r \in Row, Write(r)
  PROVE  IInv'
<1> USE DEF IInv
<1>1. /\ UNCHANGED <<reports, disk, pc, batchTo, pos, outs, hears, origin>>
      /\ log' = Append(log, r)
  BY DEF Write, round
<1>2. /\ Len(log) \in Nat /\ Len(log') = Len(log) + 1
      /\ origin \in Int /\ disk.cursor \in Int /\ pos \in Int /\ batchTo \in Int
  BY <1>1 DEF TypeOK, NoCursor
<1>3. \A i \in 1..Len(log) : log'[i] = log[i]
  BY <1>1 DEF TypeOK
<1>4. CursorOK'
  BY <1>1, <1>2 DEF CursorOK
<1>5. PhaseOK'
  BY <1>1 DEF PhaseOK
<1>7. PassOK'
  <2> SUFFICES ASSUME pc \in {"deliver", "boot"} PROVE PassOK'
    BY <1>1 DEF PassOK
  <2>1. OutcomesTrue(outs, disk.cursor, pos)'
    <3>1. pos <= Len(log) /\ OutcomesTrue(outs, disk.cursor, pos)
      BY <1>2 DEF PassOK
    <3> QED BY <1>1, <1>2, <1>3, <3>1 DEF OutcomesTrue, TwinRows, Seqs
  <2> QED BY <1>1, <1>2, <2>1 DEF PassOK
<1>8. HeardInOrder'
  <2> SUFFICES ASSUME NEW s \in Seqs, hears[s] > 0
               PROVE  /\ s \in Sayable(origin, Len(log))'
                      /\ \A t \in Sayable(origin, s)' : hears[t] > 0
    BY <1>1 DEF HeardInOrder
  <2>1. s \in Sayable(origin, Len(log)) /\ \A t \in Sayable(origin, s) : hears[t] > 0
    BY DEF HeardInOrder
  <2>2. s \in Int /\ s <= Len(log)
    BY <2>1 DEF Sayable, TwinRows, Seqs
  <2>3. s \in Sayable(origin, Len(log))'
    BY <1>1, <1>2, <1>3, <2>1, <2>2 DEF Sayable, TwinRows, Seqs
  <2>4. ASSUME NEW t \in Sayable(origin, s)' PROVE t \in Sayable(origin, s)
    BY <1>1, <1>2, <1>3, <2>2, <2>4 DEF Sayable, TwinRows, Seqs
  <2> QED BY <2>1, <2>3, <2>4
<1>9. CursorIsSaid'
  <2> SUFFICES ASSUME disk.cursor # NoCursor, NEW t \in Sayable(origin, disk.cursor)'
               PROVE  hears[t] > 0
    BY <1>1 DEF CursorIsSaid
  <2>1. t \in Sayable(origin, disk.cursor)
    BY <1>1, <1>2, <1>3 DEF CursorOK, Sayable, TwinRows, Seqs
  <2> QED BY <2>1 DEF CursorIsSaid
<1>10. Accounted' = Accounted
  BY <1>1 DEF Accounted
<1>11. ReportsTile'
  BY <1>1, <1>10 DEF ReportsTile
<1>12. ReportsAreTrue'
  <2> SUFFICES ASSUME NEW i \in 1..Len(Accounted)
               PROVE  OutcomesTrue(Accounted[i].outs, Accounted[i].from - 1, Accounted[i].to)'
    BY <1>10 DEF ReportsAreTrue
  <2>1. Accounted[i].from \in Nat /\ Accounted[i].to \in Nat
    BY AccountedType, SpanType
  <2>2. Accounted[i].to <= Len(log)
    BY <1>2, <2>1 DEF ReportsTile, Tile, CursorOK
  <2>3. OutcomesTrue(Accounted[i].outs, Accounted[i].from - 1, Accounted[i].to)
    BY DEF ReportsAreTrue
  <2> QED BY <1>1, <1>2, <1>3, <1>10, <2>1, <2>2, <2>3 DEF OutcomesTrue, TwinRows, Seqs
<1> QED BY <1>4, <1>5, <1>7, <1>8, <1>9, <1>11, <1>12

(* A report kept, once or again, is the one owed. *)
LEMMA KeepStep ==
  ASSUME IInv, TypeOK', disk.pending # <<>>, reports' = Append(reports, disk.pending[1]),
         UNCHANGED <<log, disk, hears, origin>>, PhaseOK', PassOK'
  PROVE  IInv'
<1> USE DEF IInv
<1> DEFINE a == Accounted
<1>1. reports \in Seq(Report) /\ disk.pending[1] \in Report
  BY DEF TypeOK
<1>2. a = reports' /\ Accounted' = Append(a, disk.pending[1])
  BY DEF Accounted
<1>3. a \in Seq(Report) /\ a # <<>> /\ a[Len(a)] = disk.pending[1]
  BY <1>1, <1>2
<1>4. CursorOK'
  BY DEF CursorOK
<1>5. HeardInOrder' /\ CursorIsSaid'
  BY DEF HeardInOrder, CursorIsSaid, Sayable, TwinRows
<1>6. ReportsTile'
  <2>1. origin \in Int /\ disk.cursor \in Int /\ Tile(a, origin, disk.cursor)
    BY DEF TypeOK, NoCursor, ReportsTile
  <2>2. Tile(Append(a, a[Len(a)]), origin, disk.cursor)
    BY <1>3, <2>1, TileRepeat
  <2> QED BY <1>2, <1>3, <2>2 DEF ReportsTile
<1>7. ReportsAreTrue'
  <2> SUFFICES ASSUME NEW i \in 1..Len(Accounted')
               PROVE  OutcomesTrue(Accounted[i].outs, Accounted[i].from - 1, Accounted[i].to)'
    BY DEF ReportsAreTrue
  <2>1. PICK j \in 1..Len(a) : Accounted'[i] = a[j]
    <3>1. Len(a) \in Nat /\ Len(a) > 0 /\ Len(Accounted') = Len(a) + 1
      BY <1>2, <1>3
    <3>2. CASE i <= Len(a)
      BY <1>2, <1>3, <3>1, <3>2
    <3>3. CASE i = Len(a) + 1
      BY <1>2, <1>3, <3>1, <3>3
    <3> QED BY <3>1, <3>2, <3>3
  <2>2. OutcomesTrue(a[j].outs, a[j].from - 1, a[j].to)
    BY DEF ReportsAreTrue
  <2> QED BY <2>1, <2>2 DEF OutcomesTrue, TwinRows
<1> QED BY <1>4, <1>5, <1>6, <1>7

(* A report that is posted, or is not, leaves the cursor and the state file agreeing. *)
LEMMA PostStep ==
  ASSUME IInv, TypeOK', PostKept \/ PostFails
  PROVE  IInv'
<1> USE DEF IInv
<1>1. pc = "post" /\ disk.pending # <<>> /\ UNCHANGED <<log, disk, hears, origin>>
  BY DEF PostKept, PostFails, PhaseOK
<1>2. CASE PostKept
  <2>1. reports' = Append(reports, disk.pending[1]) /\ pc' = "settle"
    BY <1>2 DEF PostKept, GoTo
  <2>2. reports' # <<>> /\ reports'[Len(reports')] = disk.pending[1]
    <3>1. reports \in Seq(Report) /\ disk.pending[1] \in Report
      BY <1>1 DEF TypeOK
    <3> QED BY <2>1, <3>1
  <2>3. PhaseOK' /\ PassOK'
    BY <1>1, <2>1, <2>2 DEF PhaseOK, PassOK
  <2> QED BY <1>1, <2>1, <2>3, KeepStep
<1>3. CASE PostFails
  <2>1. pc' = "idle" /\ (reports' = reports \/ reports' = Append(reports, disk.pending[1]))
    BY <1>3 DEF PostFails, EndsRefused, EndsBroken, EndRound
  <2>2. PhaseOK' /\ PassOK'
    BY <2>1 DEF PhaseOK, PassOK
  <2>3. CASE reports' = reports
    <3>1. UNCHANGED <<log, reports, disk, hears, origin>>
      BY <1>1, <2>3
    <3> QED BY <2>2, <3>1, PhaseStep
  <2>4. CASE reports' = Append(reports, disk.pending[1])
    BY <1>1, <2>2, <2>4, KeepStep
  <2> QED BY <2>1, <2>3, <2>4
<1> QED BY <1>2, <1>3

(* The report cleared from the state file is the last one kept. *)
LEMMA SettleStep ==
  ASSUME IInv, TypeOK', Settle
  PROVE  IInv'
<1> USE DEF IInv
<1>1. /\ disk.pending # <<>> /\ reports # <<>> /\ reports[Len(reports)] = disk.pending[1]
      /\ UNCHANGED <<log, reports, hears, origin>>
      /\ disk'.cursor = disk.cursor /\ disk'.pending = <<>>
      /\ pc' \in {"idle", "pull"}
  BY DEF Settle, PhaseOK, GoTo, TypeOK
<1>2. reports \in Seq(Report)
  BY DEF TypeOK
<1>3. Accounted = Append(reports, reports[Len(reports)]) /\ Accounted' = reports
  BY <1>1 DEF Accounted
<1>4. PhaseOK' /\ PassOK'
  BY <1>1 DEF PhaseOK, PassOK
<1>5. CursorOK'
  BY <1>1 DEF CursorOK
<1>6. HeardInOrder' /\ CursorIsSaid'
  BY <1>1 DEF HeardInOrder, CursorIsSaid, Sayable, TwinRows
<1>7. ReportsTile'
  <2>1. origin \in Int /\ disk.cursor \in Int /\ Tile(Accounted, origin, disk.cursor)
    BY DEF TypeOK, NoCursor, ReportsTile
  <2>2. Tile(reports, origin, disk.cursor)
    BY <1>1, <1>2, <1>3, <2>1, TileForget
  <2> QED BY <1>1, <1>3, <2>2 DEF ReportsTile
<1>8. ReportsAreTrue'
  <2> SUFFICES ASSUME NEW i \in 1..Len(reports)
               PROVE  OutcomesTrue(reports[i].outs, reports[i].from - 1, reports[i].to)'
    BY <1>1, <1>3 DEF ReportsAreTrue
  <2>1. i \in 1..Len(Accounted) /\ Accounted[i] = reports[i]
    BY <1>2, <1>3
  <2>2. OutcomesTrue(reports[i].outs, reports[i].from - 1, reports[i].to)
    BY <2>1 DEF ReportsAreTrue
  <2> QED BY <1>1, <2>2 DEF OutcomesTrue, TwinRows
<1> QED BY <1>4, <1>5, <1>6, <1>7, <1>8

(* The first round: nothing was said or reported, and the head is the cursor. *)
LEMMA HeadStep ==
  ASSUME IInv, TypeOK', StartAtHead
  PROVE  IInv'
<1> USE DEF IInv
<1>1. /\ reports = <<>> /\ disk.pending = <<>> /\ \A s \in Seqs : hears[s] = 0
      /\ UNCHANGED <<log, reports, hears>>
      /\ origin' = Len(log) /\ disk'.cursor = Len(log) /\ disk'.pending = <<>>
      /\ pc' = "idle"
  BY DEF StartAtHead, CursorOK, EndRound, TypeOK
<1>2. Len(log) \in Nat
  BY DEF TypeOK
<1>3. PhaseOK' /\ PassOK' /\ CursorOK'
  BY <1>1, <1>2 DEF PhaseOK, PassOK, CursorOK, NoCursor
<1>4. HeardInOrder'
  BY <1>1 DEF HeardInOrder
<1>5. CursorIsSaid'
  <2>1. TwinRows(origin, disk.cursor)' = {}
    BY <1>1, <1>2 DEF TwinRows, Seqs
  <2> QED BY <2>1 DEF CursorIsSaid, Sayable
<1>6. Accounted' = <<>>
  BY <1>1 DEF Accounted
<1>7. ReportsTile'
  BY <1>1, <1>6 DEF ReportsTile, Tile
<1>8. ReportsAreTrue'
  BY <1>6 DEF ReportsAreTrue
<1> QED BY <1>3, <1>4, <1>5, <1>7, <1>8

(* A new pass begins at the cursor with no outcome. *)
LEMMA PullStep ==
  ASSUME IInv, TypeOK', Pull
  PROVE  IInv'
<1> USE DEF IInv
<1>1. UNCHANGED <<log, reports, disk, hears, origin>> /\ pc = "pull" /\ pc' = "deliver"
  BY DEF Pull
<1>2. PhaseOK'
  BY <1>1 DEF PhaseOK
<1>3. disk.cursor # NoCursor /\ disk.cursor < batchTo' /\ batchTo' <= Len(log)
      /\ pos' = disk.cursor /\ outs' = Unsaid
  BY DEF Pull, EndsPage, TwinRows
<1>4. disk.cursor \in Nat /\ batchTo' \in Nat
  BY <1>3 DEF TypeOK
<1>5. OutcomesTrue(outs, disk.cursor, pos)'
  <2>1. TwinRows(disk.cursor, pos)' = {}
    BY <1>1, <1>3, <1>4 DEF TwinRows, Seqs
  <2> QED BY <1>3, <2>1 DEF OutcomesTrue, Unsaid
<1>6. PassOK'
  BY <1>1, <1>3, <1>4, <1>5 DEF PassOK
<1> QED BY <1>1, <1>2, <1>6, PhaseStep

(* A frame dealt with: its outcome is true, and a frame said follows all that were said. *)
LEMMA DealtStep ==
  ASSUME IInv, TypeOK', NEW s \in Seqs, NEW o \in Outcomes, IsNextFrame(s), Dealt(s, o),
         pc = "deliver", UNCHANGED <<log, reports, disk, origin>>,
         IF log[s].v201 THEN o # "not_2_0_1" /\ Hears(s) ELSE o = "not_2_0_1" /\ UNCHANGED hears
  PROVE  PassOK' /\ PhaseOK'
<1> USE DEF IInv
<1>1. pos' = s /\ outs' = [outs EXCEPT ![s] = o] /\ UNCHANGED <<pc, batchTo>>
  BY DEF Dealt
<1>2. /\ s \in TwinRows(pos, batchTo) /\ TwinRows(pos, s - 1) = {}
      /\ disk.cursor \in Nat /\ pos \in Nat /\ batchTo \in Nat /\ Len(log) \in Nat
      /\ disk.cursor <= pos /\ batchTo <= Len(log) /\ disk.cursor < batchTo
  BY SMTT(30) DEF IsNextFrame, PassOK, TypeOK
<1>3. PhaseOK'
  BY <1>1 DEF PhaseOK
<1>4. pos < s /\ s <= batchTo /\ s \in Nat
  BY <1>2 DEF TwinRows, Seqs
<1>5. \A t \in Seqs : t # s => outs'[t] = outs[t]
  BY <1>1 DEF TypeOK
<1>6. outs'[s] = o
  BY <1>1 DEF TypeOK
<1>7. \A t \in Seqs : hears[t] \in Nat /\ hears'[t] \in Nat /\ (t # s => hears'[t] = hears[t])
  BY DEF Hears, TypeOK
<1>8. log[s].v201 => hears'[s] > 0
  BY <1>7 DEF Hears, TypeOK
<1>9. \A t \in Seqs : t \in TwinRows(disk.cursor, s) <=> t = s \/ t \in TwinRows(disk.cursor, pos)
  BY <1>2, <1>4 DEF TwinRows, Seqs
<1>10. OutcomesTrue(outs, disk.cursor, pos)'
  <2> SUFFICES ASSUME NEW t \in Seqs
               PROVE  IF t \in TwinRows(disk.cursor, s)
                      THEN IF log[t].v201 THEN outs'[t] \in {"accepted", "csms_error"} /\ hears'[t] > 0
                                          ELSE outs'[t] = "not_2_0_1"
                      ELSE outs'[t] = "unsaid"
    BY <1>1 DEF OutcomesTrue, TwinRows
  <2>1. CASE t = s
    BY <2>1, <1>6, <1>8, <1>9 DEF Outcomes
  <2>2. CASE t # s
    <3>1. OutcomesTrue(outs, disk.cursor, pos)
      BY DEF PassOK
    <3>2. hears'[t] = hears[t]
      BY <1>7, <2>2
    <3> QED BY <2>2, <3>1, <3>2, <1>5, <1>9 DEF OutcomesTrue
  <2> QED BY <2>1, <2>2
<1>11. PassOK'
  BY <1>1, <1>2, <1>4, <1>10 DEF PassOK
<1> QED BY <1>3, <1>11

(* Hearing the next frame of a pass keeps the order, the cursor's promise and the reports. *)
LEMMA HearStep ==
  ASSUME IInv, TypeOK', NEW s \in Seqs, IsNextFrame(s), log[s].v201, Hears(s),
         pc = "deliver", UNCHANGED <<log, reports, disk, origin>>, PhaseOK', PassOK'
  PROVE  IInv'
<1> USE DEF IInv
<1>1. /\ disk.cursor \in Nat /\ origin \in Nat /\ pos \in Nat /\ Len(log) \in Nat
      /\ origin <= disk.cursor /\ disk.cursor <= pos /\ batchTo <= Len(log)
      /\ disk.cursor # NoCursor /\ batchTo \in Nat
  BY DEF PassOK, CursorOK, TypeOK, NoCursor
<1>2. s \in TwinRows(pos, batchTo) /\ TwinRows(pos, s - 1) = {} /\ pos < s /\ s <= Len(log)
  BY <1>1 DEF IsNextFrame, TwinRows, Seqs
<1>3. \A t \in Seqs : hears[t] \in Nat /\ hears'[t] \in Nat /\ (t # s => hears'[t] = hears[t])
  BY DEF Hears, TypeOK
<1>4. hears'[s] > 0
  BY <1>3 DEF Hears, TypeOK
<1>5. \A t \in Seqs : hears[t] > 0 => hears'[t] > 0
  BY <1>3, <1>4
<1>6. CursorOK'
  BY <1>1 DEF CursorOK
<1>7. \A t \in Sayable(origin, s) : hears'[t] > 0
  <2> SUFFICES ASSUME NEW t \in Sayable(origin, s) PROVE hears'[t] > 0
    OBVIOUS
  <2>1. t \in Seqs
    BY DEF Sayable, TwinRows
  <2>2. CASE t <= disk.cursor
    <3>1. t \in Sayable(origin, disk.cursor)
      BY <2>2, <1>1 DEF Sayable, TwinRows, Seqs
    <3> QED BY <2>1, <3>1, <1>1, <1>5 DEF CursorIsSaid
  <2>3. CASE disk.cursor < t /\ t <= pos
    <3>1. t \in TwinRows(disk.cursor, pos) /\ log[t].v201
      BY <2>3, <1>1 DEF Sayable, TwinRows, Seqs
    <3> QED BY <2>1, <3>1, <1>5 DEF PassOK, OutcomesTrue
  <2>4. CASE pos < t
    <3>1. t = s
      BY <2>4, <1>1, <1>2 DEF Sayable, TwinRows, Seqs
    <3> QED BY <3>1, <1>4
  <2> QED BY <2>2, <2>3, <2>4, <2>1, <1>1 DEF Seqs
<1>8. HeardInOrder'
  <2> SUFFICES ASSUME NEW t \in Seqs, hears'[t] > 0
               PROVE  /\ t \in Sayable(origin, Len(log))
                      /\ \A u \in Sayable(origin, t) : hears'[u] > 0
    BY DEF HeardInOrder, Sayable, TwinRows
  <2>1. CASE t = s
    <3>1. s \in Sayable(origin, Len(log))
      BY <1>1, <1>2 DEF Sayable, TwinRows, Seqs
    <3> QED BY <2>1, <3>1, <1>7
  <2>2. CASE t # s
    <3>1. t \in Sayable(origin, Len(log)) /\ \A u \in Sayable(origin, t) : hears[u] > 0
      BY <2>2, <1>3 DEF HeardInOrder
    <3>2. \A u \in Sayable(origin, t) : u \in Seqs
      BY DEF Sayable, TwinRows
    <3> QED BY <3>1, <3>2, <1>5
  <2> QED BY <2>1, <2>2
<1>9. CursorIsSaid'
  <2> SUFFICES ASSUME NEW t \in Sayable(origin, disk.cursor) PROVE hears'[t] > 0
    BY DEF CursorIsSaid, Sayable, TwinRows
  <2>1. t \in Seqs
    BY DEF Sayable, TwinRows
  <2> QED BY <2>1, <1>1, <1>5 DEF CursorIsSaid
<1>10. Accounted' = Accounted
  BY DEF Accounted
<1>11. ReportsTile'
  BY <1>10 DEF ReportsTile
<1>12. ReportsAreTrue'
  <2> SUFFICES ASSUME NEW i \in 1..Len(Accounted)
               PROVE  OutcomesTrue(Accounted[i].outs, Accounted[i].from - 1, Accounted[i].to)'
    BY <1>10 DEF ReportsAreTrue
  <2>1. OutcomesTrue(Accounted[i].outs, Accounted[i].from - 1, Accounted[i].to)
    BY DEF ReportsAreTrue
  <2> QED BY <2>1, <1>5, <1>10 DEF OutcomesTrue, TwinRows
<1> QED BY <1>6, <1>8, <1>9, <1>11, <1>12

(* A frame that is said to the back end, answered or not, keeps the invariant. *)
LEMMA SayStep ==
  ASSUME IInv, TypeOK', Say
  PROVE  IInv'
<1>1. PICK s \in Seqs, o \in {"accepted", "csms_error"} :
         IsNextFrame(s) /\ log[s].v201 /\ Hears(s) /\ Dealt(s, o)
  BY DEF Say
<1>2. pc = "deliver" /\ UNCHANGED <<log, reports, disk, origin>> /\ o \in Outcomes /\ o # "not_2_0_1"
  BY DEF Say, Outcomes
<1>3. PassOK' /\ PhaseOK'
  BY <1>1, <1>2, DealtStep
<1> QED BY <1>1, <1>2, <1>3, HearStep

(* So does one the schema refuses, which is accounted and never sent. *)
LEMMA RefuseStep ==
  ASSUME IInv, TypeOK', Refuse
  PROVE  IInv'
<1>1. PICK s \in Seqs : IsNextFrame(s) /\ ~log[s].v201 /\ Dealt(s, "not_2_0_1")
  BY DEF Refuse
<1>2. pc = "deliver" /\ UNCHANGED <<log, reports, disk, hears, origin>> /\ "not_2_0_1" \in Outcomes
  BY DEF Refuse, Outcomes
<1>3. PassOK' /\ PhaseOK'
  BY <1>1, <1>2, DealtStep
<1> QED BY <1>2, <1>3, PhaseStep

(* The back end goes away; what it heard last, if anything, was the next frame of the pass. *)
LEMMA BackEndGoneStep ==
  ASSUME IInv, TypeOK', BackEndGone
  PROVE  IInv'
<1>1. UNCHANGED <<log, reports, disk, origin>> /\ pc' = "idle"
  BY DEF BackEndGone, EndsBroken, EndRound
<1>2. PassOK' /\ PhaseOK'
  BY <1>1 DEF PassOK, PhaseOK
<1>3. CASE UNCHANGED hears
  <2>1. UNCHANGED <<log, reports, disk, hears, origin>>
    BY <1>1, <1>3
  <2> QED BY <1>2, <2>1, PhaseStep
<1>4. CASE pc = "deliver" /\ \E s \in Seqs : IsNextFrame(s) /\ log[s].v201 /\ Hears(s)
  BY <1>1, <1>2, <1>4, HearStep
<1> QED BY <1>3, <1>4 DEF BackEndGone

(* The saved batch was said, and its report begins where the last one ended. *)
LEMMA SaveStep ==
  ASSUME IInv, TypeOK', Save
  PROVE  IInv'
<1> USE DEF IInv
<1> DEFINE r == BatchReport
<1>1. /\ disk.cursor \in Nat /\ origin \in Nat /\ pos \in Nat /\ batchTo \in Nat /\ Len(log) \in Nat
      /\ origin <= disk.cursor /\ disk.cursor <= pos /\ pos <= batchTo /\ batchTo <= Len(log)
      /\ disk.cursor < batchTo /\ disk.pending = <<>>
  BY DEF Save, PassOK, PhaseOK, CursorOK, TypeOK, NoCursor
<1>2. /\ TwinRows(pos, batchTo) = {} /\ disk'.cursor = batchTo /\ disk'.pending = <<r>>
      /\ pc' = "post" /\ UNCHANGED <<log, reports, hears, origin>>
  BY DEF Save, GoTo
<1>3. r \in Report /\ r.from = disk.cursor + 1 /\ r.to = batchTo /\ r.outs = outs
  BY <1>1, SMTT(30) DEF BatchReport, Report, TypeOK
<1>4. disk'.pending # <<>> /\ disk'.pending[1] = r
  BY <1>2
<1>5. \A t \in Seqs : t \in TwinRows(disk.cursor, batchTo) <=> t \in TwinRows(disk.cursor, pos)
  BY <1>1, <1>2 DEF TwinRows, Seqs
<1>6. OutcomesTrue(outs, disk.cursor, batchTo)
  <2>1. OutcomesTrue(outs, disk.cursor, pos)
    BY DEF Save, PassOK
  <2> QED BY <2>1, <1>5 DEF OutcomesTrue
<1>7. PhaseOK' /\ PassOK'
  BY <1>2, <1>4 DEF PhaseOK, PassOK
<1>8. CursorOK'
  BY <1>1, <1>2 DEF CursorOK, NoCursor
<1>9. HeardInOrder'
  BY <1>2 DEF HeardInOrder, Sayable, TwinRows
<1>10. CursorIsSaid'
  <2> SUFFICES ASSUME NEW t \in Sayable(origin, batchTo) PROVE hears[t] > 0
    BY <1>2 DEF CursorIsSaid, Sayable, TwinRows
  <2>1. t \in Seqs /\ log[t].v201
    BY DEF Sayable, TwinRows
  <2>2. CASE t <= disk.cursor
    <3>1. t \in Sayable(origin, disk.cursor)
      BY <2>2, <1>1 DEF Sayable, TwinRows, Seqs
    <3> QED BY <3>1, <1>1 DEF CursorIsSaid, NoCursor
  <2>3. CASE disk.cursor < t
    <3>1. t \in TwinRows(disk.cursor, batchTo)
      BY <2>3, <1>1 DEF Sayable, TwinRows, Seqs
    <3> QED BY <3>1, <2>1, <1>6 DEF OutcomesTrue
  <2> QED BY <2>1, <2>2, <2>3, <1>1 DEF Seqs
<1>11. reports \in Seq(Report) /\ Accounted = reports /\ Accounted' = Append(reports, r)
  BY <1>1, <1>2, <1>4 DEF Accounted, TypeOK
<1> HIDE DEF r
<1>12. ReportsTile'
  <2>1. Tile(reports, origin, disk.cursor)
    BY <1>11 DEF ReportsTile
  <2>2. Tile(Append(reports, r), origin, r.to)
    <3>1. r.from <= r.to
      BY <1>1, <1>3
    <3> QED BY <1>1, <1>3, <1>11, <2>1, <3>1, TileExtend, SMTT(30)
  <2> QED BY <1>2, <1>3, <1>11, <2>2 DEF ReportsTile
<1>13. ReportsAreTrue'
  <2> SUFFICES ASSUME NEW i \in 1..Len(Accounted')
               PROVE  OutcomesTrue(Accounted[i].outs, Accounted[i].from - 1, Accounted[i].to)'
    BY DEF ReportsAreTrue
  <2>1. CASE i \in 1..Len(reports)
    <3>1. Accounted'[i] = reports[i]
      BY <2>1, <1>3, <1>11
    <3>2. OutcomesTrue(reports[i].outs, reports[i].from - 1, reports[i].to)
      BY <2>1, <1>11 DEF ReportsAreTrue
    <3> QED BY <3>1, <3>2, <1>2 DEF OutcomesTrue, TwinRows
  <2>2. CASE i = Len(reports) + 1
    <3>1. Accounted'[i] = r
      BY <2>2, <1>3, <1>11
    <3>2. r.from - 1 = disk.cursor
      BY <1>1, <1>3
    <3> QED BY <3>1, <3>2, <1>2, <1>3, <1>6 DEF OutcomesTrue, TwinRows
  <2> QED BY <2>1, <2>2, <1>3, <1>11
<1> QED BY <1>7, <1>8, <1>9, <1>10, <1>12, <1>13

-----------------------------------------------------------------------------
(* IInv is an inductive invariant of the relay loop, with all its faults. *)
LEMMA InitIInv == Init => IInv
<1> SUFFICES ASSUME Init PROVE IInv
  OBVIOUS
<1> USE DEF Init
<1>1. TypeOK
  <2>1. log \in Seq(Row) /\ reports \in Seq(Report) /\ disk.pending \in Seq(Report)
        /\ Len(log) = 0 /\ Len(disk.pending) = 0
    OBVIOUS
  <2>2. disk \in [cursor : Nat \cup {NoCursor}, pending : Seq(Report)]
    BY <2>1
  <2>3. /\ stations \in [Stations -> {"absent", "opened", "booted"}]
        /\ outs \in [Seqs -> Outcomes \cup {"unsaid"}] /\ hears \in [Seqs -> Nat]
    BY DEF NoStations, Unsaid
  <2>4. Len(log) <= MaxSeq /\ Len(disk.pending) <= 1
    BY <2>1, SizesAssumption
  <2> QED BY <2>1, <2>2, <2>3, <2>4 DEF TypeOK
<1>2. Accounted = <<>>
  BY DEF Accounted
<1>3. CursorOK /\ PhaseOK /\ PassOK
  BY DEF CursorOK, PhaseOK, PassOK, NoCursor
<1>4. HeardInOrder /\ CursorIsSaid
  BY DEF HeardInOrder, CursorIsSaid
<1>5. ReportsTile /\ ReportsAreTrue
  BY <1>2 DEF ReportsTile, ReportsAreTrue, Tile, NoCursor
<1> QED BY <1>1, <1>3, <1>4, <1>5 DEF IInv

(* Every step keeps the invariant. *)
LEMMA StepIInv == IInv /\ [Next]_vars => IInv'
<1> SUFFICES ASSUME IInv, [Next]_vars PROVE IInv'
  OBVIOUS
<1>1. TypeOK'
  BY TypeStep DEF IInv
<1>2. CASE \E r \in Row : Write(r)
  BY <1>1, <1>2, WriteStep
<1>3. CASE RelayStep
  BY <1>1, <1>3, QuietStep, PostStep, SettleStep, HeadStep, PullStep, SayStep, RefuseStep, SaveStep
     DEF RelayStep
<1>4. CASE FaultStep
  BY <1>1, <1>4, QuietStep, PostStep, BackEndGoneStep DEF FaultStep
<1>5. CASE UNCHANGED vars
  BY <1>1, <1>5, QuietStep
<1> QED BY <1>2, <1>3, <1>4, <1>5 DEF Next

(* The relay loop keeps its inductive invariant, whatever fails and whenever it dies. *)
THEOREM RelayInvariant == Spec => []IInv
<1>1. Init => IInv
  BY InitIInv
<1>2. IInv /\ [Next]_vars => IInv'
  BY StepIInv
<1> QED BY <1>1, <1>2, PTL DEF Spec

(* Types, order, completeness of what is said, and the accounts: the invariants the runs check. *)
THEOREM RelayTypes == Spec => []TypeOK
BY RelayInvariant, PTL DEF IInv

(* The back end hears the frames in order and without gaps: ChargerBridge.deliver with Relay.round. *)
THEOREM FramesAreHeardInOrder == Spec => []HeardInOrder
BY RelayInvariant, PTL DEF IInv

(* The saved cursor covers only frames that were said: no crash skips one. *)
THEOREM NoFrameIsSkipped == Spec => []CursorIsSaid
BY RelayInvariant, PTL DEF IInv

(* The reports kept and owed tile the log from the head to the cursor. *)
THEOREM ReportsTileTheLog == Spec => []ReportsTile
BY RelayInvariant, PTL DEF IInv

(* A report says of each frame what happened to it. *)
THEOREM ReportsTellTheTruth == Spec => []ReportsAreTrue
BY RelayInvariant, PTL DEF IInv

(* A frame behind the saved cursor is never said again. *)
THEOREM SavedFramesAreNeverSaidAgain == Spec => NeverSaidAgain
<1>1. IInv /\ [Next]_vars => [\A s \in Seqs : hears'[s] # hears[s] => s > disk.cursor]_vars
  <2> SUFFICES ASSUME IInv, [Next]_vars, NEW s \in Seqs, hears'[s] # hears[s]
               PROVE  s > disk.cursor
    OBVIOUS
  <2>1. \A t \in Seqs : Hears(t) => t = s
    BY DEF Hears, IInv, TypeOK
  <2>2. Say \/ BackEndGone
    BY DEF Next, RelayStep, FaultStep, Write, StartRound, PostKept, Settle, StartAtHead, Pull,
           PullNothing, Connect, Boot, Refuse, Save, PostFails, SettleFails, PullFails, SaveFails,
           Crash, vars
  <2>3. pc = "deliver" /\ IsNextFrame(s)
    BY <2>1, <2>2 DEF Say, BackEndGone
  <2>4. s > pos /\ pos >= disk.cursor
    BY <2>3 DEF IsNextFrame, TwinRows, IInv, PassOK, TypeOK
  <2>5. s \in Int /\ pos \in Int /\ disk.cursor \in Int
    BY DEF IInv, TypeOK, NoCursor, Seqs
  <2> QED BY <2>4, <2>5
<1> QED BY <1>1, RelayInvariant, PTL DEF Spec, NeverSaidAgain

(* A report leaves the state file only once it is the last one the relay kept. *)
THEOREM OwedReportsAreKept == Spec => NoReportLost
<1>1. IInv /\ [Next]_vars =>
        [disk.pending # <<>> /\ disk'.pending # disk.pending =>
           /\ reports # <<>> /\ reports[Len(reports)] = disk.pending[1]
           /\ disk'.pending = <<>>]_vars
  <2> SUFFICES ASSUME IInv, [Next]_vars, disk.pending # <<>>, disk'.pending # disk.pending
               PROVE  /\ reports # <<>> /\ reports[Len(reports)] = disk.pending[1]
                      /\ disk'.pending = <<>>
    OBVIOUS
  <2>1. Settle \/ StartAtHead \/ Save
    BY DEF Next, RelayStep, FaultStep, Write, StartRound, PostKept, Pull, PullNothing, Connect,
           Boot, Say, Refuse, PostFails, SettleFails, PullFails, BackEndGone, SaveFails, Crash, vars
  <2>2. ~StartAtHead /\ ~Save
    BY DEF StartAtHead, Save, IInv, PhaseOK, TypeOK
  <2>3. Settle
    BY <2>1, <2>2
  <2>4. disk'.pending = <<>>
    BY <2>3 DEF Settle, IInv, TypeOK
  <2> QED BY <2>3, <2>4 DEF Settle, IInv, PhaseOK
<1> QED BY <1>1, RelayInvariant, PTL DEF Spec, NoReportLost

-----------------------------------------------------------------------------
(* A connected station that has not booted is the one the pass is booting now. *)
BootingOK ==
  \A x \in Stations : stations[x] = "opened" =>
    pc = "boot" /\ \E s \in Seqs : IsNextFrame(s) /\ log[s].station = x

(* The next frame of a pass is one frame. *)
LEMMA NextFrameIsOne ==
  ASSUME NEW s \in Seqs, NEW t \in Seqs, IsNextFrame(s), IsNextFrame(t), TypeOK
  PROVE  s = t
<1>1. MaxSeq \in Int /\ s \in Int /\ t \in Int /\ pos \in Int /\ batchTo \in Int /\ Len(log) \in Int
  BY SizesAssumption DEF TypeOK, Seqs
<1>2. s > t => t \in TwinRows(pos, s - 1)
  BY <1>1 DEF IsNextFrame, TwinRows
<1>3. t > s => s \in TwinRows(pos, t - 1)
  BY <1>1 DEF IsNextFrame, TwinRows
<1> QED BY <1>1, <1>2, <1>3 DEF IsNextFrame

(* The next frame is of a station. *)
LEMMA StationType == TypeOK => \A s \in Seqs : IsNextFrame(s) => log[s].station \in Stations
BY DEF TypeOK, IsNextFrame, TwinRows, Seqs, Row

(* Every step keeps it so. *)
LEMMA BootingStep == IInv /\ BootingOK /\ [Next]_vars => BootingOK'
<1> SUFFICES ASSUME IInv, BootingOK, [Next]_vars PROVE BootingOK'
  OBVIOUS
<1> USE DEF IInv
<1>1. ASSUME EndsBroken PROVE BootingOK'
  BY <1>1 DEF EndsBroken, NoStations, BootingOK
<1>2. ASSUME pc # "boot" PROVE \A x \in Stations : stations[x] # "opened"
  BY <1>2 DEF BootingOK
<1>3. ASSUME pc # "boot", UNCHANGED stations \/ stations' = NoStations PROVE BootingOK'
  BY <1>2, <1>3 DEF BootingOK, NoStations
<1>4. CASE \E r \in Row : Write(r)
  <2>1. PICK r \in Row : Write(r)
    BY <1>4
  <2>2. UNCHANGED <<pc, stations, pos, batchTo>> /\ log' = Append(log, r)
    BY <2>1 DEF Write, round, bridge
  <2>3. \A i \in 1..Len(log) : log'[i] = log[i]
    BY <2>2 DEF TypeOK
  <2>4. Len(log') = Len(log) + 1 /\ Len(log) \in Nat
    BY <2>2 DEF TypeOK
  <2>5. ASSUME pc = "boot", NEW s \in Seqs, IsNextFrame(s)
        PROVE  IsNextFrame(s)' /\ log'[s].station = log[s].station
    <3>1. batchTo <= Len(log) /\ batchTo \in Nat /\ pos \in Nat
      BY <2>5 DEF PassOK, TypeOK
    <3> QED BY <2>2, <2>3, <2>4, <2>5, <3>1 DEF IsNextFrame, TwinRows, Seqs
  <2> QED BY <2>2, <2>5, ZenonT(60) DEF BootingOK
<1>5. CASE StartRound \/ PostKept \/ Settle \/ StartAtHead \/ Pull \/ PullNothing
  BY <1>3, <1>5 DEF StartRound, PostKept, Settle, StartAtHead, Pull, PullNothing, EnsureBridge, bridge
<1>6. CASE Say \/ Refuse \/ Save
  BY <1>3, <1>6 DEF Say, Refuse, Save, Dealt, bridge
<1>7. CASE Connect
  <2>1. PICK s \in Seqs : /\ IsNextFrame(s)
                          /\ stations' = [stations EXCEPT ![log[s].station] = "opened"]
    BY <1>7 DEF Connect
  <2>2. pc = "deliver" /\ pc' = "boot" /\ UNCHANGED <<log, pos, batchTo>>
    BY <1>7 DEF Connect, GoTo
  <2>3. IsNextFrame(s)'
    BY <2>1, <2>2 DEF IsNextFrame, TwinRows
  <2>4. \A x \in Stations : stations'[x] = "opened" => x = log[s].station
    BY <1>2, <2>1, <2>2 DEF TypeOK
  <2> QED BY <2>2, <2>3, <2>4 DEF BootingOK
<1>8. CASE Boot
  <2>1. PICK s \in Seqs : /\ IsNextFrame(s)
                          /\ stations' = [stations EXCEPT ![log[s].station] = "booted"]
    BY <1>8 DEF Boot
  <2>2. \A x \in Stations : stations[x] = "opened" => x = log[s].station
    BY <2>1, NextFrameIsOne DEF BootingOK
  <2>3. \A x \in Stations : stations'[x] # "opened"
    BY <2>1, <2>2 DEF TypeOK
  <2> QED BY <2>3 DEF BootingOK
<1>9. CASE PostFails \/ PullFails
  <2>1. pc # "boot" /\ (EndsBroken \/ UNCHANGED stations)
    BY <1>9 DEF PostFails, PullFails, EndsRefused, bridge
  <2> QED BY <1>1, <1>3, <2>1
<1>10. CASE SettleFails \/ BackEndGone \/ SaveFails \/ Crash
  BY <1>1, <1>10 DEF SettleFails, BackEndGone, SaveFails, Crash
<1>11. CASE UNCHANGED vars
  BY <1>11 DEF vars, round, bridge, BootingOK, IsNextFrame, TwinRows
<1> QED BY <1>4, <1>5, <1>6, <1>7, <1>8, <1>9, <1>10, <1>11 DEF Next, RelayStep, FaultStep

(* No charger speaks on a connection it has not booted on. *)
THEOREM ChargersSpeakBooted == Spec => SpeaksBooted
<1>1. Init => BootingOK
  BY DEF Init, BootingOK, NoStations
<1>2. IInv /\ BootingOK /\ [Next]_vars => BootingOK'
  BY BootingStep
<1>3. IInv /\ BootingOK /\ [Next]_vars =>
        [\A s \in Seqs : hears'[s] # hears[s] => stations[log[s].station] = "booted"]_vars
  <2> SUFFICES ASSUME IInv, BootingOK, [Next]_vars, NEW s \in Seqs, hears'[s] # hears[s]
               PROVE  stations[log[s].station] = "booted"
    OBVIOUS
  <2>1. \A t \in Seqs : Hears(t) => t = s
    BY DEF Hears, IInv, TypeOK
  <2>2. Say \/ BackEndGone
    BY DEF Next, RelayStep, FaultStep, Write, StartRound, PostKept, Settle, StartAtHead, Pull,
           PullNothing, Connect, Boot, Refuse, Save, PostFails, SettleFails, PullFails, SaveFails,
           Crash, vars
  <2>3. pc = "deliver" /\ IsNextFrame(s) /\ stations[log[s].station] # "absent"
    BY <2>1, <2>2 DEF Say, BackEndGone
  <2>4. log[s].station \in Stations
    BY <2>3, StationType DEF IInv
  <2>5. stations[log[s].station] \in {"absent", "opened", "booted"}
    BY <2>4 DEF IInv, TypeOK
  <2> QED BY <2>3, <2>4, <2>5 DEF BootingOK
<1> QED BY <1>1, <1>2, <1>3, RelayInvariant, PTL DEF Spec, SpeaksBooted

-----------------------------------------------------------------------------
(* A row the feed must say is one of a station that passes the schema. *)
LEMMA FrameRowsAreSayable ==
  \A r \in Row : r \in [station : Stations, v201 : {TRUE}] <=> r.station # Foreign /\ r.v201
<1> SUFFICES ASSUME NEW r \in Row
             PROVE  r \in [station : Stations, v201 : {TRUE}] <=> r.station # Foreign /\ r.v201
  OBVIOUS
<1>1. CASE r = [station |-> Foreign, v201 |-> TRUE]
  BY <1>1, ForeignAssumption
<1>2. CASE r \in [station : Stations, v201 : BOOLEAN]
  <2>1. r.station # Foreign /\ r.v201 \in BOOLEAN
    BY <1>2, ForeignAssumption
  <2>2. r.v201 = TRUE => r \in [station : Stations, v201 : {TRUE}]
    BY <1>2
  <2>3. r \in [station : Stations, v201 : {TRUE}] => r.v201 = TRUE
    OBVIOUS
  <2> QED BY <2>1, <2>2, <2>3
<1> QED BY <1>1, <1>2 DEF Row

(* The spans of a sequence of reports, one by one. *)
LEMMA SpansOf ==
  ASSUME NEW q \in Seq(Report), q # <<>>, NEW f, f = [i \in 1..Len(q) |-> SpanOf(q[i])]
  PROVE  f # <<>> /\ f \in Seq([from : Nat, to : Nat]) /\ Len(f) = Len(q)
         /\ \A i \in 1..Len(q) : f[i] = SpanOf(q[i])
<1>1. Len(q) \in Nat /\ Len(q) > 0 /\ \A i \in 1..Len(q) : q[i] \in Report
  OBVIOUS
<1>2. \A i \in 1..Len(q) : SpanOf(q[i]) \in [from : Nat, to : Nat]
  BY <1>1, SpanType DEF SpanOf
<1>3. f \in Seq([from : Nat, to : Nat]) /\ Len(f) = Len(q)
  BY <1>1, <1>2
<1> QED BY <1>1, <1>3

(* Refinement: the frames ChargerFeed must say are the relay's sayable rows. *)
LEMMA FeedFrames ==
  ASSUME TypeOK, NEW lo \in Int, NEW hi \in Int
  PROVE  Feed!Frames(lo, hi) = Sayable(lo, hi)
<1>1. Len(log) \in Nat /\ MaxSeq \in Nat /\ Len(log) <= MaxSeq
  BY SizesAssumption DEF TypeOK
<1>2. \A s \in 1..Len(log) : log[s] \in Row
  BY DEF TypeOK
<1>3. \A s \in 1..Len(log) : log[s] \in [station : Stations, v201 : {TRUE}]
                              <=> log[s].station # Foreign /\ log[s].v201
  BY <1>2, FrameRowsAreSayable
<1>4. \A s : s \in 1..Len(log) <=> s \in Seqs /\ s <= Len(log)
  BY <1>1 DEF Seqs
<1> QED BY <1>3, <1>4, Zenon DEF Feed!Frames, Sayable, TwinRows

(* Steps that leave the log, the reports, the state file and what was heard alone are stutters. *)
LEMMA FeedStutter ==
  UNCHANGED <<log, reports, disk, hears, origin>> => UNCHANGED Feed!vars
BY DEF Feed!vars

(* The relay begins as the feed does. *)
LEMMA FeedInit == Init => Feed!Init
BY DEF Init, Feed!Init, NoCursor

(* A frame written is the feed's own write. *)
LEMMA FeedWrite == ASSUME NEW r \in Row, Write(r) PROVE Feed!Write
BY DEF Write, Feed!Write

(* Starting at the head is the feed's start. *)
LEMMA FeedStart == IInv /\ StartAtHead => Feed!Start
<1> SUFFICES ASSUME IInv, StartAtHead PROVE Feed!Start
  OBVIOUS
<1>1. disk.cursor = -1 /\ disk'.cursor = Len(log) /\ disk'.pending = disk.pending
      /\ UNCHANGED <<log, reports, hears>> /\ origin' = Len(log)
  BY DEF StartAtHead, NoCursor, IInv, TypeOK
<1> QED BY <1>1 DEF Feed!Start

(* A frame that is heard is one the feed may deliver. *)
LEMMA FeedHear ==
  ASSUME IInv, NEW s \in Seqs, IsNextFrame(s), log[s].v201, Hears(s), pc = "deliver",
         UNCHANGED <<log, reports, disk, origin>>
  PROVE  Feed!Hear
<1> USE DEF IInv
<1>1. /\ disk.cursor \in Int /\ pos \in Int /\ Len(log) \in Int /\ s \in Int /\ batchTo \in Int
      /\ disk.cursor # NoCursor /\ disk.cursor <= pos /\ batchTo <= Len(log)
  BY DEF PassOK, TypeOK, NoCursor, Seqs
<1>2. s \in Sayable(disk.cursor, Len(log)) /\ s \in Feed!Frames(disk.cursor, Len(log))
  <2>1. s \in Sayable(disk.cursor, Len(log))
    BY <1>1 DEF IsNextFrame, Sayable, TwinRows
  <2> QED BY <1>1, <2>1, FeedFrames
<1>3. Feed!Frames(disk.cursor, s - 1) \subseteq {t \in Seqs : hears[t] > 0}
  <2> SUFFICES ASSUME NEW t \in Sayable(disk.cursor, s - 1) PROVE t \in Seqs /\ hears[t] > 0
    BY <1>1, FeedFrames
  <2>1. t \in TwinRows(disk.cursor, pos) /\ log[t].v201 /\ t \in Seqs
    BY <1>1 DEF IsNextFrame, Sayable, TwinRows, Seqs
  <2> QED BY <2>1 DEF PassOK, OutcomesTrue
<1>4. \A t \in Seqs : hears[t] \in Nat /\ (t # s => hears'[t] = hears[t]) /\ hears'[s] > 0
  BY DEF Hears, TypeOK
<1>5. {t \in Seqs : hears'[t] > 0} = {t \in Seqs : hears[t] > 0} \cup {s}
  BY <1>4
<1> QED BY <1>1, <1>2, <1>3, <1>5 DEF Feed!Hear, NoCursor

(* Saving the state file is the feed's accounting of a span. *)
LEMMA FeedAccount == IInv /\ Save => Feed!Account
<1> SUFFICES ASSUME IInv, Save PROVE Feed!Account
  OBVIOUS
<1> USE DEF IInv
<1>1. /\ disk.cursor \in Nat /\ pos \in Nat /\ batchTo \in Nat /\ Len(log) \in Nat
      /\ disk.cursor <= pos /\ pos <= batchTo /\ batchTo <= Len(log) /\ disk.cursor < batchTo
      /\ disk.pending = <<>> /\ TwinRows(pos, batchTo) = {}
  BY DEF Save, PassOK, PhaseOK, TypeOK, NoCursor
<1>2. /\ disk'.cursor = batchTo /\ disk'.pending = <<BatchReport>>
      /\ UNCHANGED <<log, reports, hears, origin>>
  BY DEF Save
<1>3. Feed!Frames(disk.cursor, batchTo) \subseteq {t \in Seqs : hears[t] > 0}
  <2> SUFFICES ASSUME NEW t \in Sayable(disk.cursor, batchTo) PROVE t \in Seqs /\ hears[t] > 0
    BY <1>1, FeedFrames
  <2>1. t \in TwinRows(disk.cursor, pos) /\ log[t].v201 /\ t \in Seqs
    BY <1>1 DEF Sayable, TwinRows, Seqs
  <2> QED BY <2>1 DEF Save, PassOK, OutcomesTrue
<1>4. SpanOf(BatchReport) = [from |-> disk.cursor + 1, to |-> batchTo]
  BY DEF SpanOf, BatchReport
<1>5. [i \in 1..Len(disk'.pending) |-> SpanOf(disk'.pending[i])] = <<SpanOf(BatchReport)>>
  BY <1>2
<1>6. [i \in 1..Len(disk.pending) |-> SpanOf(disk.pending[i])] = <<>>
  BY <1>1
<1> QED BY <1>1, <1>2, <1>3, <1>4, <1>5, <1>6 DEF Feed!Account, NoCursor

(* A sequence that is not empty and at most one long. *)
LEMMA OneLong ==
  ASSUME NEW S, NEW q \in Seq(S), Len(q) <= 1, q # <<>>
  PROVE  Len(q) = 1 /\ q[1] \in S
<1>1. Len(q) \in Nat \ {0}
  BY EmptySeq, Zenon
<1>2. Len(q) = 1
  BY <1>1, Len(q) <= 1
<1>3. 1 \in 1..Len(q)
  BY <1>2
<1> QED BY <1>2, <1>3, ElementOfSeq

(* The report posted is the one owed, and is appended to those kept. *)
LEMMA FeedKeep ==
  ASSUME IInv, disk.pending # <<>>, reports' = Append(reports, disk.pending[1]),
         UNCHANGED <<log, disk, hears, origin>>
  PROVE  Feed!Keep
<1> DEFINE Spans(q) == [i \in 1..Len(q) |-> SpanOf(q[i])]
<1>1. disk.pending \in Seq(Report) /\ Len(disk.pending) = 1 /\ reports \in Seq(Report)
      /\ disk.pending[1] \in Report
  <2>1. disk.pending \in Seq(Report) /\ Len(disk.pending) <= 1 /\ reports \in Seq(Report)
    BY DEF IInv, TypeOK
  <2> QED BY <2>1, OneLong
<1>2. Spans(disk.pending) # <<>> /\ Spans(disk.pending)[1] = SpanOf(disk.pending[1])
  <2>1. 1 \in 1..Len(disk.pending)
    BY <1>1
  <2> QED BY <1>1, <2>1, SpansOf
<1>3. Spans(Append(reports, disk.pending[1])) = Append(Spans(reports), SpanOf(disk.pending[1]))
  BY <1>1
<1> QED BY <1>2, <1>3 DEF Feed!Keep

(* Settling what was pending is the feed's settling. *)
LEMMA FeedSettle == IInv /\ Settle => Feed!Settle
<1> SUFFICES ASSUME IInv, Settle PROVE Feed!Settle
  OBVIOUS
<1> DEFINE Spans(q) == [i \in 1..Len(q) |-> SpanOf(q[i])]
<1>1. /\ disk.pending # <<>> /\ reports # <<>> /\ reports[Len(reports)] = disk.pending[1]
      /\ disk.pending \in Seq(Report) /\ reports \in Seq(Report)
  BY DEF IInv, PhaseOK, TypeOK, Settle
<1>2. disk'.cursor = disk.cursor /\ disk'.pending = <<>> /\ UNCHANGED <<log, reports, hears, origin>>
  BY DEF Settle, IInv, TypeOK
<1>3. Spans(disk.pending) # <<>> /\ Spans(reports) # <<>> /\ Len(Spans(reports)) = Len(reports)
      /\ Spans(reports)[Len(reports)] = Spans(disk.pending)[1]
  <2>1. 1 \in 1..Len(disk.pending) /\ Len(reports) \in 1..Len(reports)
    BY <1>1
  <2>2. /\ Spans(disk.pending) # <<>> /\ Spans(disk.pending)[1] = SpanOf(disk.pending[1])
        /\ Spans(reports) # <<>> /\ Len(Spans(reports)) = Len(reports)
        /\ Spans(reports)[Len(reports)] = SpanOf(reports[Len(reports)])
    BY <1>1, <2>1, SpansOf
  <2> QED BY <1>1, <2>2
<1>4. Spans(disk'.pending) = <<>>
  BY <1>2
<1> QED BY <1>1, <1>2, <1>3, <1>4 DEF Feed!Settle

(* So every step of the relay is a step of the feed, or a stutter. *)
LEMMA FeedStep == IInv /\ [Next]_vars => [Feed!Next]_Feed!vars
<1> SUFFICES ASSUME IInv, [Next]_vars PROVE [Feed!Next]_Feed!vars
  OBVIOUS
<1> USE DEF Feed!Next
<1>1. CASE \E r \in Row : Write(r)
  BY <1>1, FeedWrite
<1>2. CASE StartAtHead
  BY <1>2, FeedStart
<1>3. CASE Say
  <2>1. \E s \in Seqs : IsNextFrame(s) /\ log[s].v201 /\ Hears(s)
    BY <1>3 DEF Say
  <2>2. pc = "deliver" /\ UNCHANGED <<log, reports, disk, origin>>
    BY <1>3 DEF Say
  <2> QED BY <2>1, <2>2, FeedHear
<1>4. CASE Save
  BY <1>4, FeedAccount
<1>5. CASE PostKept \/ PostFails
  <2>1. disk.pending # <<>> /\ UNCHANGED <<log, disk, hears, origin>>
    BY <1>5 DEF PostKept, PostFails, IInv, PhaseOK
  <2>2. reports' = reports \/ reports' = Append(reports, disk.pending[1])
    BY <1>5 DEF PostKept, PostFails
  <2>3. CASE reports' = reports
    <3>1. UNCHANGED <<log, reports, disk, hears, origin>>
      BY <2>1, <2>3
    <3> QED BY <3>1, FeedStutter
  <2>4. CASE reports' = Append(reports, disk.pending[1])
    BY <2>1, <2>4, FeedKeep
  <2> QED BY <2>2, <2>3, <2>4
<1>6. CASE Settle
  BY <1>6, FeedSettle
<1>7. CASE BackEndGone
  <2>1. UNCHANGED <<log, reports, disk, origin>>
    BY <1>7 DEF BackEndGone
  <2>2. CASE UNCHANGED hears
    <3>1. UNCHANGED <<log, reports, disk, hears, origin>>
      BY <2>1, <2>2
    <3> QED BY <3>1, FeedStutter
  <2>3. CASE pc = "deliver" /\ \E s \in Seqs : IsNextFrame(s) /\ log[s].v201 /\ Hears(s)
    BY <2>1, <2>3, FeedHear
  <2> QED BY <1>7, <2>2, <2>3 DEF BackEndGone
<1>8. CASE \/ StartRound \/ Pull \/ PullNothing \/ Connect \/ Boot \/ Refuse
           \/ SettleFails \/ PullFails \/ SaveFails \/ Crash \/ UNCHANGED vars
  <2>1. UNCHANGED <<log, reports, disk, hears, origin>>
    BY <1>8 DEF StartRound, Pull, PullNothing, Connect, Boot, Refuse, SettleFails, PullFails,
                SaveFails, Crash, vars
  <2> QED BY <2>1, FeedStutter
<1> QED BY <1>1, <1>2, <1>3, <1>4, <1>5, <1>6, <1>7, <1>8 DEF Next, RelayStep, FaultStep

(* The relay loop implements the at-least-once, in-order feed, under every fault modelled. *)
THEOREM RelayImplementsFeed == Spec => ImplementsFeed
<1>1. Init => Feed!Init
  BY FeedInit
<1>2. IInv /\ [Next]_vars => [Feed!Next]_Feed!vars
  BY FeedStep
<1> QED BY <1>1, <1>2, RelayInvariant, PTL DEF Spec, ImplementsFeed, Feed!Spec
=============================================================================
