------------------------ MODULE ChargerBackEndProofs ------------------------
(***************************************************************************)
(* What holds of the back end's book for every log, every room and any     *)
(* number of connections. A batch said again makes the book tell old news  *)
(* for a while; what is never lost is which news is old: a transaction of  *)
(* which no frame is still to be said again is told of by its last one.    *)
(* And what holds of a charging station, for every plan, every number of   *)
(* cars and every moment a call may fail at: the register, read whenever   *)
(* the limit changes, is what the plans in force allowed.                  *)
(* And what holds of a robotic post, for every supervisor, every number of *)
(* cars, every tick, window and repair: at the end of a run the monitor's  *)
(* reading of the trace is what happened at the post.                      *)
(***************************************************************************)
EXTENDS ChargerBackEnd, ChargingStation, PostRecord, ArithmeticTheorems

(* The connections: the station speaks on an open one, which is the one it is addressed on. *)
SpokenOn ==
  /\ conn \in [Conns -> {"unused", "open", "broken", "gone"}]
  /\ speaker \in Conns \cup {NoConn} /\ handlers \in Conns \cup {NoConn}
  /\ speaker # NoConn => conn[speaker] = "open" /\ handlers = speaker
  /\ handlers # NoConn => conn[handlers] # "gone"

(* Zero is no connection. *)
LEMMA ConnectionsAreNotZero == NoConn \notin Conns
  BY ConnAssumption DEF NoConn, Conns

(* So it holds of every state the specification reaches. *)
LEMMA SpokenOnIsInvariant == Spec => []SpokenOn
<1>1. Init => SpokenOn
  BY DEF Init, SpokenOn
<1>2. SpokenOn /\ [Next]_vars => SpokenOn'
  <2> SUFFICES ASSUME SpokenOn, [Next]_vars PROVE SpokenOn'
    OBVIOUS
  <2> USE ConnectionsAreNotZero DEF SpokenOn
  <2>1. ASSUME NEW c \in Conns, Connects(c) PROVE SpokenOn'
    BY <2>1 DEF Connects
  <2>2. ASSUME NEW c \in Conns, Notices(c) PROVE SpokenOn'
    BY <2>2 DEF Notices, Forgets
  <2>3. CASE Breaks
    BY <2>3 DEF Breaks, Breaking
  <2>4. CASE Saves
    BY <2>4 DEF Saves
  <2>5. ASSUME NEW answered \in BOOLEAN, Hears(answered) PROVE SpokenOn'
    BY <2>5 DEF Hears, Breaking
  <2>6. CASE UNCHANGED vars
    BY <2>6 DEF vars
  <2> QED BY <2>1, <2>2, <2>3, <2>4, <2>5, <2>6 DEF Next
<1> QED BY <1>1, <1>2, PTL DEF Spec

(* AddressedWhereItSpeaks: whenever the end of an old connection is noticed, the station is commanded *)
(* on the one it speaks on, and never on one whose end is known.                                       *)
THEOREM AddressedOnTheNewest == Spec => []AddressedWhereItSpeaks
<1>1. SpokenOn => AddressedWhereItSpeaks
  BY DEF SpokenOn, AddressedWhereItSpeaks
<1> QED BY <1>1, SpokenOnIsInvariant, PTL

-----------------------------------------------------------------------------
(* The cursor, the frames said since and the furthest handled. *)
Cursors == batch \in Nat /\ pos \in Nat /\ heard \in Nat /\ batch <= pos /\ pos <= heard /\ heard <= Len(Log)

(* The book and what is kept are of the same transactions. *)
BookForm ==
  /\ held \in Seq(Txs) /\ Len(held) <= Keep
  /\ DOMAIN book = Kept /\ \A d \in Kept : book[d] \in EventTypes
  /\ DOMAIN lastSeq \subseteq Kept /\ \A d \in DOMAIN lastSeq : lastSeq[d] \in Nat

IsLast(i, d, n) == i \in 1..n /\ Log[i].tx = d /\ \A j \in (i + 1)..n : Log[j].tx # d

(* What is not to be said again is told of by its last frame. *)
OldNewsIsSaidAgain ==
  \A d \in Kept : (\A j \in (pos + 1)..heard : Log[j].tx # d)
                     => \E i \in 1..pos : IsLast(i, d, pos) /\ book[d] = Log[i].type

Books == Cursors /\ BookForm /\ OldNewsIsSaidAgain

(* What the relay hears is an event of a charger. *)
LEMMA FramesAreEvents ==
  ASSUME NEW i \in 1..Len(Log)
  PROVE  Log[i].tx \in Txs /\ Log[i].seq \in Nat /\ Log[i].type \in EventTypes
<1>1. ASSUME NEW T, Log \in Seq(T) PROVE Log[i] \in T
  BY <1>1
<1>2. Log[i] \in [tx : Txs, seq : Nat, type : EventTypes]
  BY <1>1, LogAssumption
<1> QED BY <1>2

(* The greater of two numbers. *)
LEMMA Further == ASSUME NEW m \in Nat, NEW n \in Nat PROVE Max({m, n}) = IF m < n THEN n ELSE m
<1> DEFINE top == IF m < n THEN n ELSE m
<1>1. top \in {m, n} /\ \A y \in {m, n} : top >= y
  OBVIOUS
<1>2. ASSUME NEW x \in {m, n}, \A y \in {m, n} : x >= y PROVE x = top
  BY <1>2
<1> HIDE DEF top
<1>3. Max({m, n}) = top
  BY <1>1, <1>2 DEF Max
<1> QED BY <1>3 DEF top

(* After an event the book has its transaction, beside those it had, less the one that went. *)
LEMMA HeldAfterEvent ==
  ASSUME held \in Seq(Txs), Len(held) <= Keep, NEW d \in Txs
  PROVE  /\ HeldAfter(d) \in Seq(Txs) /\ Len(HeldAfter(d)) <= Keep
         /\ ToSet(HeldAfter(d)) = {HeldAfter(d)[i] : i \in DOMAIN HeldAfter(d)}
         /\ d \in ToSet(HeldAfter(d))
         /\ ToSet(HeldAfter(d)) \subseteq Kept \cup {d}
         /\ ~Crowded(d) => ToSet(HeldAfter(d)) = Kept \cup {d}
         /\ Crowded(d) => ToSet(Tail(held)) \subseteq ToSet(HeldAfter(d))
<1> USE KeepAssumption
<1>1. CASE d \in Kept
  <2>1. HeldAfter(d) = held /\ ~Crowded(d)
    BY <1>1 DEF HeldAfter, Crowded
  <2> QED BY <1>1, <2>1 DEF ToSet, Kept
<1>2. CASE d \notin Kept /\ Len(held) < Keep
  <2>1. HeldAfter(d) = Append(held, d) /\ ~Crowded(d)
    BY <1>2 DEF HeldAfter, Crowded
  <2>2. Append(held, d) \in Seq(Txs) /\ Len(Append(held, d)) = Len(held) + 1
    OBVIOUS
  <2>3. ToSet(Append(held, d)) = Kept \cup {d}
    <3>1. /\ DOMAIN Append(held, d) = 1..(Len(held) + 1) /\ DOMAIN held = 1..Len(held)
          /\ \A i \in 1..Len(held) : Append(held, d)[i] = held[i]
          /\ Append(held, d)[Len(held) + 1] = d
      OBVIOUS
    <3>2. ASSUME NEW x \in ToSet(Append(held, d)) PROVE x \in Kept \cup {d}
      BY <3>1, <3>2 DEF ToSet, Kept
    <3>3. ASSUME NEW x \in Kept \cup {d} PROVE x \in ToSet(Append(held, d))
      BY <3>1, <3>3 DEF ToSet, Kept
    <3> QED BY <3>2, <3>3
  <2> QED BY <1>2, <2>1, <2>2, <2>3 DEF ToSet
<1>3. CASE d \notin Kept /\ Len(held) >= Keep
  <2>1. HeldAfter(d) = Append(Tail(held), d) /\ Crowded(d)
    BY <1>3 DEF HeldAfter, Crowded
  <2>2. held # <<>> /\ Tail(held) \in Seq(Txs) /\ Len(Tail(held)) = Len(held) - 1
    BY <1>3
  <2>3. ToSet(Tail(held)) \subseteq Kept
    BY <2>2 DEF ToSet, Kept
  <2>4. ToSet(Append(Tail(held), d)) = ToSet(Tail(held)) \cup {d}
    BY <2>2 DEF ToSet
  <2> QED BY <1>3, <2>1, <2>2, <2>3, <2>4 DEF ToSet
<1> QED BY <1>1, <1>2, <1>3

(* What is told of a session keeps the book's form and names the last that was said. *)
LEMMA ToldKeepsForm ==
  ASSUME BookForm, NEW i \in 1..Len(Log), Told(Log[i])
  PROVE  /\ BookForm' /\ Kept' \subseteq Kept \cup {Log[i].tx}
         /\ book'[Log[i].tx] = Log[i].type
         /\ \A d \in Kept' \ {Log[i].tx} : d \in Kept /\ book'[d] = book[d]
<1> DEFINE f == Log[i]
           after == HeldAfter(f.tx)
<1>1. f.tx \in Txs /\ f.seq \in Nat /\ f.type \in EventTypes
  BY FramesAreEvents
<1>2. /\ after \in Seq(Txs) /\ Len(after) <= Keep /\ ToSet(after) = {after[k] : k \in DOMAIN after}
      /\ f.tx \in ToSet(after) /\ ToSet(after) \subseteq Kept \cup {f.tx}
      /\ ~Crowded(f.tx) => ToSet(after) = Kept \cup {f.tx}
      /\ Crowded(f.tx) => ToSet(Tail(held)) \subseteq ToSet(after)
  BY <1>1, HeldAfterEvent DEF BookForm
<1>3. held' = after /\ book' = [t \in ToSet(after) |-> IF t = f.tx THEN f.type ELSE book[t]]
      /\ lastSeq' = SeqAfter(f.tx, f.seq)
  BY DEF Told, BookAfter
<1>4. Kept' = ToSet(after)
  BY <1>2, <1>3 DEF Kept
<1> HIDE DEF f, after
<1>5. DOMAIN lastSeq' \subseteq Kept' /\ \A d \in DOMAIN lastSeq' : lastSeq'[d] \in Nat
  <2>1. CASE Crowded(f.tx)
    BY <2>1, <1>1, <1>2, <1>3, <1>4 DEF SeqAfter, BookForm
  <2>2. CASE ~Crowded(f.tx)
    BY <2>2, <1>1, <1>2, <1>3, <1>4 DEF SeqAfter, BookForm
  <2> QED BY <2>1, <2>2
<1>6. DOMAIN book' = Kept' /\ \A d \in Kept' : book'[d] \in EventTypes
  BY <1>1, <1>2, <1>3, <1>4 DEF BookForm
<1>7. book'[f.tx] = f.type /\ \A d \in Kept' \ {f.tx} : d \in Kept /\ book'[d] = book[d]
  BY <1>2, <1>3, <1>4
<1>8. BookForm' /\ Kept' \subseteq Kept \cup {f.tx}
  BY <1>2, <1>3, <1>4, <1>5, <1>6 DEF BookForm
<1> QED BY <1>7, <1>8 DEF f

-----------------------------------------------------------------------------
(* A batch that begins again: what has no frame after the saved cursor had none since. *)
LEMMA GoingBackKeepsNews ==
  ASSUME Cursors, OldNewsIsSaidAgain, pos' = batch, UNCHANGED <<batch, heard, held, book>>
  PROVE  OldNewsIsSaidAgain'
<1> SUFFICES ASSUME NEW d \in Kept, \A j \in (batch + 1)..heard : Log[j].tx # d
             PROVE  \E i \in 1..batch : IsLast(i, d, batch) /\ book[d] = Log[i].type
  BY DEF OldNewsIsSaidAgain, Kept, IsLast
<1>1. \A j \in (pos + 1)..heard : Log[j].tx # d
  BY DEF Cursors
<1>2. PICK i \in 1..pos : IsLast(i, d, pos) /\ book[d] = Log[i].type
  BY <1>1 DEF OldNewsIsSaidAgain
<1>3. i <= batch
  BY <1>2 DEF IsLast, Cursors
<1>4. IsLast(i, d, batch)
  BY <1>2, <1>3 DEF IsLast, Cursors
<1> QED BY <1>2, <1>3, <1>4 DEF Cursors

(* The next frame is the last of its transaction, and of the others none. *)
LEMMA HearingKeepsNews ==
  ASSUME Cursors, BookForm, OldNewsIsSaidAgain, pos < Len(Log), Told(Log[pos + 1]),
         NEW upto, upto = IF heard < pos + 1 THEN pos + 1 ELSE heard
  PROVE  \A d \in Kept' : (\A j \in (pos + 2)..upto : Log[j].tx # d)
            => \E i \in 1..(pos + 1) : IsLast(i, d, pos + 1) /\ book'[d] = Log[i].type
<1> SUFFICES ASSUME NEW d \in Kept', \A j \in (pos + 2)..upto : Log[j].tx # d
             PROVE  \E i \in 1..(pos + 1) : IsLast(i, d, pos + 1) /\ book'[d] = Log[i].type
  OBVIOUS
<1>1. pos + 1 \in 1..Len(Log)
  BY LogAssumption DEF Cursors
<1>2. /\ book'[Log[pos + 1].tx] = Log[pos + 1].type
      /\ \A t \in Kept' \ {Log[pos + 1].tx} : t \in Kept /\ book'[t] = book[t]
  BY <1>1, ToldKeepsForm
<1>3. CASE d = Log[pos + 1].tx
  <2>1. IsLast(pos + 1, d, pos + 1) /\ book'[d] = Log[pos + 1].type
    BY <1>2, <1>3 DEF IsLast, Cursors
  <2> QED BY <2>1 DEF Cursors
<1>4. CASE d # Log[pos + 1].tx
  <2>1. d \in Kept /\ book'[d] = book[d]
    BY <1>2, <1>4
  <2>2. \A j \in (pos + 1)..heard : Log[j].tx # d
    BY <1>4 DEF Cursors
  <2>3. PICK i \in 1..pos : IsLast(i, d, pos) /\ book[d] = Log[i].type
    BY <2>1, <2>2 DEF OldNewsIsSaidAgain
  <2>4. IsLast(i, d, pos + 1)
    BY <2>3, <1>4 DEF IsLast, Cursors
  <2> QED BY <2>1, <2>3, <2>4 DEF Cursors
<1> QED BY <1>3, <1>4

(* The book depends on the frames, not on the connections nor on how far the cursor is saved. *)
LEMMA SameFramesSameBook ==
  ASSUME Books, UNCHANGED <<pos, heard, held, book, lastSeq>>, batch' = batch \/ batch' = pos
  PROVE  Books'
<1>1. Cursors' /\ Kept' = Kept
  BY DEF Books, Cursors, Kept
<1>2. BookForm'
  BY <1>1 DEF Books, BookForm
<1>3. OldNewsIsSaidAgain'
  BY <1>1 DEF Books, OldNewsIsSaidAgain, IsLast
<1> QED BY <1>1, <1>2, <1>3 DEF Books

(* So the books hold in every state the specification reaches. *)
LEMMA BooksIsInvariant == Spec => []Books
<1>1. Init => Books
  BY LogAssumption, KeepAssumption DEF Init, Books, Cursors, BookForm, Kept, OldNewsIsSaidAgain, NoBook
<1>2. Books /\ [Next]_vars => Books'
  <2> SUFFICES ASSUME Books, [Next]_vars PROVE Books'
    OBVIOUS
  <2>1. ASSUME NEW c \in Conns, Connects(c) \/ Notices(c) PROVE Books'
    BY <2>1, SameFramesSameBook DEF Connects, Notices
  <2>2. CASE UNCHANGED vars
    BY <2>2, SameFramesSameBook DEF vars
  <2>3. CASE Breaks
    <3>1. OldNewsIsSaidAgain'
      BY <2>3, GoingBackKeepsNews DEF Breaks, Breaking, Books
    <3> QED BY <2>3, <3>1 DEF Breaks, Breaking, Books, Cursors, BookForm, Kept
  <2>4. CASE Saves
    BY <2>4, SameFramesSameBook DEF Saves
  <2>5. ASSUME NEW answered \in BOOLEAN, Hears(answered) PROVE Books'
    <3>1. pos < Len(Log) /\ Told(Log[pos + 1]) /\ pos + 1 \in 1..Len(Log) /\ batch' = batch
      BY <2>5, LogAssumption DEF Hears, Books, Cursors
    <3>2. heard' = IF heard < pos + 1 THEN pos + 1 ELSE heard
      BY <2>5, Further DEF Hears, Books, Cursors
    <3>3. BookForm'
      BY <3>1, ToldKeepsForm DEF Books
    <3>4. \A d \in Kept' : (\A j \in (pos + 2)..heard' : Log[j].tx # d)
            => \E i \in 1..(pos + 1) : IsLast(i, d, pos + 1) /\ book'[d] = Log[i].type
      BY <3>1, <3>2, HearingKeepsNews DEF Books
    <3>5. CASE pos' = pos + 1
      <4>1. Cursors'
        BY <3>1, <3>2, <3>5 DEF Books, Cursors
      <4>2. OldNewsIsSaidAgain'
        BY <3>4, <3>5 DEF OldNewsIsSaidAgain, IsLast, Books, Cursors
      <4> QED BY <3>3, <4>1, <4>2 DEF Books
    <3>6. CASE pos' = batch
      <4>1. Cursors'
        BY <3>1, <3>2, <3>6 DEF Books, Cursors
      <4>2. ASSUME NEW d \in Kept', \A j \in (batch + 1)..heard' : Log[j].tx # d
            PROVE  \E i \in 1..batch : IsLast(i, d, batch) /\ book'[d] = Log[i].type
        <5>1. PICK i \in 1..(pos + 1) : IsLast(i, d, pos + 1) /\ book'[d] = Log[i].type
          BY <4>2, <3>4 DEF Books, Cursors
        <5>2. i <= batch /\ IsLast(i, d, batch)
          BY <5>1, <4>2, <3>2 DEF IsLast, Books, Cursors
        <5> QED BY <5>1, <5>2 DEF Books, Cursors
      <4>3. OldNewsIsSaidAgain'
        BY <4>2, <3>6 DEF OldNewsIsSaidAgain, IsLast
      <4> QED BY <3>3, <4>1, <4>3 DEF Books
    <3> QED BY <2>5, <3>5, <3>6 DEF Hears, Breaking
  <2> QED BY <2>1, <2>2, <2>3, <2>4, <2>5 DEF Next
<1> QED BY <1>1, <1>2, PTL DEF Spec

(* BookIsKept: the book is bounded, remembers no seqNo of what it let go, and tells the latest there   *)
(* is of each transaction whenever the relay has caught up, however often a batch was said again.      *)
THEOREM TheBookCatchesUp == Spec => []BookIsKept
<1>1. Books => BookIsLatest
  <2> SUFFICES ASSUME Books, pos = heard, NEW d \in Kept PROVE book[d] = LastEvent(d, pos)
    BY DEF BookIsLatest
  <2>1. PICK i \in 1..pos : IsLast(i, d, pos) /\ book[d] = Log[i].type
    BY DEF Books, Cursors, OldNewsIsSaidAgain
  <2>2. \A k \in 1..pos : IsLast(k, d, pos) => k = i
    BY <2>1 DEF IsLast, Books, Cursors
  <2>3. i = CHOOSE k \in 1..pos : Log[k].tx = d /\ \A j \in (k + 1)..pos : Log[j].tx # d
    BY <2>1, <2>2 DEF IsLast
  <2> QED BY <2>1, <2>3 DEF LastEvent
<1>2. Books /\ SpokenOn => TypeOK /\ BookIsBounded
  <2> SUFFICES ASSUME Books, SpokenOn PROVE TypeOK /\ BookIsBounded
    OBVIOUS
  <2>1. batch \in 0..Len(Log) /\ pos \in batch..Len(Log) /\ heard \in 0..Len(Log)
    BY LogAssumption DEF Books, Cursors
  <2>2. BookForm /\ DOMAIN lastSeq \subseteq Txs
    BY DEF Books, BookForm, Kept
  <2> QED BY <2>1, <2>2 DEF BookForm, SpokenOn, TypeOK, BookIsBounded
<1> QED BY <1>1, <1>2, BooksIsInvariant, SpokenOnIsInvariant, PTL DEF BookIsKept
-----------------------------------------------------------------------------
(* IsSchedule compares neighbours only; in a schedule every later period begins later. *)
LEMMA LaterPeriodsBeginLater ==
  ASSUME NEW plan \in Plans, IsSchedule(plan), NEW i \in DOMAIN plan, NEW j \in DOMAIN plan, i < j
  PROVE  plan[i].from < plan[j].from
<1> DEFINE Wrong == {k \in Nat : k \in DOMAIN plan /\ i < k /\ ~ (plan[i].from < plan[k].from)}
<1>1. plan \in Seq([from : Int, limit : Int])
  BY StationAssumption
<1>2. \A k \in DOMAIN plan : k \in Nat /\ plan[k].from \in Int
  <2>1. DOMAIN plan = 1 .. Len(plan) /\ Len(plan) \in Nat /\ \A k \in DOMAIN plan : plan[k] \in [from : Int, limit : Int]
    BY <1>1, MembersOfSequence
  <2> QED BY <2>1
<1>3. Wrong = {}
  <2> SUFFICES ASSUME Wrong # {} PROVE FALSE
    OBVIOUS
  <2>1. PICK k \in Wrong : \A m \in Wrong : k <= m
    <3> HIDE DEF Wrong
    <3>1. Wrong \subseteq Nat
      BY DEF Wrong
    <3> QED BY <3>1, LeastNumber
  <2>2. k - 1 \in DOMAIN plan /\ k - 1 \in 1 .. Len(plan) - 1 /\ k \in DOMAIN plan /\ i <= k - 1 /\ k - 1 \notin Wrong
    <3>1. k \in Nat /\ k \in DOMAIN plan /\ i < k /\ ~ (plan[i].from < plan[k].from)
      OBVIOUS
    <3>2. DOMAIN plan = 1 .. Len(plan) /\ Len(plan) \in Nat /\ i \in Nat
      BY <1>1, <1>2, MembersOfSequence
    <3>3. k - 1 \in Nat /\ ~ (k <= k - 1)
      BY <3>1, <3>2
    <3> QED BY <2>1, <3>1, <3>2, <3>3
  <2>3. plan[k - 1].from < plan[(k - 1) + 1].from
    BY <2>2 DEF IsSchedule
  <2>4. (k - 1) + 1 = k
    BY <2>2, <1>2
  <2>5. plan[i].from <= plan[k - 1].from
    BY <2>2, <1>2
  <2>6. plan[i].from < plan[k].from
    BY <2>2, <2>3, <2>4, <2>5, <1>2
  <2> QED BY <2>1, <2>6
<1> QED BY <1>2, <1>3

(* The periods that have begun are the first ones, and the last of them is the one that covers. *)
LEMMA TheLastBegunCovers ==
  ASSUME NEW p \in Profiles, IsSchedule(p.plan), NEW since \in Int, since >= 0
  PROVE  LET begun == {i \in DOMAIN p.plan : p.plan[i].from <= since}
         IN  /\ Cardinality(begun) \in DOMAIN p.plan
             /\ \A i \in DOMAIN p.plan : Covers(p, i, since) <=> i = Cardinality(begun)
<1> DEFINE begun == {i \in DOMAIN p.plan : p.plan[i].from <= since}
           NotBegun == {i \in Nat : i # 0 /\ i \notin begun}
<1>1. p.plan \in Plans /\ p.plan \in Seq([from : Int, limit : Int])
  BY StationAssumption DEF Profiles
<1>2. DOMAIN p.plan = 1 .. Len(p.plan) /\ Len(p.plan) \in Nat /\ Len(p.plan) + 1 \in NotBegun
  BY <1>1
<1>3. PICK next \in NotBegun : \A m \in NotBegun : next <= m
  <2> HIDE DEF NotBegun
  <2>1. NotBegun \subseteq Nat /\ NotBegun # {}
    BY <1>2 DEF NotBegun
  <2> QED BY <2>1, LeastNumber
<1>4. \A i \in DOMAIN p.plan : p.plan[i].from \in Int /\ i \in Nat
  <2>1. \A i \in DOMAIN p.plan : p.plan[i] \in [from : Int, limit : Int]
    BY <1>1, MembersOfSequence
  <2> QED BY <1>2, <2>1
<1>5. 1 \in begun
  BY <1>1, <1>2 DEF IsSchedule
<1>6. next - 1 \in begun /\ next \in Nat /\ next - 1 \in Nat /\ next - 1 >= 1
  <2>1. next \in Nat /\ next # 0 /\ next # 1
    BY <1>3, <1>5
  <2>2. next - 1 \notin NotBegun
    BY <1>3, <2>1
  <2> QED BY <2>1, <2>2
<1>7. begun = 1 .. (next - 1)
  <2>1. ASSUME NEW i \in begun PROVE i \in 1 .. (next - 1)
    <3>1. i \in DOMAIN p.plan /\ i \in 1 .. Len(p.plan) /\ p.plan[i].from <= since
      BY <1>2
    <3>2. ~ (i > next)
      <4> SUFFICES ASSUME i > next PROVE FALSE
        OBVIOUS
      <4>1. next \in DOMAIN p.plan /\ next \notin begun
        BY <1>2, <1>3, <1>6, <3>1
      <4>2. p.plan[next].from < p.plan[i].from
        BY <4>1, <3>1, <1>1, LaterPeriodsBeginLater
      <4> QED BY <4>1, <4>2, <3>1, <1>4
    <3>3. i # next
      BY <1>3
    <3> QED BY <3>1, <3>2, <3>3, <1>6, <1>2
  <2>2. ASSUME NEW i \in 1 .. (next - 1) PROVE i \in begun
    <3>1. i \in Nat /\ i # 0 /\ ~ (next <= i)
      BY <1>6
    <3> QED BY <3>1, <1>3
  <2> QED BY <2>1, <2>2
<1>8. Cardinality(begun) = next - 1
  <2>1. Cardinality(1 .. (next - 1)) = IF 1 > next - 1 THEN 0 ELSE (next - 1) - 1 + 1
    BY <1>6, FS_Interval
  <2> HIDE DEF begun
  <2> QED BY <1>6, <1>7, <2>1
<1>9. ASSUME NEW i \in DOMAIN p.plan PROVE Covers(p, i, since) <=> i = next - 1
  <2>1. Covers(p, next - 1, since)
    <3>1. ASSUME NEW j \in DOMAIN p.plan, j > next - 1 PROVE since < p.plan[j].from
      <4>1. j \notin begun
        BY <1>7, <1>6, <3>1, <1>4
      <4> QED BY <4>1, <1>4
    <3> QED BY <3>1, <1>6 DEF Covers
  <2>2. ASSUME Covers(p, i, since) PROVE i = next - 1
    <3>1. i \in begun
      BY <2>2 DEF Covers
    <3>2. i \in Nat /\ i <= next - 1
      BY <3>1, <1>7, <1>6
    <3>3. ~ (next - 1 > i)
      <4>1. next - 1 \in DOMAIN p.plan /\ p.plan[next - 1].from <= since /\ p.plan[next - 1].from \in Int
        BY <1>6, <1>4
      <4> QED BY <4>1, <2>2 DEF Covers
    <3> QED BY <3>2, <3>3, <1>6
  <2> QED BY <2>1, <2>2
<1>10. Cardinality(begun) \in DOMAIN p.plan
  BY <1>8, <1>6
<1> QED BY <1>8, <1>9, <1>10

(* What the station draws by its reading of a profile is what the profile's plan is for. *)
LEMMA PowerIsAllowed ==
  ASSUME NEW p \in Profiles \cup {NoProfile}, NEW moment \in Int,
         p # NoProfile => IsSchedule(p.plan)
  PROVE  PowerAt(p, moment) = Allowed(p, moment) /\ PowerAt(p, moment) \in Int
<1>1. Rating \in Int /\ CarMax \in Int
  BY StationAssumption
<1>2. CASE p = NoProfile \/ moment < p.start
  <2>1. LimitW(p, moment) = Rating /\ Allowed(p, moment) = Lower(Rating, CarMax)
    BY <1>2 DEF LimitW, Allowed
  <2> QED BY <1>1, <2>1 DEF PowerAt, Lower
<1>3. CASE ~ (p = NoProfile \/ moment < p.start)
  <2> DEFINE since == moment - p.start
             begun == {i \in DOMAIN p.plan : p.plan[i].from <= since}
             last == Cardinality(begun)
  <2>1. p \in Profiles /\ IsSchedule(p.plan) /\ p.start \in Nat /\ since \in Int /\ since >= 0
    BY <1>3 DEF Profiles
  <2>2. last \in DOMAIN p.plan /\ \A i \in DOMAIN p.plan : Covers(p, i, since) <=> i = last
    <3> HIDE DEF since
    <3> QED BY <2>1, TheLastBegunCovers
  <2>3. LimitW(p, moment) = p.plan[last].limit
    BY <1>3 DEF LimitW
  <2>4. (CHOOSE i \in DOMAIN p.plan : Covers(p, i, since)) = last
    <3> HIDE DEF last, since
    <3> QED BY <2>2
  <2>5. Allowed(p, moment) = Lower(Lower(Rating, CarMax), p.plan[last].limit)
    <3>1. Allowed(p, moment) = LET period == CHOOSE i \in DOMAIN p.plan : Covers(p, i, since)
                               IN  Lower(Lower(Rating, CarMax), p.plan[period].limit)
      BY <1>3 DEF Allowed
    <3> HIDE DEF last, since
    <3> QED BY <3>1, <2>4
  <2>6. p.plan[last].limit \in Int
    <3>1. p.plan \in Seq([from : Int, limit : Int])
      BY <2>1, StationAssumption DEF Profiles
    <3>2. p.plan[last] \in [from : Int, limit : Int]
      <4> HIDE DEF last
      <4> QED BY <2>2, <3>1, MembersOfSequence
    <3> QED BY <3>2
  <2> HIDE DEF last
  <2> QED BY <1>1, <2>3, <2>5, <2>6 DEF PowerAt, Lower
<1> QED BY <1>2, <1>3

StationTypes ==
  /\ now \in Nat /\ at \in {"idle", "status", "authorize", "started", "charging", "updated", "ended", "free"}
  /\ coming \in Cars \cup {NoTx} /\ tx \in Registers \cup {NoTx} /\ leaving \in Registers \cup {NoTx}
  /\ profile \in Profiles \cup {NoProfile} /\ wire \in Seq(Pushes)
  /\ told \subseteq Cars /\ owed \in Int

(* Which of its transactions a method is at. *)
OnTheEvse ==
  /\ at \in {"status", "authorize"} => coming # NoTx
  /\ (tx # NoTx) <=> at \in {"started", "charging", "updated"}
  /\ (leaving # NoTx) <=> at = "ended"

(* No plan but a schedule is on its way or in force, and none of a time to come. *)
Scheduled ==
  /\ profile # NoProfile => IsSchedule(profile.plan) /\ profile.start <= now
  /\ \A i \in DOMAIN wire : IsSchedule(wire[i].plan) /\ wire[i].start <= now

Here == IF tx = NoTx THEN leaving ELSE tx
ProfileIsHere == ~failed /\ profile # NoProfile =>
                   Here # NoTx /\ profile.given = Here.id /\ profile.tx \in {NoTx, Here.id}
RegisterIsDue ==
  /\ tx # NoTx => tx.meteredTo <= now
  /\ ~coarse /\ tx # NoTx => tx.energy + PowerAt(profile, tx.meteredTo) * (now - tx.meteredTo) = owed
  /\ ~coarse /\ leaving # NoTx => leaving.energy = owed

StationInv == StationTypes /\ OnTheEvse /\ Scheduled /\ ProfileIsHere /\ RegisterIsDue

(* A register has a car, a moment and an energy; none of it is the mark of an absent one. *)
LEMMA RegisterForm ==
  /\ \A r \in Registers : r.id \in Cars /\ r.meteredTo \in Nat /\ r.energy \in Int
  /\ NoTx \notin Registers /\ NoTx \notin Cars /\ NoProfile \notin Profiles
  BY StationAssumption DEF Registers

(* Of the profile in force, whatever it is: limit_w reads what its plan allows. *)
LEMMA PowerInForce ==
  ASSUME StationTypes, Scheduled, NEW moment \in Int
  PROVE  PowerAt(profile, moment) = Allowed(profile, moment) /\ PowerAt(profile, moment) \in Int
<1>1. profile \in Profiles \cup {NoProfile} /\ (profile # NoProfile => IsSchedule(profile.plan))
  BY DEF StationTypes, Scheduled
<1> QED BY <1>1, PowerIsAllowed

(* Reading the register up to now settles what was due. *)
LEMMA ReadSettles ==
  ASSUME StationInv, tx # NoTx
  PROVE  /\ Read(tx) \in Registers /\ Read(tx) # NoTx
         /\ Read(tx).id = tx.id /\ Read(tx).meteredTo = now
         /\ ~coarse => Read(tx).energy = owed
<1>1. tx \in Registers /\ now \in Nat /\ tx.meteredTo \in Nat /\ tx.energy \in Int /\ tx.id \in Cars
  BY RegisterForm DEF StationInv, StationTypes
<1>2. PowerAt(profile, tx.meteredTo) \in Int
  BY <1>1, PowerInForce DEF StationInv
<1>3. Read(tx) = [tx EXCEPT !.energy = tx.energy + PowerAt(profile, tx.meteredTo) * (now - tx.meteredTo), !.meteredTo = now]
  BY DEF Read
<1>4. PowerAt(profile, tx.meteredTo) * (now - tx.meteredTo) \in Int
  BY <1>1, <1>2
<1>5. tx = [id |-> tx.id, meteredTo |-> tx.meteredTo, energy |-> tx.energy]
  BY <1>1 DEF Registers
<1>6. Read(tx) = [id |-> tx.id, meteredTo |-> now, energy |-> tx.energy + PowerAt(profile, tx.meteredTo) * (now - tx.meteredTo)]
  BY <1>3, <1>5
<1>7. Read(tx) \in Registers
  BY <1>1, <1>4, <1>6 DEF Registers
<1>8. ~coarse => Read(tx).energy = owed
  BY <1>6 DEF StationInv, RegisterIsDue
<1> QED BY <1>6, <1>7, <1>8, RegisterForm

(* A station that has just been made holds nothing. *)
LEMMA StationInvInit == StationInit => StationInv
<1> SUFFICES ASSUME StationInit PROVE StationInv
  OBVIOUS
<1>1. StationTypes
  <2>1. wire \in Seq(Pushes)
    BY DEF StationInit
  <2> QED BY <2>1 DEF StationInit, StationTypes
<1> QED BY <1>1, RegisterForm DEF StationInit, StationInv, OnTheEvse, Scheduled, ProfileIsHere, RegisterIsDue, Here

(* What the station holds together, method by method, with a plan accepted or refused in between. *)
LEMMA StationInvStep == StationInv /\ [StationNext]_stationVars => StationInv'
<1> SUFFICES ASSUME StationInv, [StationNext]_stationVars PROVE StationInv'
  OBVIOUS
<1> USE RegisterForm DEF StationInv
<1>1. ASSUME NEW t \in Cars, StartTransaction(t) PROVE StationInv'
  BY <1>1 DEF StartTransaction, StationTypes, OnTheEvse, Scheduled, ProfileIsHere, RegisterIsDue, Here
<1>2. CASE StatusAnswered
  BY <1>2 DEF StatusAnswered, StationTypes, OnTheEvse, Scheduled, ProfileIsHere, RegisterIsDue, Here
<1>3. CASE Authorized
  <2>1. coming \in Cars /\ now \in Nat
    BY <1>3 DEF Authorized, OnTheEvse, StationTypes
  <2>2. tx' = [id |-> coming, meteredTo |-> now, energy |-> 0] /\ tx' \in Registers /\ tx' # NoTx
    BY <1>3, <2>1 DEF Authorized, Registers
  <2>3. StationTypes'
    <3>1. coming' = NoTx /\ owed' = 0 /\ at' = "started" /\ UNCHANGED <<now, leaving, profile, wire, told>>
      BY <1>3 DEF Authorized
    <3> QED BY <2>2, <3>1 DEF StationTypes
  <2>4. OnTheEvse' /\ Scheduled'
    BY <1>3, <2>2 DEF Authorized, OnTheEvse, Scheduled
  <2>5. ProfileIsHere'
    BY <1>3, <2>2 DEF Authorized, OnTheEvse, ProfileIsHere, Here
  <2>6. PowerAt(profile, now) \in Int
    BY <2>1, PowerInForce
  <2>7. RegisterIsDue'
    BY <1>3, <2>1, <2>2, <2>6 DEF Authorized, OnTheEvse, RegisterIsDue
  <2> QED BY <2>3, <2>4, <2>5, <2>7
<1>4. CASE StartedAnswered
  BY <1>4 DEF StartedAnswered, StationTypes, OnTheEvse, Scheduled, ProfileIsHere, RegisterIsDue, Here
<1>5. CASE Meter
  <2>1. tx # NoTx /\ now \in Nat
    BY <1>5 DEF Meter, OnTheEvse, StationTypes
  <2>2. /\ tx' \in Registers /\ tx' # NoTx /\ tx'.id = tx.id /\ tx'.meteredTo = now
        /\ ~coarse => tx'.energy = owed
    BY <1>5, <2>1, ReadSettles DEF Meter
  <2>3. StationTypes' /\ OnTheEvse' /\ Scheduled' /\ ProfileIsHere'
    BY <1>5, <2>1, <2>2 DEF Meter, StationTypes, OnTheEvse, Scheduled, ProfileIsHere, Here
  <2>4. PowerAt(profile, now) \in Int
    BY <2>1, PowerInForce
  <2>5. RegisterIsDue'
    <3>1. PowerAt(profile, now) * (now - now) = 0 /\ (~coarse => tx'.energy \in Int) /\ tx'.energy \in Int
      BY <2>1, <2>2, <2>4
    <3> QED BY <1>5, <2>1, <2>2, <3>1 DEF Meter, OnTheEvse, RegisterIsDue
  <2> QED BY <2>3, <2>5
<1>6. CASE UpdatedAnswered
  BY <1>6 DEF UpdatedAnswered, StationTypes, OnTheEvse, Scheduled, ProfileIsHere, RegisterIsDue, Here
<1>7. CASE StopTransaction
  BY <1>7, ReadSettles DEF StopTransaction, StationTypes, OnTheEvse, Scheduled, ProfileIsHere, RegisterIsDue, Here
<1>8. CASE EndedAnswered
  BY <1>8 DEF EndedAnswered, StationTypes, OnTheEvse, Scheduled, ProfileIsHere, RegisterIsDue, Here
<1>9. CASE FreeAnswered
  BY <1>9 DEF FreeAnswered, StationTypes, OnTheEvse, Scheduled, ProfileIsHere, RegisterIsDue, Here
<1>10. ASSUME NEW got \in BOOLEAN, CallFails(got) PROVE StationInv'
  BY <1>10 DEF CallFails, StationTypes, OnTheEvse, Scheduled, ProfileIsHere, RegisterIsDue, Here
<1>11. ASSUME NEW t \in Cars \cup {NoTx}, NEW plan \in Plans, Push(t, plan) PROVE StationInv'
  BY <1>11 DEF Push, StationTypes, OnTheEvse, Scheduled, ProfileIsHere, RegisterIsDue, Here, Pushes
<1>12. CASE OnSetChargingProfile
  <2>1. wire # <<>> /\ wire' = Tail(wire)
    BY <1>12 DEF OnSetChargingProfile
  <2>2. Head(wire) \in Pushes /\ Head(wire) = wire[1] /\ 1 \in DOMAIN wire
    BY <2>1 DEF StationTypes
  <2>3. wire' \in Seq(Pushes) /\ \A i \in DOMAIN wire' : i + 1 \in DOMAIN wire /\ wire'[i] = wire[i + 1]
    BY <2>1 DEF StationTypes
  <2>4. UNCHANGED <<now, at, coming, tx, leaving, told, owed, failed>>
    BY <1>12 DEF OnSetChargingProfile
  <2>5. CASE Accepts(Head(wire))
    <3>1. tx # NoTx /\ tx \in Registers /\ tx.id \in Cars /\ Head(wire).tx \in {NoTx, tx.id}
      BY <2>5 DEF Accepts, StationTypes
    <3>2. profile' = InForce(Head(wire), tx.id) /\ coarse' = (coarse \/ tx.meteredTo < now)
      BY <1>12, <2>5 DEF OnSetChargingProfile
    <3>3. profile' \in Profiles /\ profile' # NoProfile
      BY <2>2, <3>1, <3>2 DEF InForce, Pushes, Profiles
    <3>4. /\ profile'.plan = Head(wire).plan /\ profile'.start = Head(wire).start
          /\ profile'.tx = Head(wire).tx /\ profile'.given = tx.id
      BY <3>2 DEF InForce
    <3>5. Scheduled'
      BY <2>2, <2>3, <2>4, <3>3, <3>4 DEF Scheduled
    <3>6. StationTypes' /\ OnTheEvse'
      BY <2>3, <2>4, <3>2, <3>3 DEF StationTypes, OnTheEvse
    <3>7. ProfileIsHere'
      BY <2>4, <3>1, <3>4 DEF ProfileIsHere, Here
    <3>8. PowerAt(profile', now) \in Int /\ PowerAt(profile, now) \in Int /\ now \in Nat
      <4>1. now \in Int /\ now \in Nat
        BY DEF StationTypes
      <4>2. PowerAt(profile', now) \in Int
        <5>1. profile' \in Profiles \cup {NoProfile} /\ (profile' # NoProfile => IsSchedule(profile'.plan))
          BY <3>3, <3>5 DEF Scheduled
        <5> QED BY <4>1, <5>1, PowerIsAllowed
      <4> QED BY <4>1, <4>2, PowerInForce
    <3>9. RegisterIsDue'
      <4> SUFFICES ASSUME ~coarse'
                   PROVE  tx.energy + PowerAt(profile', tx.meteredTo) * (now - tx.meteredTo) = owed
        BY <2>4, <3>1, <3>2 DEF RegisterIsDue, OnTheEvse
      <4>1. ~coarse /\ tx.meteredTo = now
        <5>1. ~coarse /\ ~ (tx.meteredTo < now)
          BY <3>2, Zenon
        <5>2. tx.meteredTo <= now /\ tx.meteredTo \in Nat
          BY <3>1 DEF RegisterIsDue
        <5> QED BY <3>8, <5>1, <5>2
      <4>2. PowerAt(profile', now) * (now - now) = 0 /\ PowerAt(profile, now) * (now - now) = 0
        BY <3>8
      <4> QED BY <3>1, <4>1, <4>2 DEF RegisterIsDue
    <3> QED BY <3>5, <3>6, <3>7, <3>9
  <2>6. CASE ~ Accepts(Head(wire))
    <3>1. UNCHANGED <<profile, coarse>>
      BY <1>12, <2>6 DEF OnSetChargingProfile
    <3> QED BY <2>3, <2>4, <3>1 DEF StationTypes, OnTheEvse, Scheduled, ProfileIsHere, RegisterIsDue, Here
  <2> QED BY <2>5, <2>6
<1>13. CASE Passes
  <2>1. now \in Nat /\ now' = now + 1 /\ UNCHANGED <<at, coming, tx, leaving, profile, wire, told, failed>>
    BY <1>13 DEF Passes, StationTypes
  <2>2. /\ PowerAt(profile, now) = Allowed(profile, now) /\ PowerAt(profile, now) \in Int
        /\ tx # NoTx => /\ PowerAt(profile, tx.meteredTo) = Allowed(profile, tx.meteredTo)
                        /\ PowerAt(profile, tx.meteredTo) \in Int
    <3>1. now \in Int /\ (tx # NoTx => tx.meteredTo \in Int)
      BY DEF StationTypes
    <3> QED BY <3>1, PowerInForce
  <2>3. \A i \in DOMAIN wire : wire[i].start \in Nat
    <3>1. wire \in Seq(Pushes)
      BY DEF StationTypes
    <3>2. \A i \in DOMAIN wire : wire[i] \in Pushes
      BY <3>1, MembersOfSequence
    <3> QED BY <3>2 DEF Pushes
  <2>4. profile # NoProfile => profile.start \in Nat
    BY DEF StationTypes, Profiles
  <2>5. Scheduled' /\ ProfileIsHere' /\ OnTheEvse'
    BY <2>1, <2>3, <2>4 DEF Scheduled, ProfileIsHere, OnTheEvse, Here
  <2>6. CASE at = "charging"
    <3>1. /\ owed' = owed + Allowed(profile, now)
          /\ coarse' = (coarse \/ Allowed(profile, now) # Allowed(profile, tx.meteredTo))
      BY <1>13, <2>6 DEF Passes
    <3>2. tx # NoTx /\ leaving = NoTx /\ tx.meteredTo \in Nat /\ tx.energy \in Int
      BY <2>6 DEF OnTheEvse, StationTypes
    <3>3. StationTypes'
      BY <2>1, <2>2, <3>1 DEF StationTypes
    <3>4. RegisterIsDue'
      <4> SUFFICES ASSUME ~coarse'
                   PROVE  tx.energy + PowerAt(profile, tx.meteredTo) * (now' - tx.meteredTo) = owed'
        BY <2>1, <3>2 DEF RegisterIsDue
      <4> DEFINE W == PowerAt(profile, tx.meteredTo)
      <4>1. ~coarse /\ Allowed(profile, now) = W /\ W \in Int
        <5>1. ~coarse /\ Allowed(profile, now) = Allowed(profile, tx.meteredTo)
          BY <3>1, Zenon
        <5> QED BY <2>2, <3>2, <5>1
      <4>2. tx.energy + W * (now - tx.meteredTo) = owed
        BY <3>2, <4>1 DEF RegisterIsDue
      <4>3. W * ((now + 1) - tx.meteredTo) = W * (now - tx.meteredTo) + W /\ W * (now - tx.meteredTo) \in Int
        <5>1. now \in Int /\ tx.meteredTo \in Int /\ W \in Int
          BY <2>1, <3>2, <4>1
        <5>2. \A x, y, w \in Int : w * ((x + 1) - y) = w * (x - y) + w /\ w * (x - y) \in Int
          OBVIOUS
        <5> HIDE DEF W
        <5> QED BY <5>1, <5>2
      <4>4. owed' = owed + W /\ now' = now + 1
        BY <2>1, <3>1, <4>1
      <4> HIDE DEF W
      <4>5. tx.energy + W * (now' - tx.meteredTo) = owed'
        BY <2>1, <3>2, <4>1, <4>2, <4>3, <4>4
      <4> QED BY <4>5 DEF W
    <3> QED BY <2>5, <3>3, <3>4
  <2>7. CASE at # "charging"
    <3>1. UNCHANGED <<owed, coarse>> /\ tx = NoTx /\ leaving = NoTx
      BY <1>13, <2>7 DEF Passes, OnTheEvse
    <3> QED BY <2>1, <2>5, <3>1 DEF StationTypes, RegisterIsDue
  <2> QED BY <2>6, <2>7
<1>14. CASE UNCHANGED stationVars
  BY <1>14 DEF stationVars, StationTypes, OnTheEvse, Scheduled, ProfileIsHere, RegisterIsDue, Here
<1> QED BY <1>1, <1>2, <1>3, <1>4, <1>5, <1>6, <1>7, <1>8, <1>9, <1>10, <1>11, <1>12, <1>13, <1>14 DEF StationNext

(* SimStation: no plan outlives the transaction it was accepted for, and a
   register read whenever the limit changes tells exactly what the plans in
   force have allowed since the transaction began, however many periods they
   have and whatever calls fail. *)
THEOREM TheStationHonoursThePlan == StationSpec => []StationHonoursThePlan
<1>1. StationInv => StationHonoursThePlan
  <2> SUFFICES ASSUME StationInv PROVE StationHonoursThePlan
    OBVIOUS
  <2>1. ASSUME ~coarse, Here # NoTx, Here.meteredTo = now PROVE Here.energy = owed
    <3>1. CASE tx = NoTx
      BY <2>1, <3>1 DEF StationInv, RegisterIsDue, Here
    <3>2. CASE tx # NoTx
      <4>1. Here = tx
        BY <3>2 DEF Here
      <4>2. PowerAt(profile, tx.meteredTo) \in Int /\ tx.energy \in Int /\ now \in Nat
        BY <3>2, PowerIsAllowed, RegisterForm, SMTT(30) DEF StationInv, StationTypes, Scheduled
      <4>3. PowerAt(profile, tx.meteredTo) * (now - tx.meteredTo) = 0
        BY <2>1, <4>1, <4>2
      <4> QED BY <2>1, <3>2, <4>1, <4>2, <4>3 DEF StationInv, RegisterIsDue
    <3> QED BY <3>1, <3>2
  <2> QED BY <2>1 DEF StationInv, StationHonoursThePlan, ProfileIsHere, Here
<1> QED BY <1>1, StationInvInit, StationInvStep, PTL DEF StationSpec

-----------------------------------------------------------------------------
(* A move of an automaton is from where, by what, to where. *)
LEMMA MovesAreTriples ==
  \A a \in DOMAIN Plant : \A e \in Plant[a] : e = <<e[1], e[2], e[3]>>
<1>1. \A locs, evs : \A e \in Stay(locs, evs) : e = <<e[1], e[2], e[3]>>
  BY DEF Stay
<1>2. \A from, evs, to : \A e \in Go(from, evs, to) : e = <<e[1], e[2], e[3]>>
  BY DEF Go
<1>3. \A e \in Charger : e = <<e[1], e[2], e[3]>>
  BY <1>1, <1>2 DEF Charger
<1>4. \A e \in ChargeArm : e = <<e[1], e[2], e[3]>>
  BY <1>1, <1>2 DEF ChargeArm
<1>5. \A e \in CleanArm : e = <<e[1], e[2], e[3]>>
  BY <1>1, <1>2 DEF CleanArm
<1>6. \A e \in Tether : e = <<e[1], e[2], e[3]>>
  BY <1>1, <1>2 DEF Tether
<1>7. \A e \in Car : e = <<e[1], e[2], e[3]>>
  BY <1>1, <1>2 DEF Car
<1>8. \A e \in Battery \cup Cabin : e = <<e[1], e[2], e[3]>>
  BY <1>1, <1>2 DEF Battery, Cabin
<1> QED BY <1>3, <1>4, <1>5, <1>6, <1>7, <1>8 DEF Plant

(* An event takes an automaton along one of its moves, or leaves it where it is. *)
LEMMA Moved ==
  ASSUME NEW s, NEW ev \in Events, PlantAllows(s, ev), NEW a \in DOMAIN Plant
  PROVE  \/ <<s[a], ev, After(s, ev)[a]>> \in Plant[a]
         \/ After(s, ev)[a] = s[a] /\ \A e \in Plant[a] : e[2] # ev
<1>1. CASE \E e \in Plant[a] : e[2] = ev
  <2>1. a \in DOMAIN Moves[ev] /\ After(s, ev)[a] = Moves[ev][a][s[a]]
    BY <1>1 DEF Moves, After
  <2>2. s[a] \in DOMAIN Moves[ev][a]
    BY <2>1 DEF PlantAllows
  <2>3. DOMAIN Moves[ev][a] = {e[1] : e \in {x \in Plant[a] : x[2] = ev}}
    BY <1>1 DEF Moves
  <2>4. Moves[ev][a][s[a]] = (CHOOSE e \in Plant[a] : e[1] = s[a] /\ e[2] = ev)[3]
    BY <1>1, <2>2, <2>3 DEF Moves
  <2>5. \E e \in Plant[a] : e[1] = s[a] /\ e[2] = ev
    BY <2>2, <2>3
  <2> DEFINE m == CHOOSE e \in Plant[a] : e[1] = s[a] /\ e[2] = ev
  <2>6. m \in Plant[a] /\ m[1] = s[a] /\ m[2] = ev
    BY <2>5
  <2>7. m = <<s[a], ev, m[3]>>
    BY <2>6, MovesAreTriples
  <2> QED BY <2>1, <2>4, <2>6, <2>7
<1>2. CASE ~ \E e \in Plant[a] : e[2] = ev
  BY <1>2 DEF Moves, After
<1> QED BY <1>1, <1>2

(* What an event does to the charger. *)
ChargerTakes(s, ev, n) ==
  /\ ev = "c_mate_start" => <<s.Charger, n.Charger>> \in {<<"Available", "Occupied">>, <<"Faulted", "Faulted">>, <<"UnderRepair", "UnderRepair">>}
  /\ ev = "u_fault" => s.Charger \in {"Available", "Occupied"} /\ n.Charger = "Faulted"
  /\ ev = "u_charge_complete" => s.Charger = "Occupied" /\ n.Charger = "Available"
  /\ ev = "c_stop_charge" => s.Charger = "Occupied" /\ n.Charger = "Available"
  /\ ev = "c_emergency_release" => s.Charger \in {"Faulted", "UnderRepair"} /\ n.Charger = s.Charger
  /\ ev = "u_repair_start" => s.Charger = "Faulted" /\ n.Charger = "UnderRepair"
  /\ ev = "u_repaired" => s.Charger = "UnderRepair" /\ n.Charger = "Available"
  /\ ev \notin {"c_mate_start", "u_fault", "u_charge_complete", "c_stop_charge", "c_mate_abort",
                "c_emergency_release", "u_repair_start", "u_repaired"} => n.Charger = s.Charger

(* An event that the plant allows does that to the charger. *)
LEMMA ChargerIsTaken ==
  ASSUME NEW s, NEW ev \in Events, PlantAllows(s, ev)
  PROVE  ChargerTakes(s, ev, After(s, ev))
<1> DEFINE l == s.Charger
           m == After(s, ev).Charger
<1>1. <<l, ev, m>> \in Charger \/ (l = m /\ \A e \in Charger : e[2] # ev)
  <2>1. Plant.Charger = Charger /\ "Charger" \in DOMAIN Plant
    BY DEF Plant
  <2> QED BY <2>1, Moved
<1>2. CASE l = m /\ \A e \in Charger : e[2] # ev
  <2>1. /\ <<"Available", "c_mate_start", "Occupied">> \in Charger
        /\ <<"Available", "u_fault", "Faulted">> \in Charger
        /\ <<"Occupied", "u_charge_complete", "Available">> \in Charger
        /\ <<"Occupied", "c_stop_charge", "Available">> \in Charger
        /\ <<"Occupied", "c_mate_abort", "Available">> \in Charger
        /\ <<"Faulted", "c_emergency_release", "Faulted">> \in Charger
        /\ <<"Faulted", "u_repair_start", "UnderRepair">> \in Charger
        /\ <<"UnderRepair", "u_repaired", "Available">> \in Charger
    BY DEF Charger, Go, Stay
  <2> QED BY <1>2, <2>1 DEF ChargerTakes
<1>3. CASE <<l, ev, m>> \in Charger
  BY <1>3 DEF Charger, ChargerTakes, Go, Stay
<1> QED BY <1>1, <1>2, <1>3

(* What an event does to the charge arm. *)
ChargeArmTakes(s, ev, n) ==
  /\ ev = "c_mate_start" => s.ChargeArm = "Stowed" /\ n.ChargeArm = "Approach"
  /\ ev = "u_at_inlet" => s.ChargeArm = "Approach" /\ n.ChargeArm = "Insert"
  /\ ev = "u_latched" => s.ChargeArm = "Insert" /\ n.ChargeArm = "Latched"
  /\ ev = "u_charge_complete" => s.ChargeArm = "Latched" /\ n.ChargeArm = "Latched"
  /\ ev = "c_stop_charge" => s.ChargeArm = "Latched" /\ n.ChargeArm = "Latched"
  /\ ev = "c_unlatch" => s.ChargeArm = "Latched" /\ n.ChargeArm = "Unlatch"
  /\ ev = "c_emergency_release" => s.ChargeArm = "Latched" /\ n.ChargeArm = "Retract"
  /\ ev = "u_unlatched" => s.ChargeArm = "Unlatch" /\ n.ChargeArm = "Extract"
  /\ ev = "u_extracted" => s.ChargeArm = "Extract" /\ n.ChargeArm = "Retract"
  /\ ev = "u_cleared" => s.ChargeArm = "Retract" /\ n.ChargeArm = "Stowed"
  /\ ev \notin {"c_mate_start", "u_at_inlet", "c_mate_abort", "u_latched", "u_charge_complete",
                "c_stop_charge", "c_unlatch", "c_emergency_release", "u_unlatched", "u_extracted",
                "u_cleared"} => n.ChargeArm = s.ChargeArm

(* An event that the plant allows does that to the charge arm. *)
LEMMA ChargeArmIsTaken ==
  ASSUME NEW s, NEW ev \in Events, PlantAllows(s, ev)
  PROVE  ChargeArmTakes(s, ev, After(s, ev))
<1> DEFINE l == s.ChargeArm
           m == After(s, ev).ChargeArm
<1>1. <<l, ev, m>> \in ChargeArm \/ (l = m /\ \A e \in ChargeArm : e[2] # ev)
  <2>1. Plant.ChargeArm = ChargeArm /\ "ChargeArm" \in DOMAIN Plant
    BY DEF Plant
  <2> QED BY <2>1, Moved
<1>2. CASE l = m /\ \A e \in ChargeArm : e[2] # ev
  <2>1. /\ <<"Stowed", "c_mate_start", "Approach">> \in ChargeArm
        /\ <<"Approach", "u_at_inlet", "Insert">> \in ChargeArm
        /\ <<"Approach", "c_mate_abort", "Retract">> \in ChargeArm
        /\ <<"Insert", "u_latched", "Latched">> \in ChargeArm
        /\ <<"Latched", "u_charge_complete", "Latched">> \in ChargeArm
        /\ <<"Latched", "c_stop_charge", "Latched">> \in ChargeArm
        /\ <<"Latched", "c_unlatch", "Unlatch">> \in ChargeArm
        /\ <<"Latched", "c_emergency_release", "Retract">> \in ChargeArm
        /\ <<"Unlatch", "u_unlatched", "Extract">> \in ChargeArm
        /\ <<"Extract", "u_extracted", "Retract">> \in ChargeArm
        /\ <<"Retract", "u_cleared", "Stowed">> \in ChargeArm
    BY DEF ChargeArm, Go, Stay
  <2> QED BY <1>2, <2>1 DEF ChargeArmTakes
<1>3. CASE <<l, ev, m>> \in ChargeArm
  BY <1>3 DEF ChargeArm, ChargeArmTakes, Go, Stay
<1> QED BY <1>1, <1>2, <1>3

(* What an event does to the tether. *)
TetherTakes(s, ev, n) ==
  /\ ev = "c_mate_start" => s.Tether = "None" /\ n.Tether = "Mate"
  /\ ev = "c_release" => s.Tether \in {"None", "Expired"} /\ n.Tether = "None"
  /\ ev = "u_cleared" => <<s.Tether, n.Tether>> \in {<<"None", "None">>, <<"Demate", "Expired">>}
  /\ ev = "u_latched" => s.Tether = "Mate" /\ n.Tether = "Charging"
  /\ ev = "c_unlatch" => s.Tether = "Charging" /\ n.Tether = "Demate"
  /\ ev = "c_emergency_release" => s.Tether = "Charging" /\ n.Tether = "None"
  /\ ev = "c_hold" => s.Tether = "Expired" /\ n.Tether = "Held"
  /\ ev = "u_tick" => s.Tether = "Held" /\ n.Tether = "Expired"
  /\ ev \notin {"c_mate_start", "c_release", "u_cleared", "u_latched", "c_mate_abort", "c_unlatch",
                "c_emergency_release", "c_hold", "u_tick"} => n.Tether = s.Tether

(* An event that the plant allows does that to the tether. *)
LEMMA TetherIsTaken ==
  ASSUME NEW s, NEW ev \in Events, PlantAllows(s, ev)
  PROVE  TetherTakes(s, ev, After(s, ev))
<1> DEFINE l == s.Tether
           m == After(s, ev).Tether
<1>1. <<l, ev, m>> \in Tether \/ (l = m /\ \A e \in Tether : e[2] # ev)
  <2>1. Plant.Tether = Tether /\ "Tether" \in DOMAIN Plant
    BY DEF Plant
  <2> QED BY <2>1, Moved
<1>2. CASE l = m /\ \A e \in Tether : e[2] # ev
  <2>1. /\ <<"None", "c_mate_start", "Mate">> \in Tether
        /\ <<"None", "c_release", "None">> \in Tether
        /\ <<"None", "u_cleared", "None">> \in Tether
        /\ <<"Mate", "u_latched", "Charging">> \in Tether
        /\ <<"Mate", "c_mate_abort", "Demate">> \in Tether
        /\ <<"Charging", "c_unlatch", "Demate">> \in Tether
        /\ <<"Charging", "c_emergency_release", "None">> \in Tether
        /\ <<"Expired", "c_hold", "Held">> \in Tether
        /\ <<"Held", "u_tick", "Expired">> \in Tether
    BY DEF Tether, Go, Stay
  <2> QED BY <1>2, <2>1 DEF TetherTakes
<1>3. CASE <<l, ev, m>> \in Tether
  BY <1>3 DEF Tether, TetherTakes, Go, Stay
<1> QED BY <1>1, <1>2, <1>3

(* What an event does to the car. *)
CarTakes(s, ev, n) ==
  /\ ev = "c_admit" => s.Car = "Inbound" /\ n.Car = "AtPost"
  /\ ev = "c_mate_start" => s.Car = "AtPost" /\ n.Car = "OnCharger"
  /\ ev = "c_clean_start" => s.Car \in {"AtPost", "OnCharger"} /\ n.Car = s.Car
  /\ ev = "c_clean_enter" => s.Car \in {"AtPost", "OnCharger"} /\ n.Car = s.Car
  /\ ev = "c_release" => s.Car \in {"AtPost", "OnCharger"} /\ n.Car = "Left"
  /\ ev = "c_emergency_release" => s.Car = "OnCharger" /\ n.Car = "Left"
  /\ ev = "c_depart_ready" => s.Car = "Left" /\ n.Car = "Ready"
  /\ ev = "c_requeue" => s.Car = "Left" /\ n.Car = "Requeued"
  /\ ev \notin {"c_admit", "c_mate_start", "c_clean_start", "c_clean_enter", "c_release",
                "c_emergency_release", "c_depart_ready", "c_requeue"} => n.Car = s.Car

(* An event that the plant allows does that to the car. *)
LEMMA CarIsTaken ==
  ASSUME NEW s, NEW ev \in Events, PlantAllows(s, ev)
  PROVE  CarTakes(s, ev, After(s, ev))
<1> DEFINE l == s.Car
           m == After(s, ev).Car
<1>1. <<l, ev, m>> \in Car \/ (l = m /\ \A e \in Car : e[2] # ev)
  <2>1. Plant.Car = Car /\ "Car" \in DOMAIN Plant
    BY DEF Plant
  <2> QED BY <2>1, Moved
<1>2. CASE l = m /\ \A e \in Car : e[2] # ev
  <2>1. /\ <<"Inbound", "c_admit", "AtPost">> \in Car
        /\ <<"AtPost", "c_mate_start", "OnCharger">> \in Car
        /\ <<"AtPost", "c_clean_start", "AtPost">> \in Car
        /\ <<"AtPost", "c_clean_enter", "AtPost">> \in Car
        /\ <<"AtPost", "c_release", "Left">> \in Car
        /\ <<"OnCharger", "c_emergency_release", "Left">> \in Car
        /\ <<"Left", "c_depart_ready", "Ready">> \in Car
        /\ <<"Left", "c_requeue", "Requeued">> \in Car
    BY DEF Car, Go, Stay
  <2> QED BY <1>2, <2>1 DEF CarTakes
<1>3. CASE <<l, ev, m>> \in Car
  BY <1>3 DEF Car, CarTakes, Go, Stay
<1> QED BY <1>1, <1>2, <1>3

-----------------------------------------------------------------------------
OutNow == OutOfService(cell)

(* The rows the visits have written, and those of one car. *)
Seen == {rows[i] : i \in 1..Len(rows)}
Mine(c, event) == {x \in Seen : x.car = c /\ x.event = event}
Faults == {x \in Seen : x.event = "charger_faulted"}

(* A fault is over for a reader of the trace once a tick has met the end of its drawn repair. *)
Over(f, t) == \E tick \in 0..t : tick % Step = 0 /\ f.t + f.arg <= tick

(* Where the charger, the charge arm, the tether and the car can be together. *)
CellForm(s) ==
  /\ s.Charger \in {"Available", "Occupied", "Faulted", "UnderRepair"}
  /\ \/ s.Tether = "None" /\ s.ChargeArm = "Stowed" /\ s.Car \in {"Inbound", "AtPost"} /\ s.Charger # "Occupied"
     \/ s.Tether = "Mate" /\ s.ChargeArm \in {"Approach", "Insert"} /\ s.Car = "OnCharger"
     \/ s.Tether = "Charging" /\ s.ChargeArm = "Latched" /\ s.Car = "OnCharger"
     \/ /\ s.Tether = "Demate" /\ s.ChargeArm \in {"Unlatch", "Extract", "Retract"}
        /\ s.Car = "OnCharger" /\ s.Charger # "Occupied"
     \/ s.Tether \in {"Expired", "Held"} /\ s.ChargeArm = "Stowed" /\ s.Car = "OnCharger" /\ s.Charger # "Occupied"
     \/ /\ s.Tether = "None" /\ s.ChargeArm \in {"Stowed", "Retract"}
        /\ s.Car \in {"Left", "Ready", "Requeued"} /\ s.Charger # "Occupied"

Gone(s) == s.Tether = "None" /\ s.Car \in {"Left", "Ready", "Requeued"}

(* What a row of a visit is. *)
Names == {"car_arrived", "mate_started", "mate_latched", "session_completed", "charger_faulted", "demate_started",
          "emergency_release", "demate_cleared", "clean_started", "clean_done", "clean_cancelled", "car_left"}
RowKind == [t : Nat, event : Names, car : Nat, arg : Nat]

(* The run's numbers and its rows have their types. *)
Numbers ==
  /\ car \in Nat /\ instant \in Nat /\ instant <= MaxTick /\ until \in Nat /\ repairAt \in Nat
  /\ rows \in Seq(RowKind)

(* The rows are of this run's past, and those of one instant are in the order of the extraction. *)
RowsForm ==
  /\ \A x \in Seen : x.t <= instant /\ x.car <= car /\ (x.event = "charger_faulted" => x.arg > 0)
  /\ \A x \in Seen : x.t = instant => Last(rows).t = instant /\ Rank(x.event) <= Rank(Last(rows).event)

(* What is out of service is so by a fault that is not over, and nothing else is. *)
FaultsForm ==
  /\ \A f \in Faults : Over(f, instant) \/ (OutNow /\ f.t + f.arg = repairAt)
  /\ OutNow => \E f \in Faults : f.t + f.arg = repairAt
  /\ OutNow => \A tick \in 0..(instant - 1) : tick % Step = 0 => tick < repairAt

(* The mates begun on a dead charger are the ones the trace tells of. *)
MatesForm ==
  deadMates = {x.car : x \in {y \in Seen : y.event = "mate_started" /\ \E f \in Faults : f.t <= y.t /\ ~Over(f, y.t)}}

(* What the present car has written, by how far its visit has come. *)
VisitForm ==
  /\ cell.Car \in {"Inbound", "AtPost"} \/ cell.Tether \in {"Mate", "Charging"}
       => \A event \in {"demate_started", "demate_cleared", "car_left"} : Mine(car, event) = {}
  /\ cell.Car \in {"Inbound", "AtPost"} \/ cell.Tether = "Mate" \/ cell.Charger = "Occupied"
       => Mine(car, "charger_faulted") = {}
  /\ OutNow /\ Mine(car, "charger_faulted") = {}
       => \/ cell.Tether \in {"None", "Mate"}
          \/ cell.Tether = "Charging" /\ AtTick /\ Last(rows).t = instant /\ Rank(Last(rows).event) >= 80

(* How far a faulted visit has come. *)
Linked(f) == OutNow => f.t + f.arg = repairAt
AllAt(c, event, t) == Mine(c, event) # {} /\ \A x \in Mine(c, event) : x.t = t

Plugged(f) ==
  /\ f.car = car /\ cell.Tether = "Charging" /\ f.t = instant /\ AtTick /\ OutNow /\ f.t + f.arg = repairAt
  /\ f.car \notin overstayed
  /\ \A event \in {"demate_started", "demate_cleared", "car_left"} : Mine(f.car, event) = {}
Unplugging(f) ==
  /\ f.car = car /\ cell.Tether = "Demate" /\ Linked(f) /\ f.car \notin overstayed
  /\ AllAt(f.car, "demate_started", f.t) /\ \A x \in Mine(f.car, "demate_started") : x.t + x.arg = until
  /\ \A tick \in 0..(instant - 1) : tick % Step = 0 => tick < until
  /\ \A event \in {"demate_cleared", "car_left"} : Mine(f.car, event) = {}
Staying(f) ==
  /\ f.car = car /\ cell.Tether \in {"Expired", "Held"} /\ Linked(f)
  /\ AllAt(f.car, "demate_started", f.t) /\ Mine(f.car, "car_left") = {}
  /\ \E d \in f.t..instant :
       /\ AllAt(f.car, "demate_cleared", d) /\ d % Step = 0
       /\ f.car \in overstayed <=> d < instant /\ ~Over(f, d)
WentAfter(f) ==
  /\ f.car = car => Gone(cell) /\ cell.ChargeArm = "Stowed"
  /\ AllAt(f.car, "demate_started", f.t)
  /\ \E d \in f.t..instant : \E left \in d..instant :
       /\ AllAt(f.car, "demate_cleared", d) /\ AllAt(f.car, "car_left", left)
       /\ f.car \in overstayed <=> d < left /\ ~Over(f, d)
LetGo(f) ==
  /\ f.car = car => Gone(cell)
  /\ Mine(f.car, "demate_started") = {} /\ AllAt(f.car, "car_left", f.t) /\ f.car \notin overstayed

(* Every faulted visit is at one of these stages, and only a faulted car has overstayed. *)
StaysForm ==
  /\ \A f, g \in Faults : f.car = g.car => f = g
  /\ \A c \in overstayed : Mine(c, "charger_faulted") # {}
  /\ \A f \in Faults : Plugged(f) \/ Unplugging(f) \/ Staying(f) \/ WentAfter(f) \/ LetGo(f)

(* All that is known of a run's visits while it goes on. *)
VisitsForm == Numbers /\ CellForm(cell) /\ RowsForm /\ FaultsForm /\ MatesForm /\ VisitForm /\ StaysForm

-----------------------------------------------------------------------------
(* What an event does to a cell, the cleaning arm, the battery and the cabin left aside. *)
CellTakes(s, ev, n) == ChargerTakes(s, ev, n) /\ ChargeArmTakes(s, ev, n) /\ TetherTakes(s, ev, n) /\ CarTakes(s, ev, n)

(* An event that the plant allows does all of it. *)
LEMMA CellIsTaken ==
  ASSUME NEW s, NEW ev \in Events, PlantAllows(s, ev)
  PROVE  CellTakes(s, ev, After(s, ev))
  BY ChargerIsTaken, ChargeArmIsTaken, TetherIsTaken, CarIsTaken DEF CellTakes

(* The engine abandons no mate; so an event keeps the cell's form. *)
LEMMA CellFormIsKept ==
  ASSUME NEW s, NEW ev, NEW n, CellForm(s), CellTakes(s, ev, n), ev # "c_mate_abort",
         ev = "c_unlatch" => s.Charger # "Occupied"
  PROVE  CellForm(n)
<1>1. n.Charger \in {"Available", "Occupied", "Faulted", "UnderRepair"}
  BY DEF CellForm, CellTakes, ChargerTakes
<1>2. CASE ev = "c_mate_start"
  BY <1>1, <1>2 DEF CellForm, CellTakes, ChargerTakes, ChargeArmTakes, TetherTakes, CarTakes
<1>3. CASE ev # "c_mate_start"
  <2>1. n.Charger = "Occupied" => s.Charger = "Occupied"
    BY <1>3 DEF CellForm, CellTakes, ChargerTakes
  <2> USE <1>1, <1>3, <2>1 DEF CellForm, CellTakes
  <2>2. CASE s.Tether = "None"
    BY <2>2 DEF ChargeArmTakes, TetherTakes, CarTakes
  <2>3. CASE s.Tether = "Mate"
    BY <2>3 DEF ChargeArmTakes, TetherTakes, CarTakes
  <2>4. CASE s.Tether = "Charging"
    BY <2>4 DEF ChargerTakes, ChargeArmTakes, TetherTakes, CarTakes
  <2>5. CASE s.Tether = "Demate"
    BY <2>5 DEF ChargeArmTakes, TetherTakes, CarTakes
  <2>6. CASE s.Tether \in {"Expired", "Held"}
    BY <2>6 DEF ChargeArmTakes, TetherTakes, CarTakes
  <2> QED BY <2>2, <2>3, <2>4, <2>5, <2>6
<1> QED BY <1>2, <1>3

(* So an event of a run moves the cell along its automata, and the cell keeps its form. *)
LEMMA StepTakesCell ==
  ASSUME NEW ev \in Events, CellStep(ev), CellForm(cell)
  PROVE  /\ CellTakes(cell, ev, cell') /\ CellForm(cell') /\ ev \notin {"c_mate_abort", "u_tick"}
         /\ ev \in Uncontrollable => cell.Tether # "Expired"
         /\ ev = "c_unlatch" => cell.Charger # "Occupied"
<1>1. PlantAllows(cell, ev)
  BY DEF CellStep, Takes, Permitted
<1>2. CellTakes(cell, ev, cell')
  BY <1>1, CellIsTaken DEF CellStep
<1>3. (ev = "c_unlatch" => cell.Charger # "Occupied") /\ (ev \in Uncontrollable => cell.Tether # "Expired")
  BY <1>1 DEF PlantAllows, PlantGuard
<1>4. ev \notin {"c_mate_abort", "u_tick"}
  BY DEF CellStep, Timely
<1> QED BY <1>2, <1>3, <1>4, CellFormIsKept

-----------------------------------------------------------------------------
(* The first row that passes a test is one that passes it, and there is none before it. *)
LEMMA FirstRowIsOne ==
  ASSUME NEW q, Len(q) \in Nat, NEW c, NEW event, NEW t
  PROVE  LET i == FirstRow(q, c, event, t)
         IN \/ i \in 1..Len(q) /\ q[i].car = c /\ q[i].event = event /\ q[i].t >= t
            \/ i = 0 /\ ~ \E j \in 1..Len(q) : q[j].car = c /\ q[j].event = event /\ q[j].t >= t
<1> DEFINE I == {i \in 1..Len(q) : q[i].car = c /\ q[i].event = event /\ q[i].t >= t}
<1>1. FirstRow(q, c, event, t) = IF I # {} THEN Min(I) ELSE 0
  BY DEF FirstRow, SelectInSeq
<1>2. CASE I # {}
  <2>0. I \subseteq Nat
    OBVIOUS
  <2> HIDE DEF I
  <2>1. PICK n \in I : \A m \in I : n <= m
    BY <1>2, <2>0, LeastNumber
  <2>2. Min(I) \in I
    BY <2>1 DEF Min
  <2> QED BY <1>1, <1>2, <2>2 DEF I
<1> QED BY <1>1, <1>2

-----------------------------------------------------------------------------
(* What is written of an event, and of none of the others. *)
LEMMA WhatIsRecorded ==
  ASSUME NEW ev, Recorded(ev) # "none"
  PROVE  /\ Recorded(ev) \in Names /\ Rank(Recorded(ev)) \in Nat
         /\ Recorded(ev) = "charger_faulted" <=> ev = "u_fault"
         /\ Recorded(ev) = "demate_started" <=> ev = "c_unlatch"
         /\ Recorded(ev) = "demate_cleared" <=> ev = "u_cleared"
         /\ Recorded(ev) = "mate_started" <=> ev = "c_mate_start"
         /\ Recorded(ev) = "car_left" <=> ev = "c_release"
  BY DEF Recorded, Names, Rank

(* Every event has a rank. *)
LEMMA RanksAreNumbers == \A event \in Names : Rank(event) \in Nat
  BY DEF Names, Rank

(* A row more. *)
LEMMA RowMore ==
  ASSUME NEW T, NEW q \in Seq(T), NEW x \in T
  PROVE  /\ q \o <<x>> \in Seq(T) /\ Last(q \o <<x>>) = x
         /\ {(q \o <<x>>)[i] : i \in 1..Len(q \o <<x>>)} = {q[i] : i \in 1..Len(q)} \cup {x}
<1>1. q \o <<x>> \in Seq(T) /\ Len(q \o <<x>>) = Len(q) + 1 /\ Len(q) \in Nat
  OBVIOUS
<1>2. (q \o <<x>>)[Len(q) + 1] = x
  OBVIOUS
<1>3. \A i \in 1..Len(q) : (q \o <<x>>)[i] = q[i]
  OBVIOUS
<1> QED BY <1>1, <1>2, <1>3 DEF Last

(* The rows one event writes: one, or two when an emergency lets the car go. *)
Writes(ev, new) ==
  /\ new \in RowKind /\ new.t = instant /\ new.car = car /\ new.event = Recorded(ev)
  /\ ev = "u_fault" => new.arg > 0 /\ repairAt' = instant + new.arg
  /\ ev = "c_unlatch" => until' = instant + new.arg
LeftRow == [t |-> instant, event |-> "car_left", car |-> car, arg |-> 0]

(* An event of a run writes its rows at the end of the trace, in the extraction's order. *)
LEMMA StepWrites ==
  ASSUME NEW ev \in Events, CellStep(ev), Numbers
  PROVE  /\ Numbers'
         /\ ev # "u_fault" => repairAt' = repairAt
         /\ ev # "c_unlatch" => until' = until
         /\ Recorded(ev) = "none" => rows' = rows /\ Seen' = Seen
         /\ Recorded(ev) # "none" =>
              /\ rows # <<>> /\ Last(rows).t = instant => Rank(Last(rows).event) <= Rank(Recorded(ev))
              /\ \E new : /\ Writes(ev, new)
                          /\ ev # "c_emergency_release" => Seen' = Seen \cup {new} /\ Last(rows') = new
                          /\ ev = "c_emergency_release" => Seen' = Seen \cup {new, LeftRow} /\ Last(rows') = LeftRow
<1> DEFINE event == Recorded(ev)
<1>1. PICK minutes \in IF ev = "u_fault" THEN Repairs ELSE {0} :
        /\ repairAt' = IF ev = "u_fault" THEN instant + minutes ELSE repairAt
        /\ rows' = IF event = "none" THEN rows
                   ELSE rows \o <<Row(event, IF ev = "c_unlatch" THEN Window ELSE minutes)>>
                             \o (IF ev = "c_emergency_release" THEN <<Row("car_left", 0)>> ELSE <<>>)
  BY DEF CellStep
<1>2. minutes \in Nat /\ (ev = "u_fault" => minutes > 0)
  BY PostAssumption
<1>3. until' = (IF ev = "c_unlatch" THEN instant + Window ELSE until) /\ UNCHANGED <<car, instant>>
  BY DEF CellStep
<1>4. repairAt' \in Nat /\ until' \in Nat
  BY <1>1, <1>2, <1>3, PostAssumption DEF Numbers
<1>5. CASE event = "none"
  BY <1>1, <1>3, <1>4, <1>5 DEF Numbers, Seen, Recorded
<1>6. CASE event # "none"
  <2> DEFINE new == Row(event, IF ev = "c_unlatch" THEN Window ELSE minutes)
  <2>1. event \in Names
    BY <1>6, WhatIsRecorded
  <2>2. new \in RowKind /\ new.t = instant /\ new.car = car /\ new.event = event
    BY <2>1, <1>2, PostAssumption DEF Numbers, Row, RowKind
  <2>3. new.arg = IF ev = "c_unlatch" THEN Window ELSE minutes
    BY DEF Row
  <2>4. Writes(ev, new)
    BY <2>2, <2>3, <1>1, <1>2, <1>3 DEF Writes
  <2>5. rows # <<>> /\ Last(rows).t = instant => Rank(Last(rows).event) <= Rank(event)
    BY <1>6 DEF CellStep, InOrder
  <2> HIDE DEF new
  <2> DEFINE once == rows \o <<new>>
  <2>6. once \in Seq(RowKind) /\ Last(once) = new /\ {once[i] : i \in 1..Len(once)} = Seen \cup {new}
    BY <2>2, RowMore DEF Numbers, Seen
  <2>7. rows' = once \o (IF ev = "c_emergency_release" THEN <<LeftRow>> ELSE <<>>)
    BY <1>1, <1>6 DEF LeftRow, Row, new
  <2> HIDE DEF once
  <2>8. CASE ev # "c_emergency_release"
    <3>1. rows' = once
      BY <2>6, <2>7, <2>8
    <3> QED BY <3>1, <2>4, <2>5, <2>6, <2>8, <1>1, <1>3, <1>4, <1>6 DEF Numbers, Seen
  <2>9. CASE ev = "c_emergency_release"
    <3>1. LeftRow \in RowKind
      BY DEF LeftRow, RowKind, Names, Numbers
    <3>2. rows' = once \o <<LeftRow>>
      BY <2>7, <2>9
    <3>3. /\ rows' \in Seq(RowKind) /\ Last(rows') = LeftRow
          /\ {rows'[i] : i \in 1..Len(rows')} = (Seen \cup {new}) \cup {LeftRow}
      <4>1. once \in Seq(RowKind) /\ {once[i] : i \in 1..Len(once)} = Seen \cup {new}
        BY <2>6
      <4>2. /\ once \o <<LeftRow>> \in Seq(RowKind) /\ Last(once \o <<LeftRow>>) = LeftRow
            /\ {(once \o <<LeftRow>>)[i] : i \in 1..Len(once \o <<LeftRow>>)} = {once[i] : i \in 1..Len(once)} \cup {LeftRow}
        BY <3>1, <4>1, RowMore
      <4> QED BY <3>2, <4>1, <4>2
    <3>4. Numbers'
      BY <3>3, <1>3, <1>4 DEF Numbers
    <3>5. Seen' = Seen \cup {new, LeftRow}
      BY <3>3 DEF Seen
    <3>6. (ev # "u_fault" => repairAt' = repairAt) /\ (ev # "c_unlatch" => until' = until)
      BY <1>1, <1>3
    <3> QED BY <3>3, <3>4, <3>5, <3>6, <2>4, <2>5, <2>9, <1>6
  <2> QED BY <2>8, <2>9
<1> QED BY <1>5, <1>6

(* What is read are rows. *)
LEMMA SeenAreRows == Numbers => Seen \subseteq RowKind
  BY DEF Numbers, Seen

(* What is read after an event: what was read before, and the event's own rows. *)
LEMMA SeenAfter ==
  ASSUME NEW ev \in Events, CellStep(ev), Numbers
  PROVE  /\ Seen \subseteq Seen' /\ Seen' \subseteq RowKind
         /\ \A x \in Seen' \ Seen : /\ x.t = instant /\ x.car = car /\ Recorded(ev) # "none"
                                    /\ Writes(ev, x) \/ (ev = "c_emergency_release" /\ x.event = "car_left")
         /\ Recorded(ev) # "none" => \E x \in Seen' : Writes(ev, x)
         /\ ev = "c_emergency_release" => \E x \in Seen' : x.t = instant /\ x.car = car /\ x.event = "car_left"
         /\ \A x, y \in Seen' \ Seen : x.event = y.event => x = y
<1>1. Seen' \subseteq RowKind
  <2>1. Numbers'
    BY StepWrites
  <2> QED BY <2>1 DEF Numbers, Seen
<1>2. CASE Recorded(ev) = "none"
  <2>1. Seen' = Seen
    BY <1>2, StepWrites
  <2>2. ev # "c_emergency_release"
    BY <1>2 DEF Recorded
  <2> QED BY <1>1, <1>2, <2>1, <2>2
<1>3. CASE Recorded(ev) # "none"
  <2>1. PICK new : /\ Writes(ev, new)
                   /\ ev # "c_emergency_release" => Seen' = Seen \cup {new}
                   /\ ev = "c_emergency_release" => Seen' = Seen \cup {new, LeftRow}
    BY <1>3, StepWrites
  <2>2. new.t = instant /\ new.car = car /\ new.event = Recorded(ev)
    BY <2>1 DEF Writes
  <2>3. LeftRow.t = instant /\ LeftRow.car = car /\ LeftRow.event = "car_left"
    BY DEF LeftRow
  <2>4. ev = "c_emergency_release" => new.event # "car_left"
    BY <2>2 DEF Recorded
  <2> QED BY <1>1, <1>3, <2>1, <2>2, <2>3, <2>4
<1> QED BY <1>2, <1>3

(* The same, of one car's rows of one kind. *)
LEMMA MineAfter ==
  ASSUME NEW ev \in Events, CellStep(ev), Numbers
  PROVE  /\ \A c, event : \A x \in Mine(c, event)' :
              \/ x \in Mine(c, event)
              \/ /\ c = car /\ x.t = instant /\ Recorded(ev) # "none"
                 /\ \/ (event = Recorded(ev) /\ Writes(ev, x))
                    \/ (event = "car_left" /\ ev = "c_emergency_release")
         /\ \A c, event : Mine(c, event) \subseteq Mine(c, event)'
         /\ \A c : c = car /\ Recorded(ev) # "none" => Mine(c, Recorded(ev))' # {}
         /\ \A c : c = car /\ ev = "c_emergency_release" => Mine(c, "car_left")' # {}
<1>1. \A c, event : Mine(c, event)' = {x \in Seen' : x.car = c /\ x.event = event}
  BY DEF Mine
<1>2. \A c, event : Mine(c, event) = {x \in Seen : x.car = c /\ x.event = event}
  BY DEF Mine
<1>3. \A x : Writes(ev, x) => x.event = Recorded(ev) /\ x.car = car /\ x.t = instant
  BY DEF Writes
<1>4. /\ Seen \subseteq Seen'
      /\ \A x \in Seen' \ Seen : /\ x.t = instant /\ x.car = car /\ Recorded(ev) # "none"
                                 /\ Writes(ev, x) \/ (ev = "c_emergency_release" /\ x.event = "car_left")
      /\ Recorded(ev) # "none" => \E x \in Seen' : Writes(ev, x)
      /\ ev = "c_emergency_release" => \E x \in Seen' : x.t = instant /\ x.car = car /\ x.event = "car_left"
  BY SeenAfter
<1>5. ASSUME NEW c, NEW event, NEW x \in Mine(c, event)', x \notin Mine(c, event)
      PROVE  /\ c = car /\ x.t = instant /\ Recorded(ev) # "none"
             /\ (event = Recorded(ev) /\ Writes(ev, x)) \/ (event = "car_left" /\ ev = "c_emergency_release")
  <2>1. x \in Seen' \ Seen /\ x.car = c /\ x.event = event
    BY <1>1, <1>2, <1>5
  <2> QED BY <2>1, <1>3, <1>4
<1>6. \A c, event : Mine(c, event) \subseteq Mine(c, event)'
  BY <1>1, <1>2, <1>4
<1>7. \A c : c = car /\ Recorded(ev) # "none" => Mine(c, Recorded(ev))' # {}
  BY <1>1, <1>3, <1>4
<1>8. \A c : c = car /\ ev = "c_emergency_release" => Mine(c, "car_left")' # {}
  BY <1>1, <1>4
<1> QED BY <1>5, <1>6, <1>7, <1>8

(* What the faults are. *)
LEMMA FaultsAre == \A x : x \in Faults <=> x \in Seen /\ x.event = "charger_faulted"
  BY DEF Faults

(* What is written at an instant is in the extraction's order. *)
LEMMA WrittenInOrder ==
  ASSUME NEW ev \in Events, CellStep(ev), Numbers, RowsForm, Recorded(ev) # "none"
  PROVE  \A x \in Seen : x.t = instant => Rank(x.event) <= Rank(Recorded(ev))
<1> SUFFICES ASSUME NEW x \in Seen, x.t = instant PROVE Rank(x.event) <= Rank(Recorded(ev))
  OBVIOUS
<1>1. Last(rows).t = instant /\ Rank(x.event) <= Rank(Last(rows).event)
  BY DEF RowsForm
<1>2. rows # <<>> /\ Last(rows) \in RowKind /\ x \in RowKind
  BY DEF Numbers, Seen, Last
<1>3. Rank(x.event) \in Nat /\ Rank(Last(rows).event) \in Nat /\ Rank(Recorded(ev)) \in Nat
  BY <1>2, RanksAreNumbers, WhatIsRecorded DEF RowKind
<1>4. Rank(Last(rows).event) <= Rank(Recorded(ev))
  BY <1>1, <1>2, StepWrites
<1> QED BY <1>1, <1>3, <1>4

(* An event keeps the rows in order. *)
LEMMA StepKeepsRows ==
  ASSUME NEW ev \in Events, CellStep(ev), Numbers, RowsForm
  PROVE  RowsForm'
<1>1. UNCHANGED <<car, instant>> /\ car \in Nat /\ instant \in Nat
  BY DEF CellStep, Numbers
<1>2. \A x \in Seen' : x.t <= instant /\ x.car <= car /\ (x.event = "charger_faulted" => x.arg > 0)
  <2> TAKE x \in Seen'
  <2>1. CASE x \in Seen
    BY <2>1 DEF RowsForm
  <2>2. CASE x \notin Seen
    BY <2>2, <1>1, SeenAfter, WhatIsRecorded DEF Writes
  <2> QED BY <2>1, <2>2
<1>3. ASSUME NEW x \in Seen', x.t = instant
      PROVE  Last(rows').t = instant /\ Rank(x.event) <= Rank(Last(rows').event)
  <2>1. CASE Recorded(ev) = "none"
    BY <1>3, <2>1, StepWrites DEF RowsForm
  <2>2. CASE Recorded(ev) # "none"
    <3>1. PICK new : /\ Writes(ev, new)
                     /\ ev # "c_emergency_release" => Seen' = Seen \cup {new} /\ Last(rows') = new
                     /\ ev = "c_emergency_release" => Seen' = Seen \cup {new, LeftRow} /\ Last(rows') = LeftRow
      BY <2>2, StepWrites
    <3>2. new.t = instant /\ new.event = Recorded(ev) /\ LeftRow.t = instant /\ LeftRow.event = "car_left"
      BY <3>1 DEF Writes, LeftRow
    <3>3. x \in Seen \cup {new} => Rank(x.event) <= Rank(Recorded(ev))
      BY <1>3, <2>2, <3>2, WrittenInOrder, WhatIsRecorded
    <3>4. ev = "c_emergency_release" => Rank(Recorded(ev)) = 20 /\ Rank("car_left") = 50
      BY DEF Rank, Recorded
    <3>5. x \in Seen \cup {new} => Rank(x.event) \in Nat
      <4>1. x \in Seen => x.event \in Names
        BY SeenAreRows DEF RowKind
      <4> QED BY <4>1, <2>2, <3>2, WhatIsRecorded, RanksAreNumbers
    <3> QED BY <3>1, <3>2, <3>3, <3>4, <3>5
  <2> QED BY <2>1, <2>2
<1> QED BY <1>1, <1>2, <1>3 DEF RowsForm

-----------------------------------------------------------------------------
(* Only a fault and a repair change whether the charger is out of service. *)
LEMMA OutAfter ==
  ASSUME NEW ev \in Events, CellStep(ev), VisitsForm
  PROVE  /\ ev = "u_fault" => OutNow' /\ ~OutNow /\ cell.Charger = "Occupied" /\ cell.Tether = "Charging"
         /\ ev = "u_repaired" => ~OutNow' /\ AtTick /\ repairAt <= instant
         /\ ev \notin {"u_fault", "u_repaired"} => (OutNow' <=> OutNow)
<1>1. CellTakes(cell, ev, cell') /\ CellForm(cell)
  BY StepTakesCell DEF VisitsForm
<1>2. ev = "u_fault" => cell.ChargeArm = "Latched" /\ cell.Charger = "Occupied"
  BY DEF CellStep, Timely
<1>3. ev = "u_repaired" => instant >= repairAt /\ AtTick
  BY DEF CellStep, Timely
<1>4. /\ OutNow' <=> cell'.Charger \in {"Faulted", "UnderRepair"}
      /\ OutNow <=> cell.Charger \in {"Faulted", "UnderRepair"}
  BY DEF OutNow, OutOfService
<1>5. ev = "u_fault" => cell.Tether = "Charging"
  BY <1>1, <1>2 DEF CellForm
<1>6. instant \in Nat /\ repairAt \in Nat
  BY DEF VisitsForm, Numbers
<1>7. ev # "c_mate_abort"
  BY DEF CellStep, Timely
<1>8. ev \notin {"u_fault", "u_repaired"} => (OutNow' <=> OutNow)
  BY <1>1, <1>4, <1>7 DEF CellTakes, ChargerTakes
<1>9. (ev = "u_fault" => OutNow' /\ ~OutNow) /\ (ev = "u_repaired" => ~OutNow')
  BY <1>1, <1>2, <1>4 DEF CellTakes, ChargerTakes
<1> QED BY <1>2, <1>3, <1>5, <1>6, <1>8, <1>9

(* A fault is written by a fault alone, one at a time. *)
LEMMA FaultsAfter ==
  ASSUME NEW ev \in Events, CellStep(ev), Numbers
  PROVE  /\ ev # "u_fault" => Faults' = Faults
         /\ Faults \subseteq Faults'
         /\ \A f \in Faults' \ Faults : Writes(ev, f) /\ ev = "u_fault"
         /\ \A f, g \in Faults' \ Faults : f = g
         /\ ev = "u_fault" => \E f \in Faults' : Writes(ev, f)
<1>1. Faults' = {x \in Seen' : x.event = "charger_faulted"} /\ Faults = {x \in Seen : x.event = "charger_faulted"}
  BY DEF Faults
<1>2. ASSUME NEW x \in Seen' \ Seen, x.event = "charger_faulted" PROVE Writes(ev, x) /\ ev = "u_fault"
  <2>1. Writes(ev, x) /\ Recorded(ev) # "none"
    BY <1>2, SeenAfter
  <2> QED BY <2>1, <1>2, WhatIsRecorded DEF Writes
<1>3. ASSUME ev = "u_fault" PROVE \E f \in Faults' : Writes(ev, f)
  <2>1. Recorded(ev) = "charger_faulted"
    BY <1>3 DEF Recorded
  <2> QED BY <2>1, <1>1, SeenAfter DEF Writes
<1>4. Seen \subseteq Seen' /\ \A x, y \in Seen' \ Seen : x.event = y.event => x = y
  BY SeenAfter
<1> QED BY <1>1, <1>2, <1>3, <1>4

(* An event keeps the faults and the charger's service in agreement. *)
LEMMA StepKeepsFaults ==
  ASSUME NEW ev \in Events, CellStep(ev), VisitsForm
  PROVE  FaultsForm'
<1>1. instant' = instant /\ instant \in Nat /\ repairAt \in Nat /\ Numbers
  BY DEF CellStep, VisitsForm, Numbers
<1>2. \A f : Over(f, instant)' <=> Over(f, instant)
  BY <1>1 DEF Over
<1>3. FaultsForm
  BY DEF VisitsForm
<1>4. CASE ev = "u_fault"
  <2>1. OutNow' /\ ~OutNow
    BY <1>4, OutAfter
  <2>2. \A f \in Faults : Over(f, instant)
    BY <2>1, <1>3 DEF FaultsForm
  <2>3. \A f \in Faults' \ Faults : f.t + f.arg = repairAt'
    BY <1>1, <1>4, FaultsAfter DEF Writes
  <2>4. PICK f \in Faults' : Writes(ev, f)
    BY <1>1, <1>4, FaultsAfter
  <2>5. f.t + f.arg = repairAt' /\ repairAt' > instant /\ repairAt' \in Nat
    BY <2>4, <1>1, <1>4 DEF Writes, RowKind
  <2>6. \A tick \in 0..(instant - 1) : tick < repairAt'
    BY <2>5, <1>1
  <2> QED BY <2>1, <2>2, <2>3, <2>4, <2>5, <2>6, <1>1, <1>2 DEF FaultsForm
<1>5. CASE ev = "u_repaired"
  <2>1. ~OutNow' /\ AtTick /\ repairAt <= instant
    BY <1>5, OutAfter
  <2>2. Faults' = Faults
    BY <1>1, <1>5, FaultsAfter
  <2>3. \A f \in Faults : Over(f, instant)
    <3> TAKE f \in Faults
    <3>1. f.t + f.arg = repairAt => Over(f, instant)
      BY <2>1, <1>1 DEF Over, AtTick
    <3> QED BY <3>1, <1>3 DEF FaultsForm
  <2> QED BY <2>1, <2>2, <2>3, <1>1, <1>2 DEF FaultsForm
<1>6. CASE ev \notin {"u_fault", "u_repaired"}
  <2>1. (OutNow' <=> OutNow) /\ Faults' = Faults /\ repairAt' = repairAt
    BY <1>1, <1>6, OutAfter, FaultsAfter, StepWrites
  <2> QED BY <2>1, <1>1, <1>2, <1>3 DEF FaultsForm
<1> QED BY <1>4, <1>5, <1>6

-----------------------------------------------------------------------------
(* A mate that begins while a fault is not over. *)
OnDead(y) == y.event = "mate_started" /\ \E f \in Faults : f.t <= y.t /\ ~Over(f, y.t)

(* An event keeps the mates on a dead charger known. *)
LEMMA StepKeepsMates ==
  ASSUME NEW ev \in Events, CellStep(ev), VisitsForm
  PROVE  MatesForm'
<1>1. Numbers /\ RowsForm /\ FaultsForm /\ instant \in Nat /\ repairAt \in Nat
  BY DEF VisitsForm, Numbers
<1>2. deadMates = {x.car : x \in {y \in Seen : OnDead(y)}}
  BY DEF VisitsForm, MatesForm, OnDead
<1>3. deadMates' = IF ev = "c_mate_start" /\ OutNow THEN deadMates \cup {car} ELSE deadMates
  BY DEF CellStep, OutNow
<1>4. \A y : OnDead(y)' <=> y.event = "mate_started" /\ \E f \in Faults' : f.t <= y.t /\ ~Over(f, y.t)
  BY DEF OnDead, Over
<1>5. SUFFICES deadMates' = {x.car : x \in {y \in Seen' : OnDead(y)'}}
  BY <1>4 DEF MatesForm, Over
<1>6. ASSUME NEW y \in Seen PROVE OnDead(y)' <=> OnDead(y)
  <2>1. CASE y.event # "mate_started"
    BY <2>1, <1>4 DEF OnDead
  <2>2. CASE y.event = "mate_started"
    <3>1. ASSUME NEW f \in Faults' \ Faults PROVE ~(f.t <= y.t)
      <4>1. ev = "u_fault" /\ f.t = instant
        BY <3>1, <1>1, FaultsAfter DEF Writes
      <4>2. Recorded(ev) # "none" /\ Rank(Recorded(ev)) = 10 /\ Rank(y.event) = 70
        BY <4>1, <2>2 DEF Recorded, Rank
      <4>3. y.t # instant
        BY <4>2, <1>1, WrittenInOrder
      <4>4. y.t <= instant /\ y.t \in Nat
        BY <1>1, SeenAreRows DEF RowsForm, RowKind
      <4> QED BY <4>1, <4>3, <4>4, <1>1
    <3>2. Faults \subseteq Faults'
      BY <1>1, FaultsAfter
    <3> QED BY <3>1, <3>2, <1>4 DEF OnDead
  <2> QED BY <2>1, <2>2
<1>7. Seen \subseteq Seen'
  BY <1>1, SeenAfter
<1>8. CASE ev = "c_mate_start"
  <2>1. Recorded(ev) = "mate_started" /\ Faults' = Faults
    BY <1>1, <1>8, FaultsAfter DEF Recorded
  <2>2. \A x \in Seen' \ Seen : x.car = car /\ x.t = instant /\ x.event = "mate_started"
    BY <2>1, <1>1, <1>8, SeenAfter DEF Writes
  <2>3. \E x \in Seen' : x.car = car /\ x.t = instant /\ x.event = "mate_started"
    BY <2>1, <1>1, SeenAfter DEF Writes
  <2>4. CASE OutNow
    <3>1. instant < repairAt
      BY <2>4, <1>8 DEF CellStep, Timely, OutNow
    <3>2. PICK f \in Faults : f.t + f.arg = repairAt
      BY <2>4, <1>1 DEF FaultsForm
    <3>3. f.t <= instant
      BY <1>1, FaultsAre DEF RowsForm
    <3>4. ~Over(f, instant)
      BY <3>1, <3>2, <1>1 DEF Over
    <3>5. \A x \in Seen' : x.car = car /\ x.t = instant /\ x.event = "mate_started" => OnDead(x)'
      BY <3>2, <3>3, <3>4, <2>1, <1>4
    <3> QED BY <3>5, <2>2, <2>3, <2>4, <1>2, <1>3, <1>6, <1>7, <1>8
  <2>5. CASE ~OutNow
    <3>1. \A f \in Faults : Over(f, instant)
      BY <2>5, <1>1 DEF FaultsForm
    <3>2. \A x \in Seen' \ Seen : ~OnDead(x)'
      BY <3>1, <2>1, <2>2, <1>4
    <3> QED BY <3>2, <2>5, <1>2, <1>3, <1>6, <1>7, <1>8
  <2> QED BY <2>4, <2>5
<1>9. CASE ev # "c_mate_start"
  <2>1. \A x \in Seen' \ Seen : x.event # "mate_started"
    BY <1>1, <1>9, SeenAfter, WhatIsRecorded DEF Writes
  <2>2. \A x \in Seen' \ Seen : ~OnDead(x)'
    BY <2>1, <1>4
  <2> QED BY <2>2, <1>2, <1>3, <1>6, <1>7, <1>9
<1> QED BY <1>8, <1>9

-----------------------------------------------------------------------------
(* Which stage of a visit an event can come from. *)
LEMMA StageBefore ==
  ASSUME NEW ev \in Events, CellStep(ev), VisitsForm
  PROVE  /\ cell'.Car \in {"Inbound", "AtPost"} \/ cell'.Tether \in {"Mate", "Charging"}
              => /\ cell.Car \in {"Inbound", "AtPost"} \/ cell.Tether \in {"Mate", "Charging"}
                 /\ ev \notin {"c_unlatch", "u_cleared", "c_release", "c_emergency_release"}
         /\ cell'.Car \in {"Inbound", "AtPost"} \/ cell'.Tether = "Mate" \/ cell'.Charger = "Occupied"
              => /\ cell.Car \in {"Inbound", "AtPost"} \/ cell.Tether = "Mate" \/ cell.Charger = "Occupied"
                 /\ ev # "u_fault"
<1>1. /\ CellTakes(cell, ev, cell') /\ CellForm(cell) /\ CellForm(cell') /\ ev # "c_mate_abort"
  BY StepTakesCell DEF VisitsForm
<1> USE <1>1 DEF CellTakes
<1>2. cell'.Car \in {"Inbound", "AtPost"} => cell.Car \in {"Inbound", "AtPost"}
  BY DEF CarTakes, CellForm
<1>3. cell'.Tether \in {"Mate", "Charging"} => cell.Tether \in {"Mate", "Charging"} \/ cell.Car = "AtPost"
  BY DEF TetherTakes, CarTakes, CellForm
<1>4. cell'.Charger = "Occupied" => cell.Charger = "Occupied" \/ cell.Car = "AtPost"
  BY DEF ChargerTakes, CarTakes, CellForm
<1>5. cell'.Tether = "Mate" => cell.Tether = "Mate" \/ cell.Car = "AtPost"
  BY DEF TetherTakes, CarTakes, CellForm
<1>6. ASSUME ev \in {"c_unlatch", "u_cleared", "c_release", "c_emergency_release"}
      PROVE  ~(cell'.Car \in {"Inbound", "AtPost"} \/ cell'.Tether \in {"Mate", "Charging"})
  BY <1>6 DEF TetherTakes, CarTakes, ChargeArmTakes, CellForm
<1>7. ASSUME ev = "u_fault"
      PROVE  ~(cell'.Car \in {"Inbound", "AtPost"} \/ cell'.Tether = "Mate" \/ cell'.Charger = "Occupied")
  <2>1. cell.Tether = "Charging"
    BY <1>7, OutAfter
  <2> QED BY <2>1, <1>7 DEF TetherTakes, CarTakes, ChargerTakes, CellForm
<1> QED BY <1>2, <1>3, <1>4, <1>5, <1>6, <1>7

(* An event keeps what the present car has written in step with its visit. *)
LEMMA StepKeepsVisit ==
  ASSUME NEW ev \in Events, CellStep(ev), VisitsForm
  PROVE  VisitForm'
<1>1. Numbers /\ RowsForm /\ VisitForm /\ CellForm(cell) /\ car' = car /\ instant' = instant /\ instant \in Nat
  BY DEF VisitsForm, CellStep, Numbers
<1>2. ASSUME cell'.Car \in {"Inbound", "AtPost"} \/ cell'.Tether \in {"Mate", "Charging"}, NEW c, c = car,
             NEW event \in {"demate_started", "demate_cleared", "car_left"}
      PROVE  Mine(c, event)' = {}
  <2>1. Mine(c, event) = {} /\ ev \notin {"c_unlatch", "u_cleared", "c_release", "c_emergency_release"}
    BY <1>1, <1>2, StageBefore DEF VisitForm
  <2> QED BY <2>1, <1>1, <1>2, MineAfter, WhatIsRecorded
<1>3. ASSUME cell'.Car \in {"Inbound", "AtPost"} \/ cell'.Tether = "Mate" \/ cell'.Charger = "Occupied",
             NEW c, c = car
      PROVE  Mine(c, "charger_faulted")' = {}
  <2>1. Mine(c, "charger_faulted") = {} /\ ev # "u_fault"
    BY <1>1, <1>3, StageBefore DEF VisitForm
  <2> QED BY <2>1, <1>1, <1>3, MineAfter, WhatIsRecorded
<1>4. ASSUME OutNow', NEW c, c = car, Mine(c, "charger_faulted")' = {}
      PROVE  \/ cell'.Tether \in {"None", "Mate"}
             \/ cell'.Tether = "Charging" /\ AtTick /\ Last(rows').t = instant /\ Rank(Last(rows').event) >= 80
  <2>1. ev # "u_fault"
    <3>1. ev = "u_fault" => Recorded(ev) = "charger_faulted"
      BY DEF Recorded
    <3> QED BY <3>1, <1>1, <1>4, MineAfter
  <2>2. OutNow /\ ev # "u_repaired"
    BY <2>1, <1>4, OutAfter
  <2>3. Mine(c, "charger_faulted") = {}
    BY <1>1, <1>4, MineAfter
  <2>4. CellTakes(cell, ev, cell') /\ ev # "c_mate_abort"
    BY StepTakesCell DEF VisitsForm
  <2>5. CASE cell.Tether \in {"None", "Mate"}
    <3>1. CASE ev = "u_latched"
      <4>1. cell'.Tether = "Charging"
        BY <3>1, <2>4 DEF CellTakes, TetherTakes
      <4>2. AtTick
        BY <3>1 DEF CellStep, Timely
      <4>3. Recorded(ev) = "mate_latched" /\ Rank("mate_latched") = 80
        BY <3>1 DEF Recorded, Rank
      <4>4. Last(rows').t = instant /\ Last(rows').event = "mate_latched"
        BY <3>1, <4>3, <1>1, StepWrites DEF Writes
      <4> QED BY <4>1, <4>2, <4>3, <4>4
    <3>2. CASE ev # "u_latched"
      BY <3>2, <2>4, <2>5 DEF CellTakes, TetherTakes
    <3> QED BY <3>1, <3>2
  <2>6. CASE cell.Tether \notin {"None", "Mate"}
    <3>1. cell.Tether = "Charging" /\ AtTick /\ Last(rows).t = instant /\ Rank(Last(rows).event) >= 80
      BY <2>2, <2>3, <2>6, <1>1, <1>4 DEF VisitForm
    <3>2. rows # <<>> /\ Rank(Last(rows).event) \in Nat
      <4>1. rows # <<>>
        <5>1. CASE rows = <<>>
          <6>1. \A f : f \notin Faults
            BY <5>1 DEF Faults, Seen
          <6> QED BY <6>1, <2>2 DEF VisitsForm, FaultsForm
        <5> QED BY <5>1
      <4>2. Last(rows) \in RowKind
        BY <4>1, <1>1 DEF Numbers, Last
      <4> QED BY <4>1, <4>2, RanksAreNumbers DEF RowKind
    <3>3. CASE Recorded(ev) = "none"
      <4>1. rows' = rows
        BY <3>3, <1>1, StepWrites
      <4>2. cell'.Tether = "Charging"
        BY <3>1, <3>3, <2>4 DEF CellTakes, TetherTakes, Recorded
      <4> QED BY <3>1, <4>1, <4>2
    <3>4. CASE Recorded(ev) # "none"
      <4>1. Rank(Last(rows).event) <= Rank(Recorded(ev)) /\ Rank(Recorded(ev)) \in Nat
        BY <3>1, <3>2, <3>4, <1>1, StepWrites, WhatIsRecorded
      <4>2. ev \notin {"c_unlatch", "c_emergency_release"}
        <5>1. Rank("demate_started") = 20 /\ Rank("emergency_release") = 20
          BY DEF Rank
        <5>2. Recorded("c_unlatch") = "demate_started" /\ Recorded("c_emergency_release") = "emergency_release"
          BY DEF Recorded
        <5>3. ~(Rank(Recorded(ev)) = 20)
          BY <3>1, <3>2, <4>1
        <5> QED BY <5>1, <5>2, <5>3
      <4>3. cell'.Tether = "Charging"
        BY <3>1, <4>2, <2>4 DEF CellTakes, TetherTakes
      <4>4. Last(rows').t = instant /\ Last(rows').event = Recorded(ev)
        BY <3>4, <4>2, <1>1, StepWrites DEF Writes
      <4> QED BY <3>1, <3>2, <4>1, <4>3, <4>4
    <3> QED BY <3>3, <3>4
  <2> QED BY <2>5, <2>6
<1>5. (AtTick' <=> AtTick)
  BY <1>1 DEF AtTick
<1> DEFINE mine(event) == {x \in Seen' : x.car = car /\ x.event = event}
<1>6. \A c : c = car => \A event : Mine(c, event)' = mine(event)
  BY DEF Mine
<1>7. \A event : Mine(car, event)' = mine(event)
  BY <1>1 DEF Mine
<1> HIDE DEF mine
<1> QED BY <1>1, <1>2, <1>3, <1>4, <1>5, <1>6, <1>7 DEF VisitForm

-----------------------------------------------------------------------------
(* An event leaves the rows alone of every other car, and of every other event. *)
LEMMA MineSame ==
  ASSUME NEW ev \in Events, CellStep(ev), Numbers, NEW c, NEW event,
         c # car \/ (Recorded(ev) # event /\ ~(event = "car_left" /\ ev = "c_emergency_release"))
  PROVE  Mine(c, event)' = Mine(c, event)
<1>1. \A x \in Mine(c, event)' : x \in Mine(c, event)
  BY MineAfter
<1>2. Mine(c, event) \subseteq Mine(c, event)'
  BY MineAfter
<1> QED BY <1>1, <1>2

(* A faulted car that is gone stays gone. *)
LEMMA WentAfterStays ==
  ASSUME NEW f, WentAfter(f), f.t \in Nat, instant \in Nat, instant' \in Nat, instant <= instant',
         f.car = car' => Gone(cell') /\ cell'.ChargeArm = "Stowed",
         \A event \in {"demate_started", "demate_cleared", "car_left"} : Mine(f.car, event)' = Mine(f.car, event),
         f.car \in overstayed' <=> f.car \in overstayed
  PROVE  WentAfter(f)'
<1>1. PICK d \in f.t..instant : \E left \in d..instant :
        /\ AllAt(f.car, "demate_cleared", d) /\ AllAt(f.car, "car_left", left)
        /\ f.car \in overstayed <=> d < left /\ ~Over(f, d)
  BY DEF WentAfter
<1>2. PICK left \in d..instant :
        /\ AllAt(f.car, "demate_cleared", d) /\ AllAt(f.car, "car_left", left)
        /\ f.car \in overstayed <=> d < left /\ ~Over(f, d)
  BY <1>1
<1>3. \A t : /\ AllAt(f.car, "demate_started", t)' <=> AllAt(f.car, "demate_started", t)
             /\ AllAt(f.car, "demate_cleared", t)' <=> AllAt(f.car, "demate_cleared", t)
             /\ AllAt(f.car, "car_left", t)' <=> AllAt(f.car, "car_left", t)
  BY DEF AllAt
<1>4. \A t : Over(f, t)' <=> Over(f, t)
  BY DEF Over
<1>5. AllAt(f.car, "demate_started", f.t)
  BY DEF WentAfter
<1>6. d \in f.t..instant' /\ left \in d..instant'
  BY <1>1, <1>2
<1>7. f.car = car' => Gone(cell)' /\ cell'.ChargeArm = "Stowed"
  BY DEF Gone
<1> QED BY <1>2, <1>3, <1>4, <1>5, <1>6, <1>7 DEF WentAfter

(* A car that an emergency let go stays gone. *)
LEMMA LetGoStays ==
  ASSUME NEW f, LetGo(f), f.car = car' => Gone(cell'),
         \A event \in {"demate_started", "car_left"} : Mine(f.car, event)' = Mine(f.car, event),
         f.car \in overstayed' <=> f.car \in overstayed
  PROVE  LetGo(f)'
<1>1. \A t : AllAt(f.car, "car_left", t)' <=> AllAt(f.car, "car_left", t)
  BY DEF AllAt
<1>2. f.car = car' => Gone(cell)'
  BY DEF Gone
<1> QED BY <1>1, <1>2 DEF LetGo

(* What an event leaves alone. *)
LEMMA StepLeavesAlone ==
  ASSUME NEW ev \in Events, CellStep(ev), VisitsForm
  PROVE  /\ car' = car /\ instant' = instant /\ overstayed' = overstayed /\ instant \in Nat /\ (AtTick' <=> AtTick)
         /\ Numbers /\ \A f \in Faults : f.t \in Nat /\ f.arg \in Nat /\ f.t <= instant /\ f.arg > 0 /\ f.car <= car
  BY SeenAreRows, FaultsAre DEF CellStep, VisitsForm, Numbers, RowsForm, RowKind, AtTick

(* No event brings a faulted car back. *)
LEMMA GoneStep ==
  ASSUME NEW ev \in Events, CellStep(ev), VisitsForm, NEW f \in Faults, f.car = car => Gone(cell)
  PROVE  (WentAfter(f) => WentAfter(f)') /\ (LetGo(f) => LetGo(f)')
<1> USE StepLeavesAlone
<1>1. CellTakes(cell, ev, cell') /\ CellForm(cell)
  BY StepTakesCell DEF VisitsForm
<1>2. ASSUME f.car = car
      PROVE  /\ ev \notin {"c_unlatch", "c_release", "c_emergency_release", "c_mate_start"} /\ Gone(cell')
             /\ cell.ChargeArm = "Stowed" => ev # "u_cleared" /\ cell'.ChargeArm = "Stowed"
  <2>1. Gone(cell) /\ ev # "c_mate_abort"
    BY <1>2, StepTakesCell DEF VisitsForm
  <2>2. ev \notin {"c_unlatch", "c_release", "c_emergency_release", "c_mate_start"}
    BY <2>1, <1>1 DEF CellTakes, TetherTakes, CarTakes, Gone
  <2>3. Gone(cell')
    BY <2>1, <2>2, <1>1 DEF CellTakes, TetherTakes, CarTakes, Gone
  <2>4. cell.ChargeArm = "Stowed" => ev # "u_cleared" /\ cell'.ChargeArm = "Stowed"
    BY <2>1, <2>2, <1>1 DEF CellTakes, ChargeArmTakes
  <2> QED BY <2>2, <2>3, <2>4
<1>3. /\ Recorded(ev) = "demate_started" => ev = "c_unlatch"
      /\ Recorded(ev) = "demate_cleared" => ev = "u_cleared"
      /\ Recorded(ev) = "car_left" => ev = "c_release"
  BY WhatIsRecorded
<1>4. \A event \in {"demate_started", "car_left"} : Mine(f.car, event)' = Mine(f.car, event)
  BY <1>2, <1>3, MineSame
<1>5. ASSUME WentAfter(f) PROVE WentAfter(f)'
  <2>1. f.car = car => cell.ChargeArm = "Stowed"
    BY <1>5 DEF WentAfter
  <2>2. Mine(f.car, "demate_cleared")' = Mine(f.car, "demate_cleared")
    BY <2>1, <1>2, <1>3, MineSame
  <2>3. f.car = car' => Gone(cell') /\ cell'.ChargeArm = "Stowed"
    BY <2>1, <1>2
  <2>4. \A event \in {"demate_started", "demate_cleared", "car_left"} : Mine(f.car, event)' = Mine(f.car, event)
    BY <2>2, <1>4
  <2> QED BY <2>3, <2>4, <1>5, WentAfterStays
<1>6. LetGo(f) => LetGo(f)'
  BY <1>2, <1>4, LetGoStays
<1> QED BY <1>5, <1>6

(* What an event may write of a car. *)
LEMMA WroteWhen ==
  ASSUME NEW ev \in Events, CellStep(ev), VisitsForm, NEW c
  PROVE  /\ ev # "c_unlatch" => Mine(c, "demate_started")' = Mine(c, "demate_started")
         /\ ev # "u_cleared" => Mine(c, "demate_cleared")' = Mine(c, "demate_cleared")
         /\ ev \notin {"c_release", "c_emergency_release"} => Mine(c, "car_left")' = Mine(c, "car_left")
         /\ \A x \in Mine(c, "demate_started")' \ Mine(c, "demate_started") : x.t = instant /\ x.t + x.arg = until'
         /\ \A x \in Mine(c, "demate_cleared")' \ Mine(c, "demate_cleared") : x.t = instant
         /\ \A x \in Mine(c, "car_left")' \ Mine(c, "car_left") : x.t = instant
         /\ c = car /\ ev = "c_unlatch" => Mine(c, "demate_started")' # {}
         /\ c = car /\ ev = "u_cleared" => Mine(c, "demate_cleared")' # {}
         /\ c = car /\ ev \in {"c_release", "c_emergency_release"} => Mine(c, "car_left")' # {}
<1>1. /\ Recorded(ev) = "demate_started" <=> ev = "c_unlatch"
      /\ Recorded(ev) = "demate_cleared" <=> ev = "u_cleared"
      /\ Recorded(ev) = "car_left" <=> ev = "c_release"
  BY DEF Recorded
<1>2. Numbers
  BY DEF VisitsForm
<1>3. /\ ev # "c_unlatch" => Mine(c, "demate_started")' = Mine(c, "demate_started")
      /\ ev # "u_cleared" => Mine(c, "demate_cleared")' = Mine(c, "demate_cleared")
      /\ ev \notin {"c_release", "c_emergency_release"} => Mine(c, "car_left")' = Mine(c, "car_left")
  BY <1>1, <1>2, MineSame
<1>4. /\ \A event : \A x \in Mine(c, event)' \ Mine(c, event) : x.t = instant
      /\ \A x \in Mine(c, "demate_started")' \ Mine(c, "demate_started") : Writes(ev, x) /\ Recorded(ev) = "demate_started"
  BY <1>2, MineAfter
<1>5. \A x \in Mine(c, "demate_started")' \ Mine(c, "demate_started") : x.t = instant /\ x.t + x.arg = until'
  BY <1>1, <1>4 DEF Writes
<1>6. /\ c = car /\ ev = "c_unlatch" => Mine(c, "demate_started")' # {}
      /\ c = car /\ ev = "u_cleared" => Mine(c, "demate_cleared")' # {}
      /\ c = car /\ ev = "c_release" => Mine(c, "car_left")' # {}
      /\ c = car /\ ev = "c_emergency_release" => Mine(c, "car_left")' # {}
  <2>1. /\ Recorded("c_unlatch") = "demate_started" /\ Recorded("u_cleared") = "demate_cleared"
        /\ Recorded("c_release") = "car_left"
    BY DEF Recorded
  <2>2. c = car /\ Recorded(ev) # "none" => Mine(c, Recorded(ev))' # {}
    BY <1>2, MineAfter
  <2>3. c = car /\ ev = "c_emergency_release" => Mine(c, "car_left")' # {}
    BY <1>2, MineAfter
  <2> QED BY <2>1, <2>2, <2>3
<1> QED BY <1>3, <1>4, <1>5, <1>6

(* At the fault's own tick the plug is drawn, or the car let go. *)
LEMMA PluggedStep ==
  ASSUME NEW ev \in Events, CellStep(ev), VisitsForm, NEW f \in Faults, Plugged(f)
  PROVE  Plugged(f)' \/ Unplugging(f)' \/ LetGo(f)'
<1> USE StepLeavesAlone
<1>1. CellTakes(cell, ev, cell') /\ CellForm(cell) /\ ev # "c_mate_abort"
  BY StepTakesCell DEF VisitsForm
<1>2. /\ f.car = car /\ cell.Tether = "Charging" /\ f.t = instant /\ AtTick /\ OutNow /\ f.t + f.arg = repairAt
      /\ f.car \notin overstayed
      /\ Mine(f.car, "demate_started") = {} /\ Mine(f.car, "demate_cleared") = {} /\ Mine(f.car, "car_left") = {}
  BY DEF Plugged
<1>3. cell.ChargeArm = "Latched"
  BY <1>1, <1>2 DEF CellForm
<1>4. ev \notin {"u_cleared", "c_release", "u_fault", "u_repaired"}
  <2>1. ev \notin {"u_cleared", "c_release"}
    BY <1>1, <1>2, <1>3 DEF CellTakes, ChargeArmTakes, TetherTakes
  <2>2. ev # "u_fault"
    BY <1>2, OutAfter
  <2>3. ev # "u_repaired"
    BY <1>2, OutAfter
  <2> QED BY <2>1, <2>2, <2>3
<1>5. OutNow' /\ repairAt' = repairAt
  BY <1>2, <1>4, OutAfter, StepWrites
<1>6. Mine(f.car, "demate_cleared")' = {}
  BY <1>2, <1>4, WroteWhen
<1>7. CASE ev = "c_unlatch"
  <2>1. cell'.Tether = "Demate"
    BY <1>1, <1>7 DEF CellTakes, TetherTakes
  <2>2. /\ Mine(f.car, "demate_started")' # {} /\ Mine(f.car, "car_left")' = {}
        /\ \A x \in Mine(f.car, "demate_started")' : x.t = f.t /\ x.t + x.arg = until'
    BY <1>2, <1>7, WroteWhen
  <2>3. \A tick \in 0..(instant - 1) : tick < until'
    <3>1. until' = instant + Window
      BY <1>7 DEF CellStep
    <3> QED BY <3>1, PostAssumption
  <2> QED BY <1>2, <1>5, <1>6, <2>1, <2>2, <2>3 DEF Unplugging, AllAt, Linked
<1>8. CASE ev = "c_emergency_release"
  <2>1. cell'.Tether = "None" /\ cell'.Car = "Left"
    BY <1>1, <1>8 DEF CellTakes, TetherTakes, CarTakes
  <2>2. /\ Mine(f.car, "demate_started")' = {} /\ Mine(f.car, "car_left")' # {}
        /\ \A x \in Mine(f.car, "car_left")' : x.t = f.t
    BY <1>2, <1>8, WroteWhen
  <2> QED BY <1>2, <2>1, <2>2 DEF LetGo, AllAt, Gone
<1>9. CASE ev \notin {"c_unlatch", "c_emergency_release"}
  <2>1. cell'.Tether = "Charging"
    BY <1>1, <1>2, <1>4, <1>9 DEF CellTakes, TetherTakes
  <2>2. Mine(f.car, "demate_started")' = {} /\ Mine(f.car, "car_left")' = {}
    BY <1>2, <1>4, <1>9, WroteWhen
  <2> QED BY <1>2, <1>5, <1>6, <2>1, <2>2 DEF Plugged
<1> QED BY <1>7, <1>8, <1>9

(* The demate ends once its window is over. *)
LEMMA UnpluggingStep ==
  ASSUME NEW ev \in Events, CellStep(ev), VisitsForm, NEW f \in Faults, Unplugging(f)
  PROVE  Unplugging(f)' \/ Staying(f)'
<1> USE StepLeavesAlone
<1>1. CellTakes(cell, ev, cell') /\ CellForm(cell) /\ ev # "c_mate_abort"
  BY StepTakesCell DEF VisitsForm
<1>2. /\ f.car = car /\ cell.Tether = "Demate" /\ Linked(f) /\ f.car \notin overstayed
      /\ AllAt(f.car, "demate_started", f.t) /\ \A x \in Mine(f.car, "demate_started") : x.t + x.arg = until
      /\ \A tick \in 0..(instant - 1) : tick % Step = 0 => tick < until
      /\ Mine(f.car, "demate_cleared") = {} /\ Mine(f.car, "car_left") = {}
  BY DEF Unplugging
<1>3. ev \notin {"c_unlatch", "c_release", "c_emergency_release", "u_fault"}
  <2>1. ev # "u_fault"
    BY <1>2, OutAfter
  <2> QED BY <2>1, <1>1, <1>2 DEF CellTakes, TetherTakes
<1>4. Linked(f)' /\ until' = until
  <2>1. repairAt' = repairAt /\ until' = until
    BY <1>3, StepWrites
  <2>2. OutNow' => OutNow
    BY <1>3, OutAfter
  <2> QED BY <2>1, <2>2, <1>2 DEF Linked
<1>5. /\ Mine(f.car, "demate_started")' = Mine(f.car, "demate_started")
      /\ Mine(f.car, "car_left")' = {}
  BY <1>2, <1>3, WroteWhen
<1>6. AllAt(f.car, "demate_started", f.t)'
  BY <1>2, <1>5 DEF AllAt
<1>7. CASE ev = "u_cleared"
  <2>1. cell'.Tether = "Expired"
    BY <1>1, <1>2, <1>7 DEF CellTakes, TetherTakes
  <2>2. AllAt(f.car, "demate_cleared", instant)'
    BY <1>2, <1>7, WroteWhen DEF AllAt
  <2>3. instant % Step = 0
    BY <1>7 DEF CellStep, Timely, AtTick
  <2>4. instant \in f.t..instant
    OBVIOUS
  <2>5. Staying(f)' <=> /\ f.car = car' /\ cell'.Tether \in {"Expired", "Held"} /\ Linked(f)'
                        /\ AllAt(f.car, "demate_started", f.t)' /\ Mine(f.car, "car_left")' = {}
                        /\ \E d \in f.t..instant' :
                             /\ AllAt(f.car, "demate_cleared", d)' /\ d % Step = 0
                             /\ f.car \in overstayed' <=> d < instant' /\ ~Over(f, d)'
    BY DEF Staying
  <2> QED BY <1>2, <1>4, <1>5, <1>6, <2>1, <2>2, <2>3, <2>4, <2>5 DEF AllAt
<1>8. CASE ev # "u_cleared"
  <2>1. cell'.Tether = "Demate"
    BY <1>1, <1>2, <1>3, <1>8 DEF CellTakes, TetherTakes
  <2>2. Mine(f.car, "demate_cleared")' = {}
    BY <1>2, <1>8, WroteWhen
  <2> QED BY <1>2, <1>4, <1>5, <1>6, <2>1, <2>2 DEF Unplugging
<1> QED BY <1>7, <1>8

(* A car whose demate is over stays until the sweep releases it. *)
LEMMA StayingStep ==
  ASSUME NEW ev \in Events, CellStep(ev), VisitsForm, NEW f \in Faults, Staying(f)
  PROVE  Staying(f)' \/ WentAfter(f)'
<1> USE StepLeavesAlone
<1>1. CellTakes(cell, ev, cell') /\ CellForm(cell) /\ ev # "c_mate_abort" /\ ev # "u_tick"
  BY StepTakesCell DEF VisitsForm
<1>2. /\ f.car = car /\ cell.Tether \in {"Expired", "Held"} /\ Linked(f)
      /\ AllAt(f.car, "demate_started", f.t) /\ Mine(f.car, "car_left") = {}
  BY DEF Staying
<1>3. PICK d \in f.t..instant :
        /\ AllAt(f.car, "demate_cleared", d) /\ d % Step = 0
        /\ f.car \in overstayed <=> d < instant /\ ~Over(f, d)
  BY DEF Staying
<1>4. cell.ChargeArm = "Stowed" /\ cell.Car = "OnCharger"
  BY <1>1, <1>2 DEF CellForm
<1>5. ev \notin {"c_unlatch", "u_cleared", "c_emergency_release", "u_fault"}
  <2>1. ev # "u_fault"
    BY <1>2, OutAfter
  <2> QED BY <2>1, <1>1, <1>2, <1>4 DEF CellTakes, TetherTakes, ChargeArmTakes
<1>6. Linked(f)'
  <2>1. repairAt' = repairAt
    BY <1>5, StepWrites
  <2>2. OutNow' => OutNow
    BY <1>5, OutAfter
  <2> QED BY <2>1, <2>2, <1>2 DEF Linked
<1>7. \A t : /\ AllAt(f.car, "demate_started", t)' <=> AllAt(f.car, "demate_started", t)
             /\ AllAt(f.car, "demate_cleared", t)' <=> AllAt(f.car, "demate_cleared", t)
  BY <1>5, WroteWhen DEF AllAt
<1>8. \A t : Over(f, t)' <=> Over(f, t)
  BY DEF Over
<1>9. CASE ev = "c_release"
  <2>1. cell'.Tether = "None" /\ cell'.Car = "Left" /\ cell'.ChargeArm = "Stowed"
    BY <1>1, <1>4, <1>9 DEF CellTakes, TetherTakes, CarTakes, ChargeArmTakes
  <2>2. \A t : t = instant => AllAt(f.car, "car_left", t)'
    BY <1>2, <1>9, WroteWhen DEF AllAt
  <2>3. instant \in d..instant'
    BY <1>3
  <2>4. Gone(cell)'
    BY <2>1 DEF Gone
  <2>5. d \in f.t..instant'
    BY <1>3
  <2>6. WentAfter(f)' <=> /\ f.car = car' => Gone(cell)' /\ cell'.ChargeArm = "Stowed"
                          /\ AllAt(f.car, "demate_started", f.t)'
                          /\ \E e \in f.t..instant' : \E left \in e..instant' :
                               /\ AllAt(f.car, "demate_cleared", e)' /\ AllAt(f.car, "car_left", left)'
                               /\ f.car \in overstayed' <=> e < left /\ ~Over(f, e)'
    BY DEF WentAfter
  <2>7. /\ AllAt(f.car, "demate_cleared", d)' /\ AllAt(f.car, "demate_started", f.t)'
        /\ f.car \in overstayed' <=> d < instant /\ ~Over(f, d)'
    BY <1>2, <1>3, <1>7, <1>8
  <2>8. \E left \in d..instant' : AllAt(f.car, "car_left", left)' /\ left = instant
    BY <2>2, <2>3
  <2> QED BY <2>1, <2>4, <2>5, <2>6, <2>7, <2>8
<1>10. CASE ev # "c_release"
  <2>1. cell'.Tether \in {"Expired", "Held"}
    BY <1>1, <1>2, <1>5, <1>10 DEF CellTakes, TetherTakes
  <2>2. Mine(f.car, "car_left")' = {}
    BY <1>2, <1>5, <1>10, WroteWhen
  <2>3. Staying(f)' <=> /\ f.car = car' /\ cell'.Tether \in {"Expired", "Held"} /\ Linked(f)'
                        /\ AllAt(f.car, "demate_started", f.t)' /\ Mine(f.car, "car_left")' = {}
                        /\ \E e \in f.t..instant' :
                             /\ AllAt(f.car, "demate_cleared", e)' /\ e % Step = 0
                             /\ f.car \in overstayed' <=> e < instant' /\ ~Over(f, e)'
    BY DEF Staying
  <2>4. d \in f.t..instant' /\ AllAt(f.car, "demate_cleared", d)' /\ AllAt(f.car, "demate_started", f.t)'
    BY <1>2, <1>3, <1>7
  <2>5. f.car \in overstayed' <=> d < instant' /\ ~Over(f, d)'
    BY <1>3, <1>8
  <2> QED BY <1>2, <1>3, <1>6, <2>1, <2>2, <2>3, <2>4, <2>5
<1> QED BY <1>9, <1>10

(* An event takes each faulted visit to its next stage, or leaves it at its own. *)
LEMMA StepKeepsStays ==
  ASSUME NEW ev \in Events, CellStep(ev), VisitsForm
  PROVE  StaysForm'
<1> USE StepLeavesAlone
<1>1. StaysForm /\ VisitForm /\ CellForm(cell)
  BY DEF VisitsForm
<1>2. \A f \in Faults' \ Faults : Writes(ev, f) /\ ev = "u_fault" /\ f.t = instant /\ f.car = car
  BY FaultsAfter DEF Writes
<1>3. ASSUME ev = "u_fault"
      PROVE  /\ Mine(car, "charger_faulted") = {} /\ \A f \in Faults : f.car # car
             /\ \A event \in {"demate_started", "demate_cleared", "car_left"} : Mine(car, event) = {}
             /\ car \notin overstayed
  <2>1. cell.Charger = "Occupied" /\ cell.Tether = "Charging"
    BY <1>3, OutAfter
  <2>2. /\ Mine(car, "charger_faulted") = {}
        /\ \A event \in {"demate_started", "demate_cleared", "car_left"} : Mine(car, event) = {}
    BY <1>1, <2>1 DEF VisitForm
  <2> QED BY <1>1, <2>2 DEF StaysForm, Mine, Faults
<1>4. ASSUME NEW f \in Faults', NEW g \in Faults', f.car = g.car PROVE f = g
  <2>1. \A h, k \in Faults' \ Faults : h = k
    BY FaultsAfter
  <2>2. f \in Faults /\ g \in Faults => f = g
    BY <1>1, <1>4 DEF StaysForm
  <2> QED BY <1>2, <1>3, <1>4, <2>1, <2>2
<1>5. \A c \in overstayed' : Mine(c, "charger_faulted")' # {}
  <2>1. \A c : Mine(c, "charger_faulted") \subseteq Mine(c, "charger_faulted")'
    BY MineAfter
  <2> QED BY <2>1, <1>1 DEF StaysForm
<1>6. ASSUME NEW f \in Faults', f \notin Faults PROVE Plugged(f)'
  <2>1. Writes(ev, f) /\ ev = "u_fault" /\ f.t = instant /\ f.car = car
    BY <1>2, <1>6
  <2>2. f.t + f.arg = repairAt' /\ OutNow' /\ cell.Tether = "Charging"
    BY <2>1, OutAfter DEF Writes
  <2>3. cell'.Tether = "Charging"
    <3>1. CellTakes(cell, ev, cell')
      BY StepTakesCell DEF VisitsForm
    <3> QED BY <3>1, <2>1, <2>2 DEF CellTakes, TetherTakes
  <2>4. AtTick
    BY <2>1 DEF CellStep, Timely
  <2>5. /\ Mine(f.car, "demate_started")' = {} /\ Mine(f.car, "demate_cleared")' = {} /\ Mine(f.car, "car_left")' = {}
    BY <1>3, <2>1, WroteWhen
  <2> QED BY <1>3, <2>1, <2>2, <2>3, <2>4, <2>5 DEF Plugged
<1>7. ASSUME NEW f \in Faults PROVE Plugged(f)' \/ Unplugging(f)' \/ Staying(f)' \/ WentAfter(f)' \/ LetGo(f)'
  <2>1. CASE Plugged(f)
    BY <2>1, PluggedStep
  <2>2. CASE Unplugging(f)
    BY <2>2, UnpluggingStep
  <2>3. CASE Staying(f)
    BY <2>3, StayingStep
  <2>4. CASE WentAfter(f)
    <3>1. f.car = car => Gone(cell)
      BY <2>4 DEF WentAfter
    <3> QED BY <2>4, <3>1, GoneStep
  <2>5. CASE LetGo(f)
    <3>1. f.car = car => Gone(cell)
      BY <2>5 DEF LetGo
    <3> QED BY <2>5, <3>1, GoneStep
  <2> QED BY <2>1, <2>2, <2>3, <2>4, <2>5, <1>1 DEF StaysForm
<1> QED BY <1>4, <1>5, <1>6, <1>7 DEF StaysForm

(* So an event keeps what is known of the visits. *)
LEMMA StepKeepsVisits ==
  ASSUME NEW ev \in Events, CellStep(ev), VisitsForm
  PROVE  VisitsForm'
<1>1. Numbers' /\ CellForm(cell)' /\ RowsForm'
  BY StepWrites, StepTakesCell, StepKeepsRows DEF VisitsForm, CellForm
<1> QED BY <1>1, StepKeepsFaults, StepKeepsMates, StepKeepsVisit, StepKeepsStays DEF VisitsForm

-----------------------------------------------------------------------------
(* A tick moves a held car's tether and nothing else. *)
LEMMA TickIsTaken ==
  ASSUME NEW s, s.Tether = "Held"
  PROVE  LET n == After(s, "u_tick")
         IN n.Charger = s.Charger /\ n.ChargeArm = s.ChargeArm /\ n.Car = s.Car /\ n.Tether = "Expired"
<1>1. <<"Held", "u_tick", "Expired">> \in Tether
  BY DEF Tether, Go
<1>2. "Tether" \in DOMAIN Plant /\ Plant.Tether = Tether
  BY DEF Plant
<1>3. "u_tick" \in Events
  BY <1>1, <1>2 DEF Events
<1>4. ASSUME NEW a \in DOMAIN Plant, \E e \in Plant[a] : e[2] = "u_tick" PROVE a = "Tether"
  <2>1. /\ \A e \in Charger : e[2] # "u_tick"
        /\ \A e \in ChargeArm : e[2] # "u_tick"
        /\ \A e \in CleanArm : e[2] # "u_tick"
        /\ \A e \in Car : e[2] # "u_tick"
        /\ \A e \in Battery : e[2] # "u_tick"
        /\ \A e \in Cabin : e[2] # "u_tick"
    BY DEF Charger, ChargeArm, CleanArm, Car, Battery, Cabin, Go, Stay
  <2> QED BY <2>1, <1>4 DEF Plant
<1>5. \A a \in DOMAIN Moves["u_tick"] : s[a] \in DOMAIN Moves["u_tick"][a]
  <2> TAKE a \in DOMAIN Moves["u_tick"]
  <2>1. a = "Tether"
    BY <1>3, <1>4 DEF Moves
  <2>2. DOMAIN Moves["u_tick"]["Tether"] = {e[1] : e \in {x \in Plant["Tether"] : x[2] = "u_tick"}}
    BY <1>1, <1>2, <1>3 DEF Moves
  <2>3. "Held" \in {e[1] : e \in {x \in Plant["Tether"] : x[2] = "u_tick"}}
    BY <1>1, <1>2
  <2> QED BY <2>1, <2>2, <2>3
<1>6. PlantAllows(s, "u_tick")
  BY <1>5 DEF PlantAllows, PlantGuard
<1>7. CellTakes(s, "u_tick", After(s, "u_tick"))
  BY <1>3, <1>6, CellIsTaken
<1> QED BY <1>7 DEF CellTakes, ChargerTakes, ChargeArmTakes, TetherTakes, CarTakes

(* Time passes. *)
LEMMA PassLeavesAlone ==
  ASSUME Pass, VisitsForm
  PROVE  /\ cell'.Charger = cell.Charger /\ cell'.ChargeArm = cell.ChargeArm /\ cell'.Car = cell.Car
         /\ cell'.Tether = cell.Tether \/ (cell.Tether = "Held" /\ cell'.Tether = "Expired")
         /\ (OutNow' <=> OutNow) /\ instant' = instant + 1 /\ instant < MaxTick /\ instant \in Nat
         /\ car' = car /\ until' = until /\ repairAt' = repairAt /\ rows' = rows /\ deadMates' = deadMates
         /\ Seen' = Seen /\ Faults' = Faults /\ \A c, event : Mine(c, event)' = Mine(c, event)
         /\ \A f \in Faults : f.t \in Nat /\ f.arg \in Nat /\ f.t <= instant /\ f.arg > 0 /\ f.car <= car
         /\ CellForm(cell)'
<1>1. cell' = cell \/ (cell.Tether = "Held" /\ cell' = After(cell, "u_tick"))
  BY DEF Pass
<1>2. /\ cell'.Charger = cell.Charger /\ cell'.ChargeArm = cell.ChargeArm /\ cell'.Car = cell.Car
      /\ cell'.Tether = cell.Tether \/ (cell.Tether = "Held" /\ cell'.Tether = "Expired")
  BY <1>1, TickIsTaken
<1>3. OutNow' <=> OutNow
  BY <1>2 DEF OutNow, OutOfService
<1>4. /\ instant' = instant + 1 /\ instant < MaxTick /\ instant \in Nat
      /\ car' = car /\ until' = until /\ repairAt' = repairAt /\ rows' = rows /\ deadMates' = deadMates
  BY DEF Pass, VisitsForm, Numbers
<1>5. Seen' = Seen
  BY <1>4 DEF Seen
<1>6. Faults' = Faults /\ \A c, event : Mine(c, event)' = Mine(c, event)
  BY <1>5 DEF Faults, Mine
<1>7. \A f \in Faults : f.t \in Nat /\ f.arg \in Nat /\ f.t <= instant /\ f.arg > 0 /\ f.car <= car
  BY SeenAreRows, FaultsAre DEF VisitsForm, RowsForm, RowKind
<1>8. CellForm(cell')
  BY <1>2 DEF VisitsForm, CellForm
<1>9. CellForm(cell)'
  BY <1>8 DEF CellForm
<1> QED BY <1>2, <1>3, <1>4, <1>5, <1>6, <1>7, <1>9

(* Time takes a faulted visit no further, and counts its stay. *)
LEMMA PassKeepsStay ==
  ASSUME Pass, VisitsForm, NEW f \in Faults
  PROVE  Unplugging(f)' \/ Staying(f)' \/ WentAfter(f)' \/ LetGo(f)'
<1> USE PassLeavesAlone
<1>1. StaysForm /\ VisitForm /\ FaultsForm /\ CellForm(cell) /\ repairAt \in Nat /\ until \in Nat
  BY DEF VisitsForm, Numbers
<1>2. overstayed' = IF cell.Tether = "Held" /\ OutNow THEN overstayed \cup {car} ELSE overstayed
  BY DEF Pass, OutNow
<1>3. OutNow /\ AtTick => instant < repairAt /\ cell.ChargeArm # "Latched"
  BY <1>1 DEF Pass, OutNow
<1>4. ~Plugged(f)
  <2>1. Plugged(f) => cell.ChargeArm = "Latched"
    BY <1>1 DEF Plugged, CellForm
  <2> QED BY <1>3, <2>1 DEF Plugged
<1>5. \A c, event, t : AllAt(c, event, t)' <=> AllAt(c, event, t)
  BY DEF AllAt
<1>6. \A t : Over(f, t)' <=> Over(f, t)
  BY DEF Over
<1>7. Linked(f)' <=> Linked(f)
  BY DEF Linked
<1>8. CASE Unplugging(f)
  <2>1. cell'.Tether = "Demate" /\ overstayed' = overstayed
    BY <1>2, <1>8 DEF Unplugging
  <2>2. \A tick \in 0..(instant' - 1) : tick % Step = 0 => tick < until'
    <3>1. AtTick => instant < until
      BY <1>1, <1>8 DEF Pass, Unplugging
    <3>2. \A tick \in 0..(instant - 1) : tick % Step = 0 => tick < until
      BY <1>8 DEF Unplugging
    <3> QED BY <3>1, <3>2 DEF AtTick
  <2>3. AllAt(f.car, "demate_started", f.t)' /\ Linked(f)'
    BY <1>5, <1>7, <1>8 DEF Unplugging
  <2>4. Unplugging(f)'
    BY <1>8, <2>1, <2>2, <2>3 DEF Unplugging
  <2> QED BY <2>4
<1>9. CASE Staying(f)
  <2>1. PICK d \in f.t..instant :
          /\ AllAt(f.car, "demate_cleared", d) /\ d % Step = 0
          /\ f.car \in overstayed <=> d < instant /\ ~Over(f, d)
    BY <1>9 DEF Staying
  <2>2. f.car = car /\ cell.Tether = "Held" /\ Linked(f)
    BY <1>9 DEF Staying, Pass
  <2>3. OutNow => ~Over(f, d)
    <3>1. OutNow => \A tick \in 0..(instant - 1) : tick % Step = 0 => tick < repairAt
      BY <1>1 DEF FaultsForm
    <3>2. OutNow => \A tick \in 0..instant : tick % Step = 0 => tick < repairAt
      BY <1>1, <1>3, <3>1 DEF AtTick
    <3>3. OutNow => f.t + f.arg = repairAt
      BY <2>2 DEF Linked
    <3> QED BY <1>1, <2>1, <3>2, <3>3 DEF Over
  <2>4. ~OutNow => Over(f, instant)
    BY <1>1 DEF FaultsForm
  <2>5. f.car \in overstayed' <=> d < instant' /\ ~Over(f, d)'
    <3>1. f.car \in overstayed' <=> f.car \in overstayed \/ OutNow
      BY <1>2, <2>2
    <3>2. d < instant' /\ (d < instant \/ d = instant)
      BY <2>1
    <3>3. Over(f, d)' <=> Over(f, d)
      BY <1>6
    <3> QED BY <2>1, <2>3, <2>4, <3>1, <3>2, <3>3
  <2>6. d \in f.t..instant' /\ AllAt(f.car, "demate_cleared", d)' /\ AllAt(f.car, "demate_started", f.t)' /\ Linked(f)'
    BY <1>5, <1>7, <1>9, <2>1 DEF Staying
  <2>7. Staying(f)' <=> /\ f.car = car' /\ cell'.Tether \in {"Expired", "Held"} /\ Linked(f)'
                        /\ AllAt(f.car, "demate_started", f.t)' /\ Mine(f.car, "car_left")' = {}
                        /\ \E e \in f.t..instant' :
                             /\ AllAt(f.car, "demate_cleared", e)' /\ e % Step = 0
                             /\ f.car \in overstayed' <=> e < instant' /\ ~Over(f, e)'
    BY DEF Staying
  <2>8. Mine(f.car, "car_left")' = {}
    BY <1>9 DEF Staying
  <2> QED BY <2>1, <2>2, <2>5, <2>6, <2>7, <2>8
<1>10. CASE WentAfter(f) \/ LetGo(f)
  <2>1. f.car = car => Gone(cell)
    BY <1>10 DEF WentAfter, LetGo
  <2>2. f.car = car' => Gone(cell')
    BY <2>1 DEF Gone
  <2>3. f.car \in overstayed' <=> f.car \in overstayed
    BY <1>2, <2>1 DEF Gone
  <2>4. WentAfter(f) => (f.car = car' => Gone(cell') /\ cell'.ChargeArm = "Stowed")
    BY <2>2 DEF WentAfter
  <2>5. instant' \in Nat /\ instant <= instant'
    OBVIOUS
  <2>6. WentAfter(f) => WentAfter(f)'
    BY <2>3, <2>4, <2>5, WentAfterStays
  <2>7. LetGo(f) => LetGo(f)'
    BY <2>2, <2>3, LetGoStays
  <2> QED BY <1>10, <2>6, <2>7
<1> QED BY <1>1, <1>4, <1>8, <1>9, <1>10 DEF StaysForm

(* So the passing of time keeps what is known of the visits. *)
LEMMA PassKeepsVisits ==
  ASSUME Pass, VisitsForm
  PROVE  VisitsForm'
<1> USE PassLeavesAlone
<1>1. Numbers /\ RowsForm /\ StaysForm /\ VisitForm /\ FaultsForm /\ MatesForm /\ CellForm(cell) /\ repairAt \in Nat
  BY DEF VisitsForm, Numbers
<1>2. OutNow /\ AtTick => instant < repairAt /\ cell.ChargeArm # "Latched"
  BY <1>1 DEF Pass, OutNow
<1>3. Numbers'
  BY <1>1, PostAssumption DEF Numbers
<1>4. RowsForm'
  <2>1. \A x \in Seen : x.t <= instant /\ x.car <= car /\ (x.event = "charger_faulted" => x.arg > 0) /\ x.t \in Nat /\ x.car \in Nat
    BY <1>1, SeenAreRows DEF RowsForm, RowKind
  <2> QED BY <2>1 DEF RowsForm
<1>5. FaultsForm'
  <2>1. \A f \in Faults : Over(f, instant) => Over(f, instant)'
    BY DEF Over
  <2>2. OutNow => \A tick \in 0..(instant' - 1) : tick % Step = 0 => tick < repairAt
    BY <1>1, <1>2 DEF FaultsForm, AtTick
  <2> QED BY <1>1, <2>1, <2>2 DEF FaultsForm
<1>6. MatesForm'
  <2>1. \A f, t : Over(f, t)' <=> Over(f, t)
    BY DEF Over
  <2> QED BY <1>1, <2>1 DEF MatesForm, Over
<1>7. VisitForm'
  <2>1. \A event : Mine(car, event)' = Mine(car, event)
    BY DEF Mine
  <2>2. OutNow /\ Mine(car, "charger_faulted") = {} => cell.Tether \in {"None", "Mate"}
    BY <1>1, <1>2 DEF VisitForm, CellForm
  <2> QED BY <1>1, <2>1, <2>2 DEF VisitForm
<1>8. StaysForm'
  <2>1. \A c \in overstayed' : Mine(c, "charger_faulted") # {}
    <3>1. overstayed' = IF cell.Tether = "Held" /\ OutNow THEN overstayed \cup {car} ELSE overstayed
      BY DEF Pass, OutNow
    <3>2. cell.Tether = "Held" /\ OutNow => Mine(car, "charger_faulted") # {}
      BY <1>1 DEF VisitForm
    <3> QED BY <1>1, <3>1, <3>2 DEF StaysForm
  <2> QED BY <1>1, <2>1, PassKeepsStay DEF StaysForm
<1> QED BY <1>3, <1>4, <1>5, <1>6, <1>7, <1>8 DEF VisitsForm

-----------------------------------------------------------------------------
(* The next car finds nothing of its own. *)
LEMMA NextVisitKeepsVisits ==
  ASSUME NextVisit, VisitsForm
  PROVE  VisitsForm'
<1>1. Numbers /\ RowsForm /\ StaysForm /\ VisitForm /\ FaultsForm /\ MatesForm /\ CellForm(cell)
  BY DEF VisitsForm
<1>2. /\ car' = car + 1 /\ car \in Nat /\ cell.Tether = "None" /\ cell.ChargeArm = "Stowed"
      /\ UNCHANGED <<mode, instant, rows, stopped, until, repairAt, overstayed, deadMates>>
  BY DEF NextVisit, Marked, VisitsForm, Numbers
<1>3. /\ cell'.Charger = cell.Charger /\ cell'.ChargeArm = "Stowed" /\ cell'.Tether = "None" /\ cell'.Car = "Inbound"
  BY DEF NextVisit, Empty
<1>4. (OutNow' <=> OutNow) /\ Seen' = Seen
  BY <1>2, <1>3 DEF OutNow, OutOfService, Seen
<1>5. Faults' = Faults /\ \A c, event : Mine(c, event)' = Mine(c, event)
  BY <1>4 DEF Faults, Mine
<1>6. \A f, t : Over(f, t)' <=> Over(f, t)
  BY DEF Over
<1>7. \A x \in Seen : x.car \in Nat /\ x.car <= car
  BY <1>1, SeenAreRows DEF RowsForm, RowKind
<1>8. CellForm(cell') /\ Numbers'
  BY <1>1, <1>2, <1>3 DEF CellForm, Numbers
<1>9. RowsForm' /\ MatesForm'
  <2>1. RowsForm'
    BY <1>1, <1>2, <1>4, <1>7 DEF RowsForm
  <2>2. MatesForm'
    BY <1>1, <1>2, <1>4, <1>5 DEF MatesForm, Over
  <2> QED BY <2>1, <2>2
<1>10. FaultsForm'
  <2>1. \A f : Over(f, instant)' <=> Over(f, instant)
    BY <1>2 DEF Over
  <2> QED BY <1>1, <1>2, <1>4, <1>5, <2>1 DEF FaultsForm
<1>11. VisitForm'
  <2>1. \A event : Mine(car, event)' = {}
    BY <1>2, <1>4, <1>7 DEF Mine
  <2> QED BY <1>3, <2>1 DEF VisitForm
<1>12. StaysForm'
  <2>1. ASSUME NEW f \in Faults PROVE WentAfter(f)' \/ LetGo(f)'
    <3>1. f.car <= car /\ f.car \in Nat /\ f.car # car' /\ f.t \in Nat /\ instant \in Nat
      BY <1>1, <1>2, <1>7, SeenAreRows, FaultsAre DEF RowKind, Numbers
    <3>2. WentAfter(f) \/ LetGo(f)
      BY <1>1, <1>2 DEF StaysForm, Plugged, Unplugging, Staying
    <3>3. WentAfter(f) => WentAfter(f)'
      BY <3>1, <1>2, <1>5, WentAfterStays
    <3>4. LetGo(f) => LetGo(f)'
      BY <3>1, <1>2, <1>5, LetGoStays
    <3> QED BY <3>2, <3>3, <3>4
  <2> QED BY <1>1, <1>2, <1>5, <2>1 DEF StaysForm
<1> QED BY <1>8, <1>9, <1>10, <1>11, <1>12 DEF VisitsForm, CellForm

-----------------------------------------------------------------------------
(* The trace of a run that is stopped: at a tick, later than every row. *)
StopsNow == AtTick /\ rows # <<>> /\ Last(rows).t < instant /\ VisitsForm
StopRow == Row("run_stopped", 0)
Ended == Append(rows, StopRow)

(* The rows of an ended trace: the visits' own, and the stop's. *)
LEMMA EndedRows ==
  ASSUME StopsNow
  PROVE  /\ Len(Ended) \in Nat /\ instant \in Nat /\ DOMAIN Ended = 1..Len(Ended)
         /\ \A i \in 1..Len(Ended) : Ended[i] \in Seen \/ Ended[i] = StopRow
         /\ \A x \in Seen : \E i \in 1..Len(Ended) : Ended[i] = x
         /\ \E i \in 1..Len(Ended) : Ended[i] = StopRow
         /\ StopRow.event = "run_stopped" /\ StopRow.t = instant
         /\ \A x \in Seen : x.t < instant /\ x.t \in Nat /\ x.arg \in Nat /\ x.event \in Names
<1>1. Numbers /\ RowsForm /\ instant \in Nat
  BY DEF StopsNow, VisitsForm, Numbers
<1>2. StopRow.event = "run_stopped" /\ StopRow.t = instant
  BY DEF StopRow, Row
<1>3. /\ Len(Ended) = Len(rows) + 1 /\ Len(rows) \in Nat /\ Ended[Len(rows) + 1] = StopRow
      /\ \A i \in 1..Len(rows) : Ended[i] = rows[i]
      /\ DOMAIN Ended = 1..Len(Ended)
  <2>1. ASSUME NEW T, rows \in Seq(T), NEW e
        PROVE  /\ Len(Append(rows, e)) = Len(rows) + 1 /\ Len(rows) \in Nat /\ Append(rows, e)[Len(rows) + 1] = e
               /\ \A i \in 1..Len(rows) : Append(rows, e)[i] = rows[i]
               /\ DOMAIN Append(rows, e) = 1..(Len(rows) + 1)
    BY <2>1
  <2> QED BY <2>1, <1>1 DEF Numbers, Ended
<1>4. \A x \in Seen : x.t < instant /\ x.t \in Nat /\ x.arg \in Nat /\ x.event \in Names
  <2> TAKE x \in Seen
  <2>1. x.t <= instant /\ x.t # instant
    BY <1>1 DEF StopsNow, RowsForm
  <2>2. x.t \in Nat /\ x.arg \in Nat /\ x.event \in Names
    BY <1>1, SeenAreRows DEF RowKind
  <2> QED BY <2>1, <2>2, <1>1
<1> QED BY <1>1, <1>2, <1>3, <1>4 DEF Seen

(* The trace ends at the stop. *)
LEMMA EndsAtTheStop == ASSUME StopsNow PROVE EndOf(Ended) = instant
<1> USE EndedRows
<1> DEFINE I == {i \in 1..Len(Ended) : Ended[i].event = "run_stopped"}
<1>1. EndOf(Ended) = LET stop == IF I # {} THEN Min(I) ELSE 0 IN IF stop # 0 THEN Ended[stop].t ELSE Last(Ended).t
  BY DEF EndOf, SelectInSeq
<1>2. I # {} /\ I \subseteq Nat /\ 0 \notin I
  OBVIOUS
<1>3. \A i \in I : Ended[i].t = instant
  BY DEF Names
<1> HIDE DEF I
<1>4. PICK n \in I : \A m \in I : n <= m
  BY <1>2, LeastNumber
<1>5. Min(I) \in I
  BY <1>4 DEF Min
<1> QED BY <1>1, <1>2, <1>3, <1>5

(* The first tick at or after an instant the run reached. *)
LEMMA FirstTick ==
  ASSUME StopsNow, NEW t \in Nat
  PROVE  /\ t <= instant => /\ FirstAtOrAfter(Ticks, t) \in t..instant /\ FirstAtOrAfter(Ticks, t) % Step = 0
                            /\ \A tick \in t..instant : tick % Step = 0 => FirstAtOrAfter(Ticks, t) <= tick
         /\ t > instant => FirstAtOrAfter(Ticks, t) = Open
<1> USE EndedRows
<1> DEFINE later == {x \in Ticks : x >= t}
<1>1. FirstAtOrAfter(Ticks, t) = IF later = {} THEN Open ELSE Min(later)
  BY DEF FirstAtOrAfter
<1>2. later = {x \in 0..instant : x % Step = 0 /\ x >= t}
  BY DEF Ticks
<1>3. CASE t <= instant
  <2>1. instant \in later /\ later \subseteq Nat
    BY <1>2, <1>3 DEF StopsNow, AtTick
  <2> HIDE DEF later
  <2>2. PICK n \in later : \A m \in later : n <= m
    BY <2>1, LeastNumber
  <2>3. Min(later) \in later /\ \A m \in later : Min(later) <= m
    BY <2>2 DEF Min
  <2>4. Min(later) \in t..instant /\ Min(later) % Step = 0
    BY <1>2, <2>3
  <2>5. \A tick \in t..instant : tick % Step = 0 => Min(later) <= tick
    <3> TAKE tick \in t..instant
    <3>1. tick % Step = 0 => tick \in later
      BY <1>2
    <3> QED BY <2>3, <3>1
  <2>6. FirstAtOrAfter(Ticks, t) = Min(later)
    BY <1>1, <2>1
  <2> QED BY <1>3, <2>4, <2>5, <2>6
<1>4. CASE t > instant
  <2>1. later = {}
    BY <1>2, <1>4
  <2> QED BY <1>1, <1>4, <2>1
<1> QED BY <1>3, <1>4

(* The monitor takes a charger for repaired from the first tick that meets the end of the repair. *)
LEMMA RepairedWhenOver ==
  ASSUME StopsNow, NEW f \in Faults
  PROVE  /\ RepairedAt(Ended, Ticks, f) \in Nat
         /\ \A t \in 0..instant : t < RepairedAt(Ended, Ticks, f) <=> ~Over(f, t)
<1> USE EndedRows
<1> DEFINE drawn == f.t + f.arg
           mended == FirstAtOrAfter(Ticks, drawn)
<1>1. drawn \in Nat /\ f.t \in Nat /\ f.arg \in Nat
  BY FaultsAre
<1>2. instant < Open
  BY PostAssumption DEF StopsNow, VisitsForm, Numbers, Open
<1>3. instant \in Ticks
  BY DEF StopsNow, AtTick, Ticks
<1>4. RepairedAt(Ended, Ticks, f) = IF mended > instant THEN Open ELSE mended
  BY <1>3, EndsAtTheStop DEF RepairedAt
<1>5. \A t : Over(f, t) <=> \E tick \in 0..t : tick % Step = 0 /\ drawn <= tick
  BY DEF Over
<1> HIDE DEF drawn, mended
<1>6. CASE drawn <= instant
  <2>1. /\ mended \in drawn..instant /\ mended % Step = 0
        /\ \A tick \in drawn..instant : tick % Step = 0 => mended <= tick
    BY <1>1, <1>6, FirstTick DEF mended
  <2> QED BY <1>1, <1>4, <1>5, <2>1
<1>7. CASE drawn > instant
  <2>1. RepairedAt(Ended, Ticks, f) = Open
    BY <1>1, <1>2, <1>4, <1>7, FirstTick DEF mended
  <2> QED BY <1>1, <1>2, <1>5, <1>7, <2>1 DEF Open
<1> QED BY <1>1, <1>6, <1>7

(* The first row of a car's event, where all of them are at one instant, or there is none. *)
LEMMA FirstOfMine ==
  ASSUME StopsNow, NEW c, NEW event \in Names, NEW t \in Nat
  PROVE  /\ Mine(c, event) = {} => FirstRow(Ended, c, event, t) = 0
         /\ \A d \in Nat : AllAt(c, event, d) /\ t <= d =>
              FirstRow(Ended, c, event, t) # 0 /\ Ended[FirstRow(Ended, c, event, t)].t = d
<1> USE EndedRows
<1> DEFINE i == FirstRow(Ended, c, event, t)
<1>1. \/ i \in 1..Len(Ended) /\ Ended[i].car = c /\ Ended[i].event = event /\ Ended[i].t >= t
      \/ i = 0 /\ ~ \E j \in 1..Len(Ended) : Ended[j].car = c /\ Ended[j].event = event /\ Ended[j].t >= t
  BY FirstRowIsOne
<1>2. event # "run_stopped"
  BY DEF Names
<1> HIDE DEF i
<1>3. i # 0 => i \in 1..Len(Ended) /\ Ended[i] \in Mine(c, event)
  BY <1>1, <1>2 DEF Mine
<1>4. ASSUME NEW d \in Nat, AllAt(c, event, d), t <= d PROVE i # 0 /\ Ended[i].t = d
  <2>1. PICK x \in Mine(c, event) : x.t = d
    BY <1>4 DEF AllAt
  <2>2. x \in Seen /\ x.car = c /\ x.event = event /\ x.t >= t
    BY <2>1, <1>4 DEF Mine
  <2>3. i # 0
    BY <1>1, <2>2
  <2> QED BY <1>3, <1>4, <2>3 DEF AllAt
<1> QED BY <1>3, <1>4 DEF i

(* When a faulted car was due, by how far its visit had come. *)
LEMMA WhenDue ==
  ASSUME StopsNow, NEW f \in Faults
  PROVE  /\ Mine(f.car, "demate_started") = {} => DueAt(Ended, Ticks, f) = f.t
         /\ AllAt(f.car, "demate_started", f.t) =>
              /\ \A d \in Nat : AllAt(f.car, "demate_cleared", d) /\ f.t <= d => DueAt(Ended, Ticks, f) = d
              /\ Mine(f.car, "demate_cleared") = {} =>
                   \E x \in Mine(f.car, "demate_started") :
                     DueAt(Ended, Ticks, f) = FirstAtOrAfter(Ticks, f.t + x.arg)
<1> USE EndedRows
<1> DEFINE I == {i \in 1..Len(Ended) : Ended[i].car = f.car /\ Ended[i].event = "demate_started" /\ Ended[i].t = f.t}
           atFault == IF I # {} THEN Min(I) ELSE 0
           cleared == FirstRow(Ended, f.car, "demate_cleared", f.t)
<1>1. DueAt(Ended, Ticks, f) = IF atFault = 0 THEN f.t
                               ELSE IF cleared # 0 THEN Ended[cleared].t
                               ELSE FirstAtOrAfter(Ticks, f.t + Ended[atFault].arg)
  BY DEF DueAt, SelectInSeq
<1>2. I \subseteq Nat /\ 0 \notin I /\ f.t \in Nat
  BY FaultsAre
<1>3. \A i \in I : Ended[i] \in Mine(f.car, "demate_started")
  BY DEF Mine
<1>4. AllAt(f.car, "demate_started", f.t) => I # {}
  <2>1. ASSUME NEW x \in Mine(f.car, "demate_started"), x.t = f.t PROVE I # {}
    <3>1. x \in Seen /\ x.car = f.car /\ x.event = "demate_started"
      BY <2>1 DEF Mine
    <3>2. PICK i \in 1..Len(Ended) : Ended[i] = x
      BY <3>1
    <3>3. i \in I
      BY <2>1, <3>1, <3>2
    <3> QED BY <3>3
  <2> QED BY <2>1 DEF AllAt
<1> HIDE DEF I
<1>5. I # {} => atFault \in I
  <2> SUFFICES ASSUME I # {} PROVE Min(I) \in I
    OBVIOUS
  <2>1. PICK n \in I : \A m \in I : n <= m
    BY <1>2, LeastNumber
  <2> QED BY <2>1 DEF Min
<1>6. "demate_cleared" \in Names
  BY DEF Names
<1>7. /\ Mine(f.car, "demate_cleared") = {} => cleared = 0
      /\ \A d \in Nat : AllAt(f.car, "demate_cleared", d) /\ f.t <= d => cleared # 0 /\ Ended[cleared].t = d
  BY <1>2, <1>6, FirstOfMine
<1> HIDE DEF atFault, cleared
<1>8. Mine(f.car, "demate_started") = {} => atFault = 0
  BY <1>3 DEF atFault
<1>9. AllAt(f.car, "demate_started", f.t) => atFault # 0 /\ Ended[atFault] \in Mine(f.car, "demate_started")
  BY <1>2, <1>3, <1>4, <1>5
<1> QED BY <1>1, <1>7, <1>8, <1>9

(* When a faulted car left, or that it did not. *)
LEMMA WhenLeft ==
  ASSUME StopsNow, NEW f \in Faults
  PROVE  /\ Mine(f.car, "car_left") = {} => LeftAt(Ended, f) = instant
         /\ \A d \in Nat : AllAt(f.car, "car_left", d) /\ f.t <= d => LeftAt(Ended, f) = d
<1>1. "car_left" \in Names /\ f.t \in Nat
  BY EndedRows, FaultsAre DEF Names
<1> QED BY <1>1, FirstOfMine, EndsAtTheStop DEF LeftAt

(* A faulted car is blamed just when it was on the dead post at a tick after its demate had ended. *)
Blamed(f) == LeftAt(Ended, f) > DueAt(Ended, Ticks, f) /\ RepairedAt(Ended, Ticks, f) > DueAt(Ended, Ticks, f)

(* At the stop the monitor's three instants tell just that. *)
LEMMA BlamedIsOverstayed ==
  ASSUME StopsNow, NEW f \in Faults
  PROVE  /\ LeftAt(Ended, f) \in Nat /\ RepairedAt(Ended, Ticks, f) \in Nat /\ DueAt(Ended, Ticks, f) \in Nat
         /\ Blamed(f) <=> f.car \in overstayed
<1> USE EndedRows
<1> DEFINE left == LeftAt(Ended, f)
           due == DueAt(Ended, Ticks, f)
           mended == RepairedAt(Ended, Ticks, f)
<1>1. mended \in Nat /\ \A t \in 0..instant : t < mended <=> ~Over(f, t)
  BY RepairedWhenOver
<1>2. f.t \in Nat /\ f.arg \in Nat /\ f.t < instant
  BY FaultsAre
<1>3. Plugged(f) \/ Unplugging(f) \/ Staying(f) \/ WentAfter(f) \/ LetGo(f)
  BY DEF StopsNow, VisitsForm, StaysForm
<1> SUFFICES left \in Nat /\ due \in Nat /\ (left > due /\ mended > due <=> f.car \in overstayed)
  BY <1>1 DEF Blamed
<1>4. ~Plugged(f)
  BY <1>2 DEF Plugged
<1>5. CASE Unplugging(f)
  <2>1. /\ f.car \notin overstayed /\ AllAt(f.car, "demate_started", f.t)
        /\ \A x \in Mine(f.car, "demate_started") : x.t + x.arg = until
        /\ \A tick \in 0..(instant - 1) : tick % Step = 0 => tick < until
        /\ Mine(f.car, "demate_cleared") = {} /\ Mine(f.car, "car_left") = {}
    BY <1>5 DEF Unplugging
  <2>2. PICK x \in Mine(f.car, "demate_started") : due = FirstAtOrAfter(Ticks, f.t + x.arg)
    BY <2>1, WhenDue
  <2>3. f.t + x.arg = until /\ until \in Nat
    BY <2>1 DEF AllAt, StopsNow, VisitsForm, Numbers
  <2>4. left = instant
    BY <2>1, WhenLeft
  <2>5. due \in Nat /\ due >= instant
    <3>1. CASE until <= instant
      <4>1. due \in until..instant /\ due % Step = 0
        BY <3>1, <2>2, <2>3, FirstTick
      <4> QED BY <4>1, <2>1, <2>3
    <3>2. CASE until > instant
      <4>1. due = Open /\ instant < Open
        BY <3>2, <2>2, <2>3, FirstTick, PostAssumption DEF StopsNow, VisitsForm, Numbers, Open
      <4> QED BY <4>1 DEF Open
    <3> QED BY <3>1, <3>2, <2>3
  <2> QED BY <2>1, <2>4, <2>5
<1>6. CASE Staying(f)
  <2>1. AllAt(f.car, "demate_started", f.t) /\ Mine(f.car, "car_left") = {}
    BY <1>6 DEF Staying
  <2>2. PICK d \in f.t..instant : /\ AllAt(f.car, "demate_cleared", d)
                                  /\ f.car \in overstayed <=> d < instant /\ ~Over(f, d)
    BY <1>6 DEF Staying
  <2>3. due = d /\ left = instant
    BY <2>1, <2>2, <1>2, WhenDue, WhenLeft
  <2> QED BY <2>2, <2>3, <1>1, <1>2
<1>7. CASE WentAfter(f)
  <2>1. AllAt(f.car, "demate_started", f.t)
    BY <1>7 DEF WentAfter
  <2>2. PICK d \in f.t..instant : \E l \in d..instant :
          /\ AllAt(f.car, "demate_cleared", d) /\ AllAt(f.car, "car_left", l)
          /\ f.car \in overstayed <=> d < l /\ ~Over(f, d)
    BY <1>7 DEF WentAfter
  <2>3. PICK l \in d..instant :
          /\ AllAt(f.car, "demate_cleared", d) /\ AllAt(f.car, "car_left", l)
          /\ f.car \in overstayed <=> d < l /\ ~Over(f, d)
    BY <2>2
  <2>4. due = d
    BY <2>1, <2>3, <1>2, WhenDue
  <2>5. left = l
    BY <2>3, <1>2, WhenLeft
  <2> QED BY <2>3, <2>4, <2>5, <1>1, <1>2
<1>8. CASE LetGo(f)
  <2>1. Mine(f.car, "demate_started") = {} /\ AllAt(f.car, "car_left", f.t) /\ f.car \notin overstayed
    BY <1>8 DEF LetGo
  <2>2. due = f.t /\ left = f.t
    BY <2>1, <1>2, WhenDue, WhenLeft
  <2> QED BY <2>1, <2>2, <1>2
<1> QED BY <1>3, <1>4, <1>5, <1>6, <1>7, <1>8

-----------------------------------------------------------------------------
(* The stop's own row is of no car's event. *)
LEMMA RowsOfEnded ==
  ASSUME StopsNow, NEW events, "run_stopped" \notin events
  PROVE  RowsOf(Ended, events) = {x \in Seen : x.event \in events}
  BY EndedRows DEF RowsOf

(* The smaller of two numbers is above a third when both are. *)
LEMMA MinAbove ==
  ASSUME NEW a \in Nat, NEW b \in Nat, NEW c \in Nat
  PROVE  Min({a, b}) > c <=> a > c /\ b > c
<1>1. \E n \in {a, b} : \A m \in {a, b} : n <= m
  OBVIOUS
<1>2. Min({a, b}) \in {a, b} /\ \A m \in {a, b} : Min({a, b}) <= m
  BY <1>1 DEF Min
<1> QED BY <1>2

(* What the monitor reads from an ended trace. *)
LEMMA MonitorReadsRight ==
  ASSUME StopsNow
  PROVE  /\ {x.car : x \in R1Violations(Ended, Ticks)} = deadMates
         /\ {v.car : v \in R2Violations(Ended, Ticks)} = overstayed
<1>1. RowsOf(Ended, {"charger_faulted"}) = Faults
  BY RowsOfEnded DEF Faults
<1>2. RowsOf(Ended, {"mate_started", "session_started"}) = {x \in Seen : x.event = "mate_started"}
  <2>1. RowsOf(Ended, {"mate_started", "session_started"}) = {x \in Seen : x.event \in {"mate_started", "session_started"}}
    BY RowsOfEnded
  <2>2. \A x \in Seen : x.event # "session_started"
    BY EndedRows DEF Names
  <2> QED BY <2>1, <2>2
<1>3. R1Violations(Ended, Ticks) = {y \in Seen : OnDead(y)}
  <2>1. \A y \in Seen : y.t \in 0..instant
    BY EndedRows
  <2>2. \A y \in Seen : \A f \in Faults : y.t < RepairedAt(Ended, Ticks, f) <=> ~Over(f, y.t)
    BY <2>1, RepairedWhenOver
  <2>3. R1Violations(Ended, Ticks) = {y \in {x \in Seen : x.event = "mate_started"} :
           \E f \in Faults : f.t <= y.t /\ y.t < RepairedAt(Ended, Ticks, f)}
    BY <1>1, <1>2 DEF R1Violations
  <2> QED BY <2>2, <2>3 DEF OnDead
<1>4. deadMates = {x.car : x \in {y \in Seen : OnDead(y)}}
  BY DEF StopsNow, VisitsForm, MatesForm, OnDead
<1>5. \A f \in Faults :
        Min({LeftAt(Ended, f), RepairedAt(Ended, Ticks, f)}) > DueAt(Ended, Ticks, f) <=> f.car \in overstayed
  BY BlamedIsOverstayed, MinAbove DEF Blamed
<1>6. \A c \in overstayed : \E f \in Faults : f.car = c
  BY DEF StopsNow, VisitsForm, StaysForm, Mine, Faults
<1>7. {v.car : v \in R2Violations(Ended, Ticks)} =
        {f.car : f \in {g \in Faults :
           Min({LeftAt(Ended, g), RepairedAt(Ended, Ticks, g)}) > DueAt(Ended, Ticks, g)}}
  <2> DEFINE stay(f) == [car |-> f.car, from |-> DueAt(Ended, Ticks, f),
                         to |-> Min({LeftAt(Ended, f), RepairedAt(Ended, Ticks, f)}),
                         midClean |-> \E c \in CleansOf(Ended, f.car) : InProgress(c, f.t)]
  <2>1. R2Violations(Ended, Ticks) = {v \in {stay(f) : f \in Faults} : v.to > v.from}
    BY <1>1 DEF R2Violations
  <2>2. \A f : /\ stay(f).car = f.car /\ stay(f).from = DueAt(Ended, Ticks, f)
               /\ stay(f).to = Min({LeftAt(Ended, f), RepairedAt(Ended, Ticks, f)})
    OBVIOUS
  <2> HIDE DEF stay
  <2>3. ASSUME NEW v \in R2Violations(Ended, Ticks)
        PROVE  \E f \in Faults : /\ Min({LeftAt(Ended, f), RepairedAt(Ended, Ticks, f)}) > DueAt(Ended, Ticks, f)
                                 /\ v.car = f.car
    <3>1. PICK f \in Faults : v = stay(f) /\ v.to > v.from
      BY <2>1, <2>3
    <3> QED BY <3>1, <2>2
  <2>4. ASSUME NEW f \in Faults, Min({LeftAt(Ended, f), RepairedAt(Ended, Ticks, f)}) > DueAt(Ended, Ticks, f)
        PROVE  \E v \in R2Violations(Ended, Ticks) : v.car = f.car
    <3>1. stay(f) \in R2Violations(Ended, Ticks)
      BY <2>1, <2>2, <2>4
    <3> QED BY <3>1, <2>2
  <2> DEFINE V == R2Violations(Ended, Ticks)
             late == {g \in Faults : Min({LeftAt(Ended, g), RepairedAt(Ended, Ticks, g)}) > DueAt(Ended, Ticks, g)}
  <2>5. \A v \in V : \E f \in late : v.car = f.car
    BY <2>3
  <2>6. \A f \in late : \E v \in V : v.car = f.car
    BY <2>4
  <2> HIDE DEF V, late
  <2>7. {v.car : v \in V} = {f.car : f \in late}
    BY <2>5, <2>6
  <2> QED BY <2>7 DEF V, late
<1> QED BY <1>3, <1>4, <1>5, <1>6, <1>7

-----------------------------------------------------------------------------
(* What holds of every run: while it goes on what is known of the visits, and at its end the monitor's verdict. *)
RunForm == stopped \in BOOLEAN /\ (~stopped => VisitsForm) /\ MonitorIsRight

(* It holds before the first car. *)
LEMMA RunFormAtFirst == PostInit => RunForm
<1> SUFFICES ASSUME PostInit PROVE VisitsForm
  BY DEF RunForm, MonitorIsRight, PostInit
<1>1. /\ cell.Charger = "Available" /\ cell.ChargeArm = "Stowed" /\ cell.Tether = "None" /\ cell.Car = "Inbound"
      /\ car = 1 /\ instant = 0 /\ rows = <<>> /\ until = 0 /\ repairAt = 0 /\ overstayed = {} /\ deadMates = {}
  BY DEF PostInit, Empty
<1>2. Seen = {} /\ Faults = {} /\ ~OutNow
  BY <1>1 DEF Seen, Faults, OutNow, OutOfService
<1>3. Numbers /\ CellForm(cell)
  BY <1>1, PostAssumption DEF Numbers, CellForm
<1>4. RowsForm /\ FaultsForm /\ MatesForm /\ VisitForm /\ StaysForm
  BY <1>1, <1>2 DEF RowsForm, FaultsForm, MatesForm, VisitForm, StaysForm, Mine
<1> QED BY <1>3, <1>4 DEF VisitsForm

(* And every step keeps it. *)
LEMMA RunFormIsKept == RunForm /\ [PostNext]_postVars => RunForm'
<1> SUFFICES ASSUME RunForm, [PostNext]_postVars PROVE RunForm'
  OBVIOUS
<1>1. ASSUME NEW ev \in Events, CellStep(ev) PROVE RunForm'
  <2>1. ~stopped /\ stopped' = stopped
    BY <1>1 DEF CellStep
  <2> QED BY <1>1, <2>1, StepKeepsVisits DEF RunForm, MonitorIsRight
<1>2. CASE Pass
  <2>1. ~stopped /\ stopped' = stopped
    BY <1>2 DEF Pass
  <2> QED BY <1>2, <2>1, PassKeepsVisits DEF RunForm, MonitorIsRight
<1>3. CASE NextVisit
  <2>1. ~stopped /\ stopped' = stopped
    BY <1>3 DEF NextVisit
  <2> QED BY <1>3, <2>1, NextVisitKeepsVisits DEF RunForm, MonitorIsRight
<1>4. CASE Stop
  <2>1. StopsNow /\ stopped' = TRUE /\ rows' = Ended /\ instant' = instant /\ deadMates' = deadMates /\ overstayed' = overstayed
    BY <1>4 DEF Stop, StopsNow, RunForm, Ended, StopRow
  <2>2. Ticks' = Ticks
    BY <2>1 DEF Ticks
  <2>3. /\ {x.car : x \in R1Violations(rows', Ticks')} = deadMates'
        /\ {v.car : v \in R2Violations(rows', Ticks')} = overstayed'
    BY <2>1, <2>2, MonitorReadsRight
  <2> QED BY <2>1, <2>3 DEF RunForm, MonitorIsRight
<1>5. CASE UNCHANGED postVars
  <2>1. UNCHANGED <<cell, car, instant, rows, stopped, until, repairAt, overstayed, deadMates>>
    BY <1>5 DEF postVars
  <2>2. VisitsForm' <=> VisitsForm
    BY <2>1 DEF VisitsForm, Numbers, CellForm, RowsForm, FaultsForm, MatesForm, VisitForm, StaysForm, Plugged,
       Unplugging, Staying, WentAfter, LetGo, AllAt, Linked, Gone, Mine, Faults, Seen, Over, OutNow, OutOfService, AtTick
  <2>3. MonitorIsRight' <=> MonitorIsRight
    BY <2>1 DEF MonitorIsRight, Ticks
  <2> QED BY <2>1, <2>2, <2>3 DEF RunForm
<1> QED BY <1>1, <1>2, <1>3, <1>4, <1>5 DEF PostNext

(* MonitorIsRight: when a run is stopped, the monitor's reading of the trace blames exactly the cars that were on *)
(* the out-of-service post at a tick after their demate, and exactly the mates begun on a dead charger.           *)
THEOREM TheMonitorBlamesTheRightCars == PostSpec => []MonitorIsRight
<1>1. RunForm => MonitorIsRight
  BY DEF RunForm
<1> QED BY <1>1, RunFormAtFirst, RunFormIsKept, PTL DEF PostSpec
=============================================================================
