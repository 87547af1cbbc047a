--------------------------- MODULE ChargerBackEnd ---------------------------
(***************************************************************************)
(* The charger back end's book of one station (csms/csms_server.py): the     *)
(* connection it answers on, and what it knows of the station's              *)
(* transactions. The relay says the station's frames in the order of the     *)
(* log; when a connection breaks it opens another and says the batch again   *)
(* from its first frame, before or after the back end has noticed that the   *)
(* old one is gone (CsmsRelay models the relay itself).                      *)
(* A frame is handled in one step: on_transaction_event awaits nothing.      *)
(***************************************************************************)
EXTENDS Naturals, Sequences, SequencesExt

CONSTANTS Txs,        \* transaction ids
          Log,        \* the station's transaction events: [tx, seq, type]
          Keep,       \* keep_transactions
          MaxConns    \* bound: how often the station connects

EventTypes == {"Started", "Updated", "Ended"}

ASSUME LogAssumption == Log \in Seq([tx : Txs, seq : Nat, type : EventTypes])
ASSUME KeepAssumption == Keep \in Nat \ {0}
ASSUME ConnAssumption == MaxConns \in Nat

Conns == 1..MaxConns
NoConn == 0

VARIABLES
  conn,      \* of each connection: unused, open, broken (not noticed), gone
  speaker,   \* the connection the station speaks on
  handlers,  \* the connection the back end answers and commands the station on
  batch,     \* how many frames are behind the saved cursor
  pos,       \* how many frames of the log were said since the batch began again
  heard,     \* the furthest frame the back end has handled
  held,      \* the transactions it keeps, the oldest first
  book,      \* what it keeps of each: the last event's type, its count of events
  lastSeq    \* last_seq_no

vars == <<conn, speaker, handlers, batch, pos, heard, held, book, lastSeq>>

Kept == {held[i] : i \in DOMAIN held}
NoBook == [tx \in {} |-> 0]

TypeOK ==
  /\ conn \in [Conns -> {"unused", "open", "broken", "gone"}]
  /\ speaker \in Conns \cup {NoConn} /\ handlers \in Conns \cup {NoConn}
  /\ batch \in 0..Len(Log) /\ pos \in batch..Len(Log) /\ heard \in 0..Len(Log)
  /\ held \in Seq(Txs) /\ DOMAIN book = Kept /\ DOMAIN lastSeq \subseteq Txs
  /\ \A tx \in Kept : book[tx] \in EventTypes
  /\ \A tx \in DOMAIN lastSeq : lastSeq[tx] \in Nat

-----------------------------------------------------------------------------
(* _on_connect: the newest connection is the one the station is addressed on. *)
Connects(c) ==
  /\ speaker = NoConn /\ conn[c] = "unused" /\ \A b \in Conns : b < c => conn[b] # "unused"
  /\ conn' = [conn EXCEPT ![c] = "open"]
  /\ speaker' = c /\ handlers' = c
  /\ UNCHANGED <<batch, pos, heard, held, book, lastSeq>>

(* The connection is gone for the station; the relay goes back to the first frame of its batch. *)
Breaking == conn' = [conn EXCEPT ![speaker] = "broken"] /\ speaker' = NoConn /\ pos' = batch

Breaks == speaker # NoConn /\ Breaking /\ UNCHANGED <<handlers, batch, heard, held, book, lastSeq>>

(* mutant of Forgets: a handler that ends forgets its station, whoever answers for it now *)
ForgetsAnyway(c) == NoConn

(* _on_connect's finally: only the handler that is still the station's forgets it. *)
Forgets(c) == IF handlers = c THEN NoConn ELSE handlers

Notices(c) ==
  /\ conn[c] = "broken"
  /\ conn' = [conn EXCEPT ![c] = "gone"]
  /\ handlers' = Forgets(c)
  /\ UNCHANGED <<speaker, batch, pos, heard, held, book, lastSeq>>

-----------------------------------------------------------------------------
Crowded(tx) == tx \notin Kept /\ Len(held) >= Keep

(* The oldest goes when a new one comes to a full book. *)
HeldAfter(tx) == LET room == IF Crowded(tx) THEN Tail(held) ELSE held
                 IN IF tx \in Kept THEN room ELSE Append(room, tx)

(* last_seq_no is set first, and cut down to the transactions kept before the new one is put among them. *)
SeqAfter(tx, seq) ==
  LET noted == [t \in DOMAIN lastSeq \cup {tx} |-> IF t = tx THEN seq ELSE lastSeq[t]]
  IN IF Crowded(tx) THEN [t \in DOMAIN noted \cap ToSet(Tail(held)) |-> noted[t]] ELSE noted

(* mutant of BookAfter: what the back end first heard of a transaction stays *)
BookFirst(f) == [t \in ToSet(HeldAfter(f.tx)) |-> IF t \in Kept THEN book[t] ELSE f.type]

(* Whatever the seqNo, the transaction's latest state is this event's. *)
BookAfter(f) == [t \in ToSet(HeldAfter(f.tx)) |-> IF t = f.tx THEN f.type ELSE book[t]]

(* on_transaction_event. *)
Told(f) == held' = HeldAfter(f.tx) /\ book' = BookAfter(f) /\ lastSeq' = SeqAfter(f.tx, f.seq)

(* The next frame of the log is handled; the station has its answer, or the connection breaks under it. *)
Hears(answered) ==
  /\ speaker # NoConn /\ pos < Len(Log)
  /\ Told(Log[pos + 1]) /\ heard' = Max({heard, pos + 1})
  /\ IF answered THEN pos' = pos + 1 /\ UNCHANGED <<conn, speaker>>
                 ELSE Breaking
  /\ UNCHANGED <<handlers, batch>>

(* The relay saves its cursor. *)
Saves == /\ batch' = pos /\ batch # pos
         /\ UNCHANGED <<conn, speaker, handlers, pos, heard, held, book, lastSeq>>

-----------------------------------------------------------------------------
Init ==
  /\ conn = [c \in Conns |-> "unused"] /\ speaker = NoConn /\ handlers = NoConn
  /\ batch = 0 /\ pos = 0 /\ heard = 0 /\ held = <<>> /\ book = NoBook /\ lastSeq = NoBook

Next == \/ \E c \in Conns : Connects(c) \/ Notices(c)
        \/ Breaks \/ Saves \/ \E answered \in BOOLEAN : Hears(answered)

Spec == Init /\ [][Next]_vars

-----------------------------------------------------------------------------
(* A station that is connected is commanded on the connection it speaks on, whenever the end of an  *)
(* older one is noticed; and never for long on one that is gone.                                     *)
AddressedWhereItSpeaks == /\ speaker # NoConn => handlers = speaker
                          /\ handlers # NoConn => conn[handlers] # "gone"

(* A long-running back end forgets: never more transactions than it was told to keep, and no        *)
(* seqNo of one it has let go.                                                                       *)
BookIsBounded == Len(held) <= Keep /\ DOMAIN lastSeq \subseteq Kept

(* The last frame of a transaction among the first n of the log, and the last transactions begun.   *)
LastEvent(tx, n) == Log[CHOOSE i \in 1..n : Log[i].tx = tx /\ \A j \in (i + 1)..n : Log[j].tx # tx].type

(* Once the relay has caught up with what it had said before, the book tells of each transaction    *)
(* what its last frame said, however often the batch was repeated and whatever was let go between.  *)
BookIsLatest == pos = heard => \A tx \in Kept : book[tx] = LastEvent(tx, pos)

(* The book of csms_server.py: well formed, bounded and, caught up, the latest there is.             *)
BookIsKept == TypeOK /\ BookIsBounded /\ BookIsLatest
=============================================================================
