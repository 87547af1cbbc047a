----------------------------- MODULE ChargerFeed -----------------------------
(***************************************************************************)
(* What the live charger bridge promises, with no state file, no calls and  *)
(* no batches: the twin's frames are heard in order from a head on, none is *)
(* accounted for before it was heard, and the accounts that are kept tile   *)
(* the log. CsmsRelay implements it.                                        *)
(*                                                                          *)
(* A frame not accounted for may be heard again, and an account may be kept *)
(* twice in a row: the feed is at-least-once on both sides, in order.       *)
(***************************************************************************)
EXTENDS Integers, Sequences

CONSTANTS Rows,        \* what can be written
          FrameRows    \* the rows that are frames the twin's chargers must say

VARIABLES log,         \* the rows written, in order
          heard,       \* the frames the back end has heard at least once
          accounted,   \* frames up to here are told of in an account; -1 before the first round
          owed,        \* the account not known to be kept: <<>> or <<[from, to]>>
          kept,        \* the accounts kept, in order
          origin       \* the head the feed started at

vars == <<log, heard, accounted, owed, kept, origin>>

(* The frames in lo < s <= hi that must be said. *)
Frames(lo, hi) == {s \in 1..Len(log) : lo < s /\ s <= hi /\ log[s] \in FrameRows}

Init ==
  /\ log = <<>> /\ heard = {} /\ accounted = -1 /\ owed = <<>> /\ kept = <<>> /\ origin = -1

Write == /\ \E r \in Rows : log' = Append(log, r)
         /\ UNCHANGED <<heard, accounted, owed, kept, origin>>

Start == /\ accounted = -1
         /\ accounted' = Len(log) /\ origin' = Len(log)
         /\ UNCHANGED <<log, heard, owed, kept>>

(* A frame is heard only after every frame before it, and only while it is not accounted for. *)
Hear == /\ accounted # -1
        /\ \E s \in Frames(accounted, Len(log)) :
             Frames(accounted, s - 1) \subseteq heard /\ heard' = heard \cup {s}
        /\ UNCHANGED <<log, accounted, owed, kept, origin>>

(* All frames up to k are heard: an account of them is owed. *)
Account == /\ accounted # -1 /\ owed = <<>>
           /\ \E k \in (accounted + 1)..Len(log) :
                /\ Frames(accounted, k) \subseteq heard
                /\ accounted' = k /\ owed' = <<[from |-> accounted + 1, to |-> k]>>
           /\ UNCHANGED <<log, heard, kept, origin>>

Keep == /\ owed # <<>>
        /\ kept' = Append(kept, owed[1])
        /\ UNCHANGED <<log, heard, accounted, owed, origin>>

(* An account stops being owed only once it is the last one kept. *)
Settle == /\ owed # <<>> /\ kept # <<>> /\ kept[Len(kept)] = owed[1]
          /\ owed' = <<>>
          /\ UNCHANGED <<log, heard, accounted, kept, origin>>

Next == Write \/ Start \/ Hear \/ Account \/ Keep \/ Settle

Spec == Init /\ [][Next]_vars

=============================================================================
