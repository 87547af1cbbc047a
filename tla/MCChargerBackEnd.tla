-------------------------- MODULE MCChargerBackEnd --------------------------
(* The back end's book of one station, and the charge plans it pushes to   *)
(* another: two scenes that share no state, one step of either at a time.  *)
EXTENDS ChargerBackEnd, ChargingStation
CONSTANTS a, b, c
Three == {a, b, c}
Event(id, seq, type) == [tx |-> id, seq |-> seq, type |-> type]
(* Three transactions of one station, the first outliving the second. *)
Day == << Event(a, 0, "Started"), Event(b, 0, "Started"), Event(b, 1, "Ended"), Event(a, 1, "Updated"),
          Event(c, 0, "Started"), Event(a, 2, "Ended"), Event(c, 1, "Ended") >>

Two == {a, b}
Period(from, limit) == [from |-> from, limit |-> limit]
SomePlans == {<<Period(0, 1)>>, <<Period(0, 3), Period(1, 0)>>, <<Period(1, 0)>>}

VARIABLE scene
Play ==
  \/ scene = "book" /\ Next /\ UNCHANGED stationVars
  \/ scene = "plans" /\ StationNext /\ UNCHANGED vars
PlayInit == Init /\ StationInit /\ scene \in {"book", "plans"}
PlaySpec == PlayInit /\ [][Play /\ UNCHANGED scene]_<<vars, stationVars, scene>>
=============================================================================
