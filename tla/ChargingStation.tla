-------------------------- MODULE ChargingStation --------------------------
(***************************************************************************)
(* One EVSE of a simulated station (csms/station_sim.py) and the charge     *)
(* plans the back end pushes to it (csms_server.py, set_charging_profile).  *)
(* A method awaits the answer of every call it makes; a push may arrive     *)
(* while it waits, and a call may fail with a timeout, which ends the       *)
(* method where it stands.  Time is the caller's: it does not pass while a  *)
(* method runs.  Power is in units, an amount of energy is units of power   *)
(* for a unit of time.                                                      *)
(***************************************************************************)
EXTENDS Integers, Sequences, FiniteSets

CONSTANTS Cars,      \* transaction ids, in the order the cars come
          Plans,     \* charge plans: sequences of [from, limit]
          NoTx, NoProfile,
          Rating, CarMax,
          MaxNow, MaxWire   \* bounds: the clock, the pushes under way

Registers == [id : Cars, meteredTo : Nat, energy : Int]
Pushes == [tx : Cars \cup {NoTx}, plan : Plans, start : Nat]
Profiles == [tx : Cars \cup {NoTx}, plan : Plans, start : Nat, given : Cars]

ASSUME StationAssumption ==
  /\ NoTx \notin Cars \cup Registers /\ NoProfile \notin Profiles
  /\ {Rating, CarMax, MaxNow, MaxWire} \subseteq Nat
  /\ Plans \subseteq Seq([from : Int, limit : Int])

VARIABLES
  now,      \* the caller's clock
  at,       \* what the EVSE's method awaits; idle or charging when none runs
  coming,   \* the transaction being started
  tx,       \* self.tx: [id, meteredTo, energy]
  leaving,  \* the transaction whose end is being told
  profile,  \* self.profiles: the profile in force, and the transaction it was accepted under
  wire,     \* the back end's calls that have not arrived
  told,     \* the transactions the back end has been told of
  owed,     \* history: what the plan allowed the transaction since it began
  coarse,   \* history: the limit changed between two readings of the transaction
  failed    \* history: a call of a start or of an end failed

stationVars == <<now, at, coming, tx, leaving, profile, wire, told, owed, coarse, failed>>

Lower(a, b) == IF a < b THEN a ELSE b

---------------------------------------------------------------------------
(* charge_plan_to_profile raises on any other sequence of periods.         *)
IsSchedule(plan) ==
  /\ plan # <<>> /\ plan[1].from = 0
  /\ \A i \in 1 .. Len(plan) - 1 : plan[i].from < plan[i + 1].from

(* The limit of the last period that has begun; the rating before the      *)
(* schedule starts and without one.                                        *)
LimitOpenEnded(p, moment) ==
  IF p = NoProfile \/ moment < p.start THEN Rating
  ELSE LET begun == {i \in DOMAIN p.plan : p.plan[i].from < moment - p.start}
       IN  IF begun = {} THEN Rating ELSE p.plan[Cardinality(begun)].limit
LimitW(p, moment) ==
  IF p = NoProfile \/ moment < p.start THEN Rating
  ELSE LET begun == {i \in DOMAIN p.plan : p.plan[i].from <= moment - p.start}
       IN  p.plan[Cardinality(begun)].limit
PowerAt(p, moment) == Lower(Lower(Rating, CarMax), LimitW(p, moment))

(* What is due by the plan's own meaning, of which owed and coarse are the history: a period holds *)
(* from its beginning to the next one's.                                                            *)
Covers(p, i, since) == /\ p.plan[i].from <= since
                       /\ \A j \in DOMAIN p.plan : j > i => since < p.plan[j].from
Allowed(p, moment) ==
  IF p = NoProfile \/ moment < p.start THEN Lower(Rating, CarMax)
  ELSE LET period == CHOOSE i \in DOMAIN p.plan : Covers(p, i, moment - p.start)
       IN  Lower(Lower(Rating, CarMax), p.plan[period].limit)

---------------------------------------------------------------------------
(* start_transaction: the status, the token, then the transaction is on    *)
(* the EVSE and its first event is told.                                   *)
StartTransaction(t) ==
  /\ at = "idle" /\ t \notin told
  /\ at' = "status" /\ coming' = t
  /\ UNCHANGED <<now, tx, leaving, profile, wire, told, owed, coarse, failed>>
StatusAnswered ==
  /\ at = "status" /\ at' = "authorize"
  /\ UNCHANGED <<now, coming, tx, leaving, profile, wire, told, owed, coarse, failed>>
Authorized ==
  /\ at = "authorize" /\ at' = "started"
  /\ tx' = [id |-> coming, meteredTo |-> now, energy |-> 0] /\ coming' = NoTx
  /\ owed' = 0 /\ coarse' = FALSE
  /\ UNCHANGED <<now, leaving, profile, wire, told, failed>>
StartedAnswered ==
  /\ at = "started" /\ at' = "charging"
  /\ told' = told \cup {tx.id}
  /\ UNCHANGED <<now, coming, tx, leaving, profile, wire, owed, coarse, failed>>

(* The register at this moment, at the power of the last one.              *)
Read(t) == [t EXCEPT !.energy = @ + PowerAt(profile, t.meteredTo) * (now - t.meteredTo), !.meteredTo = now]
Meter ==
  /\ at = "charging" /\ tx.meteredTo < now
  /\ tx' = Read(tx) /\ at' = "updated"
  /\ UNCHANGED <<now, coming, leaving, profile, wire, told, owed, coarse, failed>>
UpdatedAnswered ==
  /\ at = "updated" /\ at' = "charging"
  /\ UNCHANGED <<now, coming, tx, leaving, profile, wire, told, owed, coarse, failed>>

(* stop_transaction: the transaction leaves the EVSE before its end is     *)
(* told, and its profile after.                                            *)
StopTransaction ==
  /\ at = "charging" /\ at' = "ended"
  /\ leaving' = Read(tx) /\ tx' = NoTx
  /\ UNCHANGED <<now, coming, profile, wire, told, owed, coarse, failed>>
EndedAnswered ==
  /\ at = "ended" /\ at' = "free"
  /\ profile' = NoProfile /\ leaving' = NoTx
  /\ UNCHANGED <<now, coming, tx, wire, told, owed, coarse, failed>>
FreeAnswered ==
  /\ at = "free" /\ at' = "idle"
  /\ UNCHANGED <<now, coming, tx, leaving, profile, wire, told, owed, coarse, failed>>

(* A call times out, whether or not it was heard: the method raises.       *)
CallFails(heard) ==
  /\ at \notin {"idle", "charging"}
  /\ at' = IF at \in {"started", "updated"} THEN "charging" ELSE "idle"
  /\ coming' = NoTx /\ leaving' = NoTx
  /\ told' = IF heard /\ at = "started" THEN told \cup {tx.id} ELSE told
  /\ failed' = (failed \/ at \in {"started", "ended"})
  /\ UNCHANGED <<now, tx, profile, wire, owed, coarse>>

---------------------------------------------------------------------------
(* set_charging_profile, for a transaction the back end has heard of or    *)
(* for whichever is on the EVSE; and the station's answer.                 *)
Push(t, plan) ==
  /\ Len(wire) < MaxWire /\ IsSchedule(plan) /\ t \in told \cup {NoTx}
  /\ wire' = Append(wire, [tx |-> t, plan |-> plan, start |-> now])
  /\ UNCHANGED <<now, at, coming, tx, leaving, profile, told, owed, coarse, failed>>
InForce(push, id) == [tx |-> push.tx, plan |-> push.plan, start |-> push.start, given |-> id]
AcceptsWhateverRuns(push) == tx # NoTx
Accepts(push) == tx # NoTx /\ push.tx \in {NoTx, tx.id}
OnSetChargingProfile ==
  /\ wire # <<>> /\ wire' = Tail(wire)
  /\ IF Accepts(Head(wire))
     THEN /\ profile' = InForce(Head(wire), tx.id)
          /\ coarse' = (coarse \/ tx.meteredTo < now)
     ELSE UNCHANGED <<profile, coarse>>
  /\ UNCHANGED <<now, at, coming, tx, leaving, told, owed, failed>>

(* A moment passes between two methods.                                    *)
Passes ==
  /\ at \in {"idle", "charging"} /\ now < MaxNow /\ now' = now + 1
  /\ IF at = "charging"
     THEN /\ owed' = owed + Allowed(profile, now)
          /\ coarse' = (coarse \/ Allowed(profile, now) # Allowed(profile, tx.meteredTo))
     ELSE UNCHANGED <<owed, coarse>>
  /\ UNCHANGED <<at, coming, tx, leaving, profile, wire, told, failed>>

---------------------------------------------------------------------------
StationInit ==
  /\ now = 0 /\ at = "idle" /\ coming = NoTx /\ tx = NoTx /\ leaving = NoTx /\ profile = NoProfile
  /\ wire = <<>> /\ told = {} /\ owed = 0 /\ coarse = FALSE /\ failed = FALSE
StationNext ==
  \/ \E t \in Cars : StartTransaction(t)
  \/ StatusAnswered \/ Authorized \/ StartedAnswered
  \/ Meter \/ UpdatedAnswered
  \/ StopTransaction \/ EndedAnswered \/ FreeAnswered
  \/ \E heard \in BOOLEAN : CallFails(heard)
  \/ \E t \in Cars \cup {NoTx}, plan \in Plans : Push(t, plan)
  \/ OnSetChargingProfile \/ Passes

StationSpec == StationInit /\ [][StationNext]_stationVars

(* station_sim.py: while no start and no end failed, the profile in force  *)
(* is one for the transaction that is on the EVSE or whose end is being    *)
(* told, however late it came; and a register read whenever the limit      *)
(* changes tells exactly what rating, car and plan allowed.                *)
StationHonoursThePlan ==
  LET here == IF tx = NoTx THEN leaving ELSE tx
  IN  /\ ~failed /\ profile # NoProfile =>
           here # NoTx /\ profile.given = here.id /\ profile.tx \in {NoTx, here.id}
      /\ ~coarse /\ here # NoTx => (here.meteredTo = now => here.energy = owed)
=============================================================================
