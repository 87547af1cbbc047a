----------------------------- MODULE StallBook -----------------------------
(***************************************************************************)
(* A depot's charge stalls over ticks: who sits in one (stalls and vehicles *)
(* each keep a pointer), who holds it and for how long, and the             *)
(* begin_charge commands under way.                                         *)
(*   - a tick's world step refreshes and makes the holds of cars on their   *)
(*     way in, then carries out the commands (or operators did, before it,  *)
(*     when they answer through the door; or a tick carries out its own);   *)
(*   - its decide step reclaims holds nobody can use, walks the charge      *)
(*     cursor (reserve, then command) and reroutes what was refused.        *)
(* Loops over cars take them in any order; the code's order is a policy.    *)
(* The calendar of bookings and the chargers are choices of the world.      *)
(* Time is in units of ten simulated minutes.                               *)
(***************************************************************************)
EXTENDS Integers

CONSTANTS Yard,      \* the cars
          Stalls,    \* the charge stalls
          Nobody,    \* neither a car nor a stall
          Tick,      \* a tick
          Dials      \* who carries commands out: "nextTick", "thisTick", "door"

ASSUME TickAssumption == Tick \in Nat \ {0}
ASSUME NobodyAssumption == Nobody \notin Yard \cup Stalls

VARIABLES
  dial,      \* this run's dial
  step,      \* what comes next in the tick
  todo,      \* the cars the step has yet to take
  seat,      \* stalls.current_vehicle_id
  at,        \* vehicles.current_stall_id, of the charge stalls
  cond,      \* inbound (or deployed), gate, staged (elsewhere), charging, ready, towed
  holder,    \* stalls.reserved_by
  left,      \* what its reservation has left; 0 is over, -1 has been over
  cmds,      \* a car's issued commands: stall and ticks of age
  refused,   \* the stall of a car's refused command that awaits its reaction
  word       \* history: the stall the depot last told the car, while in force and not carried out

bookVars == <<dial, step, todo, seat, at, cond, holder, left, cmds, refused, word>>

DecideHold == 1              \* 600 seconds
ContractHold == 5            \* ten minutes of approach and forty more
RerouteHold == 6             \* 3600 seconds
InForce == 2                 \* a command's life in ticks, and what an accepted one adds to its hold
Greater(a, b) == IF a > b THEN a ELSE b

-----------------------------------------------------------------------------
(* ottoq_reserve_stall: the stall is empty, and free, one's own, or held no longer. *)
MayReserve(c, s) == seat[s] = Nobody /\ (holder[s] \in {Nobody, c} \/ left[s] <= 0)
Held(c, s, time) == /\ holder' = [holder EXCEPT ![s] = c]
                    /\ left' = [left EXCEPT ![s] = time]

(* mutant of Covered: the hold keeps its own time (before 0064) *)
NotExtended(time) == time

(* ottoq_emit_vehicle_command: an accepted command's hold lasts as long as the command. *)
Covered(time) == Greater(time, InForce * Tick)

(* mutant of CanSit: the confirm walk reads the reservation and not the seat *)
ReadsTheHoldOnly(c, s) == holder[s] \in {Nobody, c} \/ left[s] <= 0

(* ottoq_sim_confirm_commands' own check, which does not read the calendar. *)
CanSit(c, s) == /\ seat[s] \in {Nobody, c}
                /\ holder[s] \in {Nobody, c} \/ left[s] <= 0

(* The command that stands for the car's intent: the newest; its oldest repeat survives. *)
Newest(S) == CHOOSE m \in S : \A n \in S : m.age <= n.age

SitsElsewhere(c, s) == cond[c] = "staged" \/ at[c] \notin {Nobody, s}

-----------------------------------------------------------------------------
(* The world moves cars between the steps that this module keeps. *)
Moving == step \in {"idle", "world"}
Stay == UNCHANGED <<dial, step, todo, left>>

Arrive(c) == /\ Moving /\ cond[c] = "inbound" /\ cond' = [cond EXCEPT ![c] = "gate"]
             /\ Stay /\ UNCHANGED <<seat, at, holder, cmds, refused, word>>
Park(c) == /\ Moving /\ cond[c] = "gate" /\ cond' = [cond EXCEPT ![c] = "staged"]
           /\ Stay /\ UNCHANGED <<seat, at, holder, cmds, refused, word>>
Leave(c) == /\ Moving /\ cond[c] = "ready" /\ cond' = [cond EXCEPT ![c] = "inbound"]
            /\ Stay /\ UNCHANGED <<seat, at, holder, cmds, refused, word>>

(* The car leaves its stall: the vehicles trigger clears the stall row the car's pointer names. *)
Vacates(c) == /\ at' = [at EXCEPT ![c] = Nobody]
              /\ seat' = IF at[c] = Nobody THEN seat ELSE [seat EXCEPT ![at[c]] = Nobody]

(* A session ends, and its reservation is released. *)
ChargeDone(c) ==
  /\ Moving /\ cond[c] = "charging"
  /\ cond' = [cond EXCEPT ![c] = "ready"] /\ Vacates(c)
  /\ holder' = [s \in Stalls |-> IF s = at[c] /\ holder[s] = c THEN Nobody ELSE holder[s]]
  /\ Stay /\ UNCHANGED <<cmds, refused, word>>

(* The vehicle fault that takes a car off its stall to wait for a tow. *)
Tow(c) ==
  /\ Moving /\ cond[c] \notin {"inbound", "towed"}
  /\ cond' = [cond EXCEPT ![c] = "towed"] /\ Vacates(c)
  /\ Stay /\ UNCHANGED <<holder, cmds, refused, word>>

-----------------------------------------------------------------------------
(* The clock moves by a tick; a command past its life is answered as expired. *)
Advance ==
  /\ step = "idle" /\ step' = "contracts" /\ todo' = Yard
  /\ left' = [s \in Stalls |-> Greater(left[s] - Tick, -1)]
  /\ cmds' = [c \in Yard |-> {[m EXCEPT !.age = m.age + 1] : m \in {m \in cmds[c] : m.age + 1 < InForce}}]
  /\ word' = [c \in Yard |-> IF word[c] \in {m.stall : m \in cmds'[c]} THEN word[c] ELSE Nobody]
  /\ UNCHANGED <<dial, seat, at, cond, holder, refused>>

(* ottoq_sim_prearrival_contracts: a car on its way in that holds nothing may hold a free stall. *)
Contract(c, s) ==
  /\ step = "contracts" /\ c \in todo /\ cond[c] = "inbound"
  /\ \A x \in Stalls : holder[x] = c => left[x] <= 0
  /\ seat[s] = Nobody /\ (holder[s] = Nobody \/ left[s] <= 0)
  /\ todo' = todo \ {c} /\ Held(c, s, ContractHold)
  /\ UNCHANGED <<dial, step, seat, at, cond, cmds, refused, word>>

(* Its end: holds of cars on their way in or at the gate that have twenty minutes left get forty. *)
Refresh ==
  /\ step = "contracts"
  /\ left' = [s \in Stalls |-> IF holder[s] # Nobody /\ cond[holder[s]] \in {"inbound", "gate"}
                                  /\ seat[s] = Nobody /\ left[s] \in 1 .. 2
                               THEN 4 ELSE left[s]]
  /\ step' = (IF dial = "door" THEN "world" ELSE "walk") /\ todo' = Yard
  /\ UNCHANGED <<dial, seat, at, cond, holder, cmds, refused, word>>

(* The confirm walk's next car: older intents are retired, its newest is executed or refused. *)
(* heard: the answer reaches the depot; an operator's may be lost, and then the command stays.  *)
CarryOut(c, heard) ==
  LET s == Newest(cmds[c]).stall
      sits == CanSit(c, s) /\ cond[c] # "inbound"
  IN /\ cmds[c] # {}
     /\ cmds' = IF heard THEN [cmds EXCEPT ![c] = {}] ELSE cmds
     /\ refused' = IF heard /\ ~CanSit(c, s) THEN [refused EXCEPT ![c] = s] ELSE refused
     /\ word' = IF heard \/ sits THEN [word EXCEPT ![c] = Nobody] ELSE word
     /\ IF sits
        THEN /\ seat' = [x \in Stalls |-> CASE x = s -> c
                                            [] x # s /\ (seat[x] = c \/ x = at[c]) -> Nobody
                                            [] OTHER -> seat[x]]
             /\ at' = [at EXCEPT ![c] = s]
             /\ cond' = [cond EXCEPT ![c] = "charging"]
        ELSE UNCHANGED <<seat, at, cond>>

(* The world tick's walk, or the same walk after the decide step (twin_answer_in_tick). *)
Walk(c) == /\ step \in {"walk", "answer"} /\ c \in todo /\ todo' = todo \ {c}
           /\ CarryOut(c, TRUE)
           /\ UNCHANGED <<dial, step, holder, left>>

(* twin_operator_door: operators carry out some cars' commands before the tick. *)
Operate(c) == /\ step = "idle" /\ dial = "door" /\ \E heard \in BOOLEAN : CarryOut(c, heard)
              /\ UNCHANGED <<dial, step, todo, holder, left>>

Walked == /\ step \in {"walk", "answer"} /\ \A c \in todo : cmds[c] = {}
          /\ step' = (IF step = "walk" THEN "world" ELSE "idle") /\ todo' = {}
          /\ UNCHANGED <<dial, seat, at, cond, holder, left, cmds, refused, word>>

-----------------------------------------------------------------------------
(* ottoq_release_unusable_reservations: never where the holder sits. *)
(* A hold of a car that sits elsewhere stays while a booking backs it. *)
Withdrawn(c, s, backed) == cond[c] \in {"towed", "ready"} \/ (SitsElsewhere(c, s) /\ s \notin backed)
Reclaimed(s, backed) == /\ holder[s] # Nobody /\ seat[s] # holder[s]
                        /\ left[s] < 0 \/ Withdrawn(holder[s], s, backed)

Reclaim ==
  /\ step = "world" /\ step' = "decide" /\ todo' = Yard
  /\ \E backed \in SUBSET Stalls :
       /\ holder' = [s \in Stalls |-> IF Reclaimed(s, backed) THEN Nobody ELSE holder[s]]
       /\ word' = [c \in Yard |-> IF word[c] # Nobody /\ Withdrawn(c, word[c], backed) THEN Nobody ELSE word[c]]
  /\ UNCHANGED <<dial, seat, at, cond, left, cmds, refused>>

(* A beat that does not decide, or whose decide step raised. *)
NoDecide == /\ step = "world" /\ step' = "idle" /\ todo' = {}
            /\ UNCHANGED <<dial, seat, at, cond, holder, left, cmds, refused, word>>

(* The emission gate's answer: accepted, the hold covers the command, and it is the car's word;     *)
(* refused (a charger down, another car's booking), it awaits the reroute.                          *)
Accepted(c, s, time) ==
  /\ Held(c, s, Covered(time))
  /\ cmds' = [cmds EXCEPT ![c] = @ \cup {[stall |-> s, age |-> 0]}]
  /\ word' = [word EXCEPT ![c] = s]
  /\ refused' = [refused EXCEPT ![c] = Nobody]
Denied(c, s) == /\ word' = [word EXCEPT ![c] = Nobody]
                /\ refused' = [refused EXCEPT ![c] = s]
                /\ cmds' = cmds

(* The charge cursor's next car, for which a stall was proposed and the shield and the cap let by. *)
Assign(c, s) ==
  /\ step = "decide" /\ c \in todo /\ cond[c] \in {"gate", "staged"} /\ MayReserve(c, s)
  /\ todo' = todo \ {c}
  /\ \/ Accepted(c, s, DecideHold)
     \/ Denied(c, s) /\ holder' = [holder EXCEPT ![s] = Nobody] /\ left' = left
  /\ UNCHANGED <<dial, step, seat, at, cond>>

Decided == /\ step = "decide" /\ step' = "react" /\ todo' = Yard
           /\ UNCHANGED <<dial, seat, at, cond, holder, left, cmds, refused, word>>

(* ottoq_react_to_refusals: another stall for an hour, or an escalation; its gate may refuse too,    *)
(* and then the hour's hold stays.                                                                   *)
Reroute(c, s) ==
  /\ step = "react" /\ c \in todo /\ refused[c] # Nobody /\ MayReserve(c, s)
  /\ todo' = todo \ {c}
  /\ \/ cond[c] # "towed" /\ Accepted(c, s, RerouteHold)
     \/ Denied(c, s) /\ Held(c, s, RerouteHold)
  /\ UNCHANGED <<dial, step, seat, at, cond>>

Reacted == /\ step = "react" /\ todo' = (IF dial = "thisTick" THEN Yard ELSE {})
           /\ step' = IF dial = "thisTick" THEN "answer" ELSE "idle"
           /\ refused' = [c \in Yard |-> IF c \in todo THEN Nobody ELSE refused[c]]
           /\ UNCHANGED <<dial, seat, at, cond, holder, left, cmds, word>>

-----------------------------------------------------------------------------
BookInit ==
  /\ dial \in Dials /\ step = "idle" /\ todo = {}
  /\ seat = [s \in Stalls |-> Nobody] /\ at = [c \in Yard |-> Nobody]
  /\ cond \in [Yard -> {"inbound", "gate"}]
  /\ holder = [s \in Stalls |-> Nobody] /\ left = [s \in Stalls |-> -1]
  /\ cmds = [c \in Yard |-> {}]
  /\ refused = [c \in Yard |-> Nobody] /\ word = [c \in Yard |-> Nobody]

BookNext ==
  \/ Advance \/ Refresh \/ Walked \/ Reclaim \/ NoDecide \/ Decided \/ Reacted
  \/ \E c \in Yard : \/ Arrive(c) \/ Park(c) \/ Leave(c) \/ ChargeDone(c) \/ Tow(c)
                     \/ Walk(c) \/ Operate(c)
                     \/ \E s \in Stalls : Contract(c, s) \/ Assign(c, s) \/ Reroute(c, s)

BookSpec == BookInit /\ [][BookNext]_bookVars

-----------------------------------------------------------------------------
(* The stall's pointer and the car's agree, whatever walks, faults and reroutes do to either. *)
SeatsAgree == \A c \in Yard, s \in Stalls : seat[s] = c <=> at[c] = s

(* 0064, "a hold must outlive the command it serves": while a waiting car's last command is in force *)
(* and not carried out, no other car sits in its stall or holds it, so no walk can refuse it there.  *)
HoldOutlivesItsCommand ==
  \A c \in Yard : word[c] # Nobody /\ cond[c] \in {"gate", "staged"}
                    => seat[word[c]] = Nobody /\ (left[word[c]] > 0 => holder[word[c]] \in {c, Nobody})

StallsAreKept == SeatsAgree /\ HoldOutlivesItsCommand
=============================================================================
