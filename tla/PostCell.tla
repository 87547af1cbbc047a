------------------------------ MODULE PostCell ------------------------------
(***************************************************************************)
(* One robotic charging post: its charger, its charge arm, its cleaning    *)
(* arm, the engine's tether and one car's visit, as the synchronous        *)
(* product of the automata of lab/safety/models/post_cell_plant.cif, the   *)
(* requirements R1-R5 that restrict it, and the exploration that           *)
(* lab/safety/analyze_synthesis.py makes of the product: which states it   *)
(* has and which of them can still reach a marked state.                   *)
(***************************************************************************)
EXTENDS Naturals, FiniteSets, Sequences

Stay(locs, evs) == {<<l, e, l>> : l \in locs, e \in evs}
Go(from, evs, to) == {<<from, e, to>> : e \in evs}

Charger ==
  Go("Available", {"c_mate_start"}, "Occupied") \cup Stay({"Available"}, {"c_mate_abort"})
  \cup Go("Available", {"u_fault"}, "Faulted") \cup Go("Occupied", {"u_fault"}, "Faulted")
  \cup Go("Occupied", {"u_charge_complete", "c_stop_charge", "c_mate_abort"}, "Available")
  \cup Stay({"Faulted", "UnderRepair"}, {"c_mate_start", "c_mate_abort", "c_emergency_release"})
  \cup Go("Faulted", {"u_repair_start"}, "UnderRepair") \cup Go("UnderRepair", {"u_repaired"}, "Available")

ChargeArm ==
  Go("Stowed", {"c_mate_start"}, "Approach") \cup Go("Approach", {"u_at_inlet"}, "Insert")
  \cup Go("Approach", {"c_mate_abort"}, "Retract") \cup Go("Insert", {"u_latched"}, "Latched")
  \cup Go("Insert", {"c_mate_abort"}, "Retract") \cup Stay({"Latched"}, {"u_charge_complete", "c_stop_charge"})
  \cup Go("Latched", {"c_unlatch"}, "Unlatch") \cup Go("Latched", {"c_emergency_release"}, "Retract")
  \cup Go("Unlatch", {"u_unlatched"}, "Extract") \cup Go("Extract", {"u_extracted"}, "Retract")
  \cup Go("Retract", {"u_cleared"}, "Stowed")

CleanArm ==
  Go("Home", {"c_clean_start"}, "DoorsOpen") \cup Go("DoorsOpen", {"c_clean_enter"}, "OverCar")
  \cup Go("DoorsOpen", {"c_clean_abort"}, "Returning")
  \cup Go("OverCar", {"u_clean_finished", "c_clean_abort"}, "Returning") \cup Go("Returning", {"u_clean_home"}, "Home")

Tether ==
  Go("None", {"c_mate_start"}, "Mate") \cup Stay({"None"}, {"c_release", "u_cleared"})
  \cup Go("Mate", {"u_latched"}, "Charging") \cup Go("Mate", {"c_mate_abort"}, "Demate")
  \cup Go("Charging", {"c_unlatch"}, "Demate") \cup Go("Charging", {"c_emergency_release"}, "None")
  \cup Go("Demate", {"u_cleared"}, "Expired") \cup Go("Expired", {"c_release"}, "None")
  \cup Go("Expired", {"c_hold"}, "Held") \cup Go("Held", {"u_tick"}, "Expired")

Car ==
  Go("Inbound", {"c_admit"}, "AtPost") \cup Go("AtPost", {"c_mate_start"}, "OnCharger")
  \cup Stay({"AtPost", "OnCharger"}, {"c_clean_start", "c_clean_enter"})
  \cup Go("AtPost", {"c_release"}, "Left") \cup Go("OnCharger", {"c_release", "c_emergency_release"}, "Left")
  \cup Go("Left", {"c_depart_ready"}, "Ready") \cup Go("Left", {"c_requeue"}, "Requeued")

Battery == Go("Below", {"u_charge_complete"}, "Full") \cup Stay({"Below"}, {"c_stop_charge"})
Cabin   == Stay({"Dirty"}, {"c_clean_start"}) \cup Go("Dirty", {"u_clean_finished"}, "Clean")

Plant == [Charger |-> Charger, ChargeArm |-> ChargeArm, CleanArm |-> CleanArm, Tether |-> Tether,
          Car |-> Car, Battery |-> Battery, Cabin |-> Cabin]
Events == UNION {{e[2] : e \in Plant[a]} : a \in DOMAIN Plant}

\* Where each event takes each automaton that has it in its alphabet.
Moves ==
  [ev \in Events |->
     [a \in {b \in DOMAIN Plant : \E e \in Plant[b] : e[2] = ev} |->
        [l \in {e[1] : e \in {x \in Plant[a] : x[2] = ev}} |->
           (CHOOSE e \in Plant[a] : e[1] = l /\ e[2] = ev)[3]]]]

Uncontrollable == {"u_fault", "u_repair_start", "u_repaired", "u_at_inlet", "u_latched", "u_charge_complete",
                   "u_unlatched", "u_extracted", "u_cleared", "u_clean_finished", "u_clean_home", "u_tick"}

Empty == [Charger |-> "Available", ChargeArm |-> "Stowed", CleanArm |-> "Home", Tether |-> "None",
          Car |-> "Inbound", Battery |-> "Below", Cabin |-> "Dirty"]

Marked(s) == /\ s.Car \in {"Ready", "Requeued"}
             /\ s.ChargeArm = "Stowed" /\ s.CleanArm = "Home" /\ s.Tether = "None"

\* What the plant's guards ask; the sweep decides before anything uncontrollable moves.
PlantGuard(s, ev) ==
  /\ ev = "c_unlatch" => s.Charger # "Occupied"
  /\ ev = "c_hold" => s.CleanArm # "Home"
  /\ ev \in Uncontrollable => s.Tether # "Expired"

PlantAllows(s, ev) ==
  /\ \A a \in DOMAIN Moves[ev] : s[a] \in DOMAIN Moves[ev][a]
  /\ PlantGuard(s, ev)

After(s, ev) == [a \in DOMAIN Plant |-> IF a \in DOMAIN Moves[ev] THEN Moves[ev][a][s[a]] ELSE s[a]]

OutOfService(s) == s.Charger \in {"Faulted", "UnderRepair"}

\* The requirements an event needs, by the names of the .cif files.
R1(s)  == ~OutOfService(s)
LiteralR2(s) == ~OutOfService(s)
R2(s)  == ~OutOfService(s) \/ s.CleanArm = "Returning"
R3a(s) == s.CleanArm \in {"Home", "DoorsOpen"}
R3b(s) == s.CleanArm = "Home" \/ OutOfService(s)
R3c(s) == s.ChargeArm \in {"Stowed", "Latched"}
R3d(s) == s.ChargeArm = "Stowed" /\ s.CleanArm = "Home"
R4(s)  == s.Battery = "Full" /\ s.Cabin = "Clean"
R5(s)  == s.Battery = "Full"

Base(s, ev) ==
  /\ ev = "c_mate_start" => R1(s) /\ R3a(s)
  /\ ev = "c_unlatch" => R3b(s)
  /\ ev = "c_clean_enter" => R3c(s)
  /\ ev \in {"c_release", "c_emergency_release"} => R3d(s)
  /\ ev = "c_depart_ready" => R4(s)
  /\ ev = "c_stop_charge" => R5(s)

\* The variants the synthesis compares: the cell before migration 0792 has no R2.
Required(variant, s, ev) ==
  CASE variant = "plant" -> TRUE
    [] variant = "post_cell_pre0792" -> Base(s, ev)
    [] variant = "post_cell" -> Base(s, ev) /\ (ev = "c_hold" => R2(s))

Permitted(variant, s, ev) == PlantAllows(s, ev) /\ Required(variant, s, ev)

\* A sweep that keeps a car on an out-of-service post for a clean still to be done (G506).
G506Hold(s, ev) == ev = "c_hold" /\ OutOfService(s) /\ s.CleanArm \in {"DoorsOpen", "OverCar"}

-----------------------------------------------------------------------------
(* Exploration: the states and transitions of a variant, and the states    *)
(* from which a marked one can be reached.                                 *)

\* Bound: no state is further than this from the initial one, or a marked one.
Depth == 30

States(variant) ==
  LET seen[n \in 0..Depth] ==
        IF n = 0 THEN {Empty}
        ELSE LET before == seen[n - 1]
             IN before \cup UNION {{After(s, ev) : ev \in {e \in Events : Permitted(variant, s, e)}} : s \in before}
  IN seen[Depth]

Transitions(variant, space) ==
  UNION {{<<s, ev, After(s, ev)>> : ev \in {e \in Events : Permitted(variant, s, e)}} : s \in space}

\* What R2 alone disables: the difference of the two variants' transitions.
PreTransitions == Transitions("post_cell_pre0792", States("post_cell_pre0792"))
ForbiddenByR2Alone == PreTransitions \ Transitions("post_cell", States("post_cell"))

ReachesMarked(variant) ==
  LET space == States(variant)
      trans == Transitions(variant, space)
      back[n \in 0..Depth] ==
        IF n = 0 THEN {s \in space : Marked(s)}
        ELSE LET before == back[n - 1]
             IN before \cup {tr[1] : tr \in {x \in trans : x[3] \in before}}
  IN back[Depth]
=============================================================================
