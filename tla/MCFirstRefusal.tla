--------------------------- MODULE MCFirstRefusal ---------------------------
(* Two parts of the depot's kernel in one run, each by itself: a behaviour is one of the first     *)
(* refusal or one of the stall book. Cars do not touch one another in the first: a beat may arm,   *)
(* hold or send any of them.                                                                       *)
EXTENDS FirstRefusal, StallBook
CONSTANTS Parts, c1, a1, a2, s1, s2
VARIABLE part

OneCar == {c1}
BothParts == {"refusal", "stalls"}
RefusalOnly == {"refusal"}
TwoCars == {a1, a2}
TwoStalls == {s1, s2}
EveryDial == {"nextTick", "thisTick", "door"}

(* The part that does not run stands at one state of its own. *)
RefusalAtRest ==
  /\ phase = "world" /\ decides = FALSE
  /\ place = [c \in Cars |-> "out"] /\ booked = [c \in Cars |-> FALSE]
  /\ answer = [c \in Cars |-> "none"] /\ old = [c \in Cars |-> FALSE]
  /\ ledger = [c \in Cars |-> [state |-> "none", now |-> FALSE, count |-> 0]]
  /\ held = {} /\ letIn = {} /\ used = {}
  /\ since = [c \in Cars |-> 0] /\ total = [c \in Cars |-> 0]
  /\ fate = [c \in Cars |-> "none"]
BookAtRest ==
  /\ dial = "nextTick" /\ step = "idle" /\ todo = {}
  /\ seat = [s \in Stalls |-> Nobody] /\ at = [c \in Yard |-> Nobody]
  /\ cond = [c \in Yard |-> "inbound"]
  /\ holder = [s \in Stalls |-> Nobody] /\ left = [s \in Stalls |-> -1]
  /\ cmds = [c \in Yard |-> {}]
  /\ refused = [c \in Yard |-> Nobody] /\ word = [c \in Yard |-> Nobody]

DepotInit == \/ part = "refusal" /\ "refusal" \in Parts /\ Init /\ BookAtRest
             \/ part = "stalls" /\ "stalls" \in Parts /\ BookInit /\ RefusalAtRest
DepotNext == \/ part = "refusal" /\ Next /\ UNCHANGED <<part, bookVars>>
             \/ part = "stalls" /\ BookNext /\ UNCHANGED <<part, vars>>
Depot == <<part, vars, bookVars>>

Beats(A) == part = "refusal" /\ A /\ UNCHANGED <<part, bookVars>>
DepotSpec ==
  /\ DepotInit /\ [][DepotNext]_Depot
  /\ WF_Depot(Beats(World)) /\ WF_Depot(Beats(Fire))
  /\ WF_Depot(Beats(Decide \/ DecideFails)) /\ SF_Depot(Beats(Decide))
=============================================================================
