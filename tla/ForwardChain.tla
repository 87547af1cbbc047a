---------------------------- MODULE ForwardChain ----------------------------
(***************************************************************************)
(* The lexicographic chain of policies/forward.py, and the two-pass solve  *)
(* of propose() in proposer/forward_proposer.py: a list of passes over one *)
(* scenario, each of which minimises its own figure and holds what every   *)
(* earlier pass reached.  One step is one pass, whatever its solve answers.*)
(*                                                                         *)
(* rule.modes is the list; rule.holdsServed says whether a later pass must *)
(* go on serving whom the first one served (the chain asks it where cars   *)
(* may be rejected, the two-pass solve never does).                        *)
(***************************************************************************)
EXTENDS ChargeKernel

VARIABLES sc,       \* the scenario being solved
          rule,     \* [modes, holdsServed, allowRejection, wall, slack]
          plan,     \* the plan in hand; <<>> before the first pass
          optima,   \* mode -> what its pass reached; Retained if it produced nothing
          floor,    \* the cars a later pass may not drop
          passes,   \* the trace, one entry per pass run
          stage     \* "frame", "solving", "solved", or how it ended
chainVars == <<sc, rule, plan, optima, floor, passes, stage>>

Retained == -1
Mode == rule.modes[Len(passes) + 1]
HeldBy(mode) == IF mode \in DOMAIN optima THEN optima[mode] ELSE -1

CallForgettingFlow(mode) ==
  [FreshCall(rule.allowRejection, rule.slack) EXCEPT
     !.previous = plan, !.priceChurn = FALSE, !.requireServed = floor,
     !.maxTardy = HeldBy("min_tardy"), !.maxPeak = HeldBy("min_peak")]
CallOf(mode) ==
  [FreshCall(rule.allowRejection, rule.slack) EXCEPT
     !.previous = plan,
     !.priceChurn = (mode = rule.modes[1]) \/ ~rule.holdsServed,
     !.requireServed = floor,
     !.maxTardy = HeldBy("min_tardy"),
     !.maxFlow = HeldBy("min_flow"),
     !.maxPeak = HeldBy("min_peak")]

(* The flow pass is handed the plan before it only as a hint, so a search  *)
(* that was cut short may return a slower one: the held plan then ships.   *)
ShipsHeld(mode, found) ==
  /\ mode = "min_flow"
  /\ ServedIn(plan) = ServedIn(found)
  /\ TotalFlow(plan) < TotalFlow(found)
Reached(mode, p) ==
  CASE mode = "min_tardy" -> TotalTardy(p)
    [] mode = "min_peak" -> PeakKw(sc, p)
    [] mode = "min_flow" -> TotalFlow(p)
TraceByNumber(mode, status, retained) ==
  [mode |-> mode, status |-> status, retained |-> retained, proven |-> ~retained,
   reproducible |-> ~retained /\ (status = "OPTIMAL" \/ ~rule.wall)]
Trace(mode, status, retained) ==
  [mode |-> mode, status |-> status, retained |-> retained,
   proven |-> ~retained /\ status = "OPTIMAL",
   reproducible |-> ~retained /\ (status = "OPTIMAL" \/ ~rule.wall)]

(* A pass that was answered.                                               *)
PassSolves(answer) ==
  LET shipped == IF ShipsHeld(Mode, answer.plan) THEN plan ELSE answer.plan
  IN /\ plan' = shipped
     /\ optima' = [m \in DOMAIN optima \cup {Mode} |->
                     IF m = Mode THEN Reached(Mode, shipped) ELSE optima[m]]
     /\ floor' = IF Mode = "min_tardy" /\ rule.holdsServed /\ rule.allowRejection
                 THEN ServedIn(shipped) ELSE floor
     /\ passes' = Append(passes, Trace(Mode, answer.status, FALSE))
     /\ stage' = IF Len(passes) + 1 = Len(rule.modes) THEN "solved" ELSE "solving"

(* A pass that was not: the plan before it is retained and nothing more is *)
(* solved; the first pass has no plan to retain and raises.                *)
PassRetains(answer) ==
  /\ IF plan = <<>>
     THEN /\ stage' = "no schedule"
          /\ UNCHANGED <<optima, passes>>
     ELSE /\ stage' = "solved"
          /\ optima' = [m \in DOMAIN optima \cup {Mode} |-> IF m = Mode THEN Retained ELSE optima[m]]
          /\ passes' = Append(passes, Trace(Mode, answer.status, TRUE))
  /\ UNCHANGED <<plan, floor>>

Pass ==
  /\ stage = "solving"
  /\ UNCHANGED <<sc, rule>>
  /\ IF PriceIsRefused(sc, CallOf(Mode), Mode)
     THEN stage' = "price refused" /\ UNCHANGED <<plan, optima, floor, passes>>
     ELSE \E answer \in Answers(sc, CallOf(Mode), Mode) :
            IF answer.plan = <<>> THEN PassRetains(answer) ELSE PassSolves(answer)

---------------------------------------------------------------------------
(* What the finished chain claims of itself.                               *)
IsRetained == passes # <<>> /\ passes[Len(passes)].retained
IsComplete ==
  /\ Len(passes) = Len(rule.modes)
  /\ \A i \in DOMAIN passes : passes[i].proven
IsReproducible == \A i \in DOMAIN passes : passes[i].reproducible

(* The figures measured off the plan that ships, against every ceiling the *)
(* chain says it holds.                                                    *)
MeasurePlan == [m \in DOMAIN optima |-> Reached(m, plan)]
Honours == \A m \in DOMAIN optima : optima[m] = Retained \/ MeasurePlan[m] <= optima[m]
=============================================================================
