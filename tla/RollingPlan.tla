----------------------------- MODULE RollingPlan ----------------------------
(***************************************************************************)
(* The rolling re-solve of solvers/cpsat/model.py: build_and_solve called  *)
(* again at a later minute, with the plan being carried out, the points    *)
(* that have gone out of service and the weighted objective.  It shares    *)
(* with the chain the scenario, the plan in hand and the stage, and leaves *)
(* the rest of the chain's state alone.                                    *)
(***************************************************************************)
EXTENDS ForwardChain

CONSTANTS RollRejection,  \* whether the calls allow rejection
          RollTicks       \* bound: how far the clock runs

VARIABLES clock,    \* t_now of the next solve
          blocked   \* the points out of service at that minute
rollVars == <<sc, plan, stage, clock, blocked>>

RollCall ==
  [FreshCall(RollRejection, 0) EXCEPT !.previous = plan, !.tNow = clock, !.blocked = blocked]

(* A solve: what it finds is the new plan; without one the plan in hand is *)
(* retained, and with none in hand there is no schedule.                   *)
ReSolve ==
  /\ stage = "rolling"
  /\ UNCHANGED <<sc, clock, blocked>>
  /\ IF PriceIsRefused(sc, RollCall, "weighted") THEN stage' = "price refused" /\ UNCHANGED plan
     ELSE \E answer \in Answers(sc, RollCall, "weighted") :
            IF answer.plan # <<>> THEN plan' = answer.plan /\ stage' = "carried out"
            ELSE /\ stage' = IF plan = <<>> THEN "no schedule" ELSE "carried out"
                 /\ UNCHANGED plan

(* Time passes and points come and go before the next solve.               *)
Later ==
  /\ stage = "carried out" /\ clock < RollTicks
  /\ clock' \in clock + 1 .. RollTicks
  /\ blocked' \in SUBSET {sc.points[i].id : i \in DOMAIN sc.points}
  /\ stage' = "rolling"
  /\ UNCHANGED <<sc, plan>>

RollingNext == (ReSolve \/ Later) /\ UNCHANGED <<rule, optima, floor, passes>>

---------------------------------------------------------------------------
PlaceOf(it, op) ==
  IF op = "charge" THEN <<it.point, it.start>>
  ELSE <<it[op].point, it[op].start>>
StartedBy(it, op, t) == PlaceOf(it, op)[1] # NoPoint /\ PlaceOf(it, op)[2] < t

(* Work that had begun when the plan was made again stays at its point and *)
(* at its minute: a car is not unplugged on paper (T3, model.py:320-322).  *)
Stays(op) == \A i \in DOMAIN plan :
  StartedBy(plan[i], op, clock) => PlaceOf(plan'[i], op) = PlaceOf(plan[i], op)
ReSolved == stage = "rolling" /\ stage' = "carried out" /\ plan # <<>>
StartedWorkStays == [][ReSolved => Stays("charge") /\ Stays("wash")]_rollVars

(* A point that is out of service takes no work that had not begun there,  *)
(* of any kind (finding L-28).                                             *)
BlockedTakesNoNewWork ==
  [][ReSolved /\ plan' # plan =>
       \A i \in DOMAIN plan', op \in {"charge", "wash", "inspect"} :
         PlaceOf(plan'[i], op)[1] \in blocked =>
           /\ StartedBy(plan[i], op, clock)
           /\ op # "inspect" => PlaceOf(plan'[i], op) = PlaceOf(plan[i], op)]_rollVars
=============================================================================
