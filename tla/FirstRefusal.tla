---------------------------- MODULE FirstRefusal ----------------------------
(***************************************************************************)
(* The right of first refusal: a car at the gate may be held out of the     *)
(* kernel's own stall assignment for one decide beat, so that a planner's   *)
(* answer is not pre-empted by the stall it was solving for.                *)
(*   - ottoq_cuopt_deferrals, one row per car: armed when a solve is posted *)
(*     (ottoq_cuopt_refresh, no cap) or when a decide beat finds the car at *)
(*     the gate unanswered (ottoq_cuopt_first_refusal_arm, at most Cap      *)
(*     armings); the next roll spends it, the one after clears it;          *)
(*   - the metronome alternates FIRE and DECIDE beats; a beat holds the     *)
(*     run's row from its world step to its commit, so a beat is one step   *)
(*     as far as answers go (RunLocks);                                     *)
(*   - answers arrive between beats; each is disposed of by the decide beat *)
(*     it is pending in.                                                    *)
(* Stalls, chargers and charge levels are choices of the environment.       *)
(***************************************************************************)
EXTENDS Naturals

CONSTANTS Cars,
          Cap,       \* the dial cuopt_first_refusal_max_defers
          Chain,     \* the dial agent_solver_chain_enabled
          HandsOff   \* under Chain: whether the agent hands a solver its call

ASSUME CapAssumption == Cap \in Nat
ASSUME DialAssumption == Chain \in BOOLEAN /\ HandsOff \in BOOLEAN

VARIABLES
  phase,    \* what the metronome does next: its world step, a decide, a fire
  decides,  \* whether the next beat decides
  place,    \* out (deployed or en route), gate, staged, sent (to a stall)
  booked,   \* the car holds a live reservation of a charge stall
  answer,   \* the pending proposal of a planner: none, plan, abstain
  old,      \* that proposal is past its time
  ledger,   \* the car's deferral: its state, whether it was spent at this tick, its count
  held,     \* the cars the last decide beat held out
  letIn,    \* the cars it let in
  since,    \* held beats since the last arming
  total,    \* held beats in the run
  used,     \* the cars the last decide beat sent out on their planner's stall
  fate      \* what it wrote on the car's proposal

vars == <<phase, decides, place, booked, answer, old, ledger, held, letIn, since, total, used, fate>>

Answers == {"none", "plan", "abstain"}
Fates == {"none", "enacted", "superseded", "refused", "expired"}
DeferralStates == {"none", "armed", "spent", "clear"}

(* Bounds: counts past Cap, and held beats past the second, are not told apart. *)
OneMore(n) == IF n > Cap THEN n ELSE n + 1
AnotherBeat(n) == IF n > 1 THEN n ELSE n + 1

TypeOK ==
  /\ phase \in {"world", "decide", "fire"} /\ decides \in BOOLEAN
  /\ place \in [Cars -> {"out", "gate", "staged", "sent"}]
  /\ booked \in [Cars -> BOOLEAN] /\ old \in [Cars -> BOOLEAN]
  /\ answer \in [Cars -> Answers] /\ fate \in [Cars -> Fates]
  /\ ledger \in [Cars -> [state : DeferralStates, now : BOOLEAN, count : Nat]]
  /\ held \subseteq Cars /\ letIn \subseteq Cars /\ used \subseteq Cars
  /\ since \in [Cars -> Nat] /\ total \in [Cars -> Nat]

-----------------------------------------------------------------------------
(* mutant of Armable: the ON CONFLICT loses its WHERE d.state = 'clear' *)
AlwaysArmable(led, c) == place[c] \in {"out", "gate"}

(* ottoq_cuopt_defer_arm: outside the walls only, and never on a row that is armed or spent. *)
Armable(led, c) == place[c] \in {"out", "gate"} /\ led[c].state \in {"none", "clear"}

Arm(led, S) ==
  [c \in Cars |-> IF c \in S /\ Armable(led, c)
                  THEN [state |-> "armed", now |-> FALSE, count |-> OneMore(led[c].count)]
                  ELSE led[c]]

(* ottoq_cuopt_first_refusal_arm's cars: an abstention is no answer, a plan past its time is one. *)
Unanswered(led) ==
  {c \in Cars : place[c] = "gate" /\ ~booked[c] /\ answer[c] # "plan"
                /\ led[c].state \in {"none", "clear"} /\ led[c].count < Cap}

(* ottoq_cuopt_refresh's cars: at the gate with no charge stall, staged, or worth an upgrade. *)
Candidates == {c \in Cars : (place[c] = "gate" /\ ~booked[c]) \/ place[c] \in {"staged", "out"}}

(* A refresh that reaches its post for the cars S; S is what the world offers of either set. *)
Refreshed(led, S) == Arm(led, S \cap (IF Chain THEN Unanswered(led) ELSE Candidates))

(* ottoq_cuopt_defer_roll: what an earlier tick spent is cleared, what is armed is spent now. *)
Roll(led) ==
  [c \in Cars |->
     CASE led[c].state = "spent" /\ ~led[c].now -> [led[c] EXCEPT !.state = "clear"]
       [] led[c].state = "armed"                -> [led[c] EXCEPT !.state = "spent", !.now = TRUE]
       [] OTHER                                 -> led[c]]

(* mutant of Holds: any spent row holds, whichever tick spent it *)
HoldsWhileSpent(led, c) == led[c].state = "spent" /\ ~(answer[c] # "none" /\ ~old[c])

(* ottoq_cuopt_defer_hold: spent at this tick, and no planner's row pending in time. *)
Holds(led, c) == led[c].state = "spent" /\ led[c].now /\ ~(answer[c] # "none" /\ ~old[c])

(* The history of an arming: its held beats start over. *)
Armed(before, after) == {c \in Cars : after[c].state = "armed" /\ before[c].state # "armed"}
Restarted(f, S) == [c \in Cars |-> IF c \in S THEN 0 ELSE f[c]]

-----------------------------------------------------------------------------
(* The world step of a beat: a new tick; cars arrive and leave, reservations are made and lapse. *)
World ==
  /\ phase = "world"
  /\ phase' = IF decides THEN "decide" ELSE "fire"
  /\ decides' = ~decides
  /\ ledger' = [c \in Cars |-> [ledger[c] EXCEPT !.now = FALSE]]
  /\ \E moved \in SUBSET Cars :
       place' = [c \in Cars |-> CASE c \in moved /\ place[c] = "out" -> "gate"
                                  [] c \in moved /\ place[c] = "sent" -> "out"
                                  [] OTHER -> place[c]]
  /\ \E holders \in SUBSET Cars : booked' = [c \in Cars |-> c \in holders]
  /\ UNCHANGED <<answer, old, held, letIn, since, total, used, fate>>

(* A FIRE beat: ottoq_cuopt_refresh, or one of its gates closed. *)
Fire ==
  /\ phase = "fire" /\ phase' = "world"
  /\ \E S \in SUBSET Cars :
       /\ ledger' = Refreshed(ledger, S)
       /\ since' = Restarted(since, Armed(ledger, Refreshed(ledger, S)))
  /\ UNCHANGED <<decides, place, booked, answer, old, held, letIn, total, used, fate>>

(* The agent hands the hosted solver its call: ottoq_cuopt_refresh, which posts and arms. *)
HandOff ==
  /\ Chain /\ HandsOff /\ phase = "world"
  /\ \E S \in SUBSET Candidates :
       /\ ledger' = Arm(ledger, S)
       /\ since' = Restarted(since, Armed(ledger, Arm(ledger, S)))
  /\ UNCHANGED <<phase, decides, place, booked, answer, old, held, letIn, total, used, fate>>

(* A planner submits for a car: its row is the one that is pending. *)
Submit(c, a) ==
  /\ phase = "world" /\ a \in {"plan", "abstain"}
  /\ answer' = [answer EXCEPT ![c] = a] /\ old' = [old EXCEPT ![c] = FALSE]
  /\ UNCHANGED <<phase, decides, place, booked, ledger, held, letIn, since, total, used, fate>>

(* Its time runs out. *)
Ages(c) ==
  /\ phase = "world" /\ answer[c] # "none" /\ ~old[c]
  /\ old' = [old EXCEPT ![c] = TRUE]
  /\ UNCHANGED <<phase, decides, place, booked, answer, ledger, held, letIn, since, total, used, fate>>

-----------------------------------------------------------------------------
Queue == {c \in Cars : place[c] \in {"gate", "staged"}}
Usable(c) == answer[c] = "plan" /\ ~old[c]

(* The end of a decide beat, A3 and dispose: sent cars' proposals are enacted when the decision    *)
(* carries their source, which a broken reservation overwrites; an abstention is refused, a row    *)
(* past its time expires, a plan is kept while its stall can be had.                                *)
Disposed(sent, took, kept, c) ==
  CASE answer[c] = "none" -> "none"
    [] c \in took /\ ~booked[c] -> "enacted"
    [] c \in sent -> "superseded"
    [] c \in kept -> "none"
    [] old[c] -> "expired"
    [] OTHER -> "refused"

(* The ledger when the roll comes: the refresh when no FIRE beat is alive, then the first refusal. *)
ArmedFor(S, low) == Arm(Refreshed(ledger, S), low \cap Unanswered(Refreshed(ledger, S)))

(* The charge cursor over the ledger led, and the proposals' end; armed is the ledger before the roll. *)
Cursor(armed, led) ==
  LET out == {c \in Queue : Holds(led, c)}
  IN \E sent \in SUBSET (Queue \ out) :
     \E took \in SUBSET {c \in sent : Usable(c)} :
     \E kept \in SUBSET {c \in Cars \ sent : Usable(c)} :
     \E parked \in SUBSET ((Queue \ out) \ sent) :
       /\ ledger' = led
       /\ held' = out /\ letIn' = Queue \ out
       /\ since' = [c \in Cars |-> LET past == IF c \in Armed(ledger, armed) THEN 0 ELSE since[c]
                                    IN IF c \in out THEN AnotherBeat(past) ELSE past]
       /\ total' = [c \in Cars |-> IF c \in out THEN OneMore(total[c]) ELSE total[c]]
       /\ place' = [c \in Cars |-> CASE c \in sent -> "sent" [] c \in parked -> "staged" [] OTHER -> place[c]]
       /\ used' = took
       /\ fate' = [c \in Cars |-> Disposed(sent, took, kept, c)]
       /\ answer' = [c \in Cars |-> IF c \in kept THEN answer[c] ELSE "none"]
       /\ old' = [c \in Cars |-> FALSE]

(* ottoq_sim_decide_and_dispatch up to the end of the charge cursor and A3; the roll swallows its  *)
(* own error and is then undone.                                                                    *)
Decide ==
  /\ phase = "decide" /\ phase' = "world"
  /\ \E S \in SUBSET Cars : \E low \in SUBSET Cars : \E rolls \in BOOLEAN :
       Cursor(ArmedFor(S, low), IF rolls THEN Roll(ArmedFor(S, low)) ELSE ArmedFor(S, low))
  /\ UNCHANGED <<decides, booked>>

(* The decide step raises: the beat keeps its world step and nothing else. *)
DecideFails ==
  /\ phase = "decide" /\ phase' = "world"
  /\ UNCHANGED <<decides, place, booked, answer, old, ledger, held, letIn, since, total, used, fate>>

-----------------------------------------------------------------------------
Init ==
  /\ phase = "world" /\ decides \in BOOLEAN
  /\ place \in [Cars -> {"out", "gate"}] /\ booked \in [Cars -> BOOLEAN]
  /\ answer = [c \in Cars |-> "none"] /\ old = [c \in Cars |-> FALSE]
  /\ ledger = [c \in Cars |-> [state |-> "none", now |-> FALSE, count |-> 0]]
  /\ held = {} /\ letIn = {} /\ used = {}
  /\ since = [c \in Cars |-> 0] /\ total = [c \in Cars |-> 0]
  /\ fate = [c \in Cars |-> "none"]

Next == \/ World \/ Fire \/ HandOff \/ Decide \/ DecideFails
        \/ \E c \in Cars : Ages(c) \/ \E a \in Answers : Submit(c, a)

Spec == Init /\ [][Next]_vars

(* The metronome beats, and not every decide step raises. *)
FairSpec == Spec /\ WF_vars(World) /\ WF_vars(Fire) /\ WF_vars(Decide \/ DecideFails) /\ SF_vars(Decide)

-----------------------------------------------------------------------------
(* "A hold can never span two consecutive decide ticks": a decide beat never holds a car that the  *)
(* last one held, although a roll or a beat in between may fail and a FIRE beat may arm again.      *)
HeldThenLetIn == [][Decide => held' \cap held = {}]_vars

(* An arming buys one held beat, not two, however often the roll fails. *)
OneHoldPerArming == \A c \in Cars : since[c] <= 1

(* No car starves at the gate: while it queues it is let in again and again. *)
LetInAgain == \A c \in Cars : []<>(c \in letIn \/ c \notin Queue)

(* The dial's own description: the beats a car may be held in a run; 0 disables holds. *)
HoldsWithinCap == \A c \in Cars : total[c] <= Cap

(* The comment at A3: what is not enacted was decided, but not by this proposal. *)
EnactedWhenUsed == \A c \in used : fate[c] = "enacted"
=============================================================================
