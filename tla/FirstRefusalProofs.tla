------------------------ MODULE FirstRefusalProofs ------------------------
(***************************************************************************)
(* Proofs about FirstRefusal: a hold never follows a hold, and an arming    *)
(* buys one, for every set of cars, every cap and both dials. The strength- *)
(* ening says what the two histories remember of the ledger: an armed row   *)
(* has held no beat yet, a car held by the last decide beat has a spent     *)
(* row, and no row is spent at a tick whose decide beat is still to come.   *)
(***************************************************************************)
EXTENDS FirstRefusal, StallBook, TLAPS

Deferral == [state : DeferralStates, now : BOOLEAN, count : Nat]

(* No row is spent at the tick the decide beat is about to work in. *)
NothingSpentYet == phase = "decide" => \A c \in Cars : ~ledger[c].now

(* An armed row has held no beat since it was armed. *)
ArmedIsFresh == \A c \in Cars : ledger[c].state = "armed" => since[c] = 0

(* What held a car last time is still on its row. *)
HeldIsSpent == \A c \in held : ledger[c].state = "spent"

IInv == TypeOK /\ NothingSpentYet /\ ArmedIsFresh /\ HeldIsSpent /\ OneHoldPerArming

-----------------------------------------------------------------------------
(* An arming keeps the ledger's type. *)
LEMMA ArmTypes ==
  ASSUME NEW led \in [Cars -> Deferral], NEW S
  PROVE  Arm(led, S) \in [Cars -> Deferral]
<1>1. SUFFICES ASSUME NEW c \in Cars
               PROVE (IF c \in S /\ Armable(led, c)
                      THEN [state |-> "armed", now |-> FALSE, count |-> OneMore(led[c].count)]
                      ELSE led[c]) \in Deferral
  BY DEF Arm
<1>2. led[c] \in Deferral
  OBVIOUS
<1>3. OneMore(led[c].count) \in Nat
  BY <1>2, CapAssumption DEF OneMore, Deferral
<1>4. QED
  BY <1>2, <1>3 DEF Deferral, DeferralStates

(* An arming leaves a spent row alone, spends no row, and changes only rows it arms. *)
LEMMA ArmSpends ==
  ASSUME NEW led \in [Cars -> Deferral], NEW S, NEW c \in Cars
  PROVE  /\ led[c].state = "spent" => Arm(led, S)[c] = led[c]
         /\ Arm(led, S)[c] # led[c] => Arm(led, S)[c].state = "armed" /\ led[c].state # "armed"
         /\ ~led[c].now => ~Arm(led, S)[c].now
<1>1. Arm(led, S)[c] = IF c \in S /\ Armable(led, c)
                       THEN [state |-> "armed", now |-> FALSE, count |-> OneMore(led[c].count)]
                       ELSE led[c]
  BY DEF Arm
<1>2. QED
  BY <1>1 DEF Armable

(* A roll keeps the ledger's type; what it leaves spent at this tick was armed, and an armed row it spends. *)
LEMMA RollSpends ==
  ASSUME NEW led \in [Cars -> Deferral]
  PROVE  /\ Roll(led) \in [Cars -> Deferral]
         /\ \A c \in Cars : Roll(led)[c].state # "armed"
         /\ \A c \in Cars : ~led[c].now /\ Roll(led)[c].now => led[c].state = "armed"
<1>1. ASSUME NEW c \in Cars
      PROVE  /\ Roll(led)[c] \in Deferral
             /\ Roll(led)[c].state # "armed"
             /\ ~led[c].now /\ Roll(led)[c].now => led[c].state = "armed"
  <2>1. led[c] \in Deferral
    OBVIOUS
  <2>2. Roll(led)[c] = CASE led[c].state = "spent" /\ ~led[c].now -> [led[c] EXCEPT !.state = "clear"]
                         [] led[c].state = "armed"                -> [led[c] EXCEPT !.state = "spent", !.now = TRUE]
                         [] OTHER                                 -> led[c]
    BY DEF Roll
  <2>3. CASE led[c].state = "spent" /\ ~led[c].now
    BY <2>1, <2>2, <2>3 DEF Deferral, DeferralStates
  <2>4. CASE led[c].state = "armed"
    BY <2>1, <2>2, <2>4 DEF Deferral, DeferralStates
  <2>5. CASE led[c].state # "armed" /\ ~(led[c].state = "spent" /\ ~led[c].now)
    BY <2>1, <2>2, <2>5
  <2>6. QED
    BY <2>3, <2>4, <2>5
<1>2. Roll(led) \in [Cars -> Deferral]
  <2>1. Roll(led) = [c \in Cars |-> Roll(led)[c]]
    BY DEF Roll
  <2>2. QED
    BY <1>1, <2>1
<1>3. QED
  BY <1>1, <1>2

(* A decide beat's ledger: two armings and a roll that may be undone. *)
LEMMA BeatLedger ==
  ASSUME NEW led \in [Cars -> Deferral], NEW S, NEW T, NEW rolls \in BOOLEAN,
         \A c \in Cars : ~led[c].now
  PROVE  LET armed  == Arm(Arm(led, S), T)
             rolled == IF rolls THEN Roll(armed) ELSE armed
         IN /\ armed \in [Cars -> Deferral]
            /\ rolled \in [Cars -> Deferral]
            /\ \A c \in Cars : led[c].state = "spent" => armed[c] = led[c]
            /\ \A c \in Cars : rolled[c].now => armed[c].state = "armed"
            /\ \A c \in Cars : rolled[c].state = "armed" => armed[c].state = "armed" /\ ~rolled[c].now
            /\ \A c \in Cars : armed[c].state = "armed" => led[c].state = "armed" \/ c \in Armed(led, armed)
<1> DEFINE armed == Arm(Arm(led, S), T)
           rolled == IF rolls THEN Roll(armed) ELSE armed
<1>1. Arm(led, S) \in [Cars -> Deferral] /\ armed \in [Cars -> Deferral]
  BY ArmTypes
<1>2. \A c \in Cars : /\ led[c].state = "spent" => armed[c] = led[c]
                      /\ ~armed[c].now
  <2>1. TAKE c \in Cars
  <2>2. led[c].state = "spent" => Arm(led, S)[c] = led[c]
    BY ArmSpends
  <2>3. ~Arm(led, S)[c].now
    BY ArmSpends
  <2>4. /\ Arm(led, S)[c].state = "spent" => armed[c] = Arm(led, S)[c]
        /\ ~Arm(led, S)[c].now => ~armed[c].now
    BY <1>1, ArmSpends
  <2>5. QED
    BY <2>2, <2>3, <2>4, Zenon
<1>3. rolled \in [Cars -> Deferral]
  BY <1>1, RollSpends
<1>4. \A c \in Cars : /\ rolled[c].now => armed[c].state = "armed"
                      /\ rolled[c].state = "armed" => armed[c].state = "armed" /\ ~rolled[c].now
  <2>1. CASE rolls
    BY <1>1, <1>2, <2>1, RollSpends
  <2>2. CASE ~rolls
    BY <1>2, <2>2
  <2>3. QED
    BY <2>1, <2>2
<1>5. \A c \in Cars : armed[c].state = "armed" => led[c].state = "armed" \/ c \in Armed(led, armed)
  BY DEF Armed
<1>6. QED
  BY <1>1, <1>2, <1>3, <1>4, <1>5, Zenon

-----------------------------------------------------------------------------
(* Every initial state satisfies the strengthening. *)
LEMMA InitIInv == Init => IInv
<1>1. SUFFICES ASSUME Init PROVE IInv
  OBVIOUS
<1>2. TypeOK
  <2>1. ledger \in [Cars -> [state : DeferralStates, now : BOOLEAN, count : Nat]]
    BY <1>1 DEF Init, DeferralStates
  <2>2. QED
    BY <1>1, <2>1 DEF Init, TypeOK, Answers, Fates
<1>3. NothingSpentYet /\ ArmedIsFresh /\ HeldIsSpent /\ OneHoldPerArming
  BY <1>1 DEF Init, NothingSpentYet, ArmedIsFresh, HeldIsSpent, OneHoldPerArming
<1>4. QED
  BY <1>2, <1>3 DEF IInv

(* An arming between beats: the refresh of a FIRE beat, or of the agent's hand-off. *)
LEMMA ArmingKeepsIInv ==
  ASSUME IInv, NEW S, phase # "decide" \/ phase' = phase, phase' # "decide",
         phase' \in {"world", "decide", "fire"},
         ledger' = Arm(ledger, S), since' = Restarted(since, Armed(ledger, Arm(ledger, S))),
         UNCHANGED <<decides, place, booked, answer, old, held, letIn, total, used, fate>>
  PROVE  IInv'
<1>1. ledger \in [Cars -> Deferral] /\ since \in [Cars -> Nat]
  BY DEF IInv, TypeOK, Deferral
<1>2. ledger' \in [Cars -> Deferral]
  BY <1>1, ArmTypes
<1>3. since' \in [Cars -> Nat] /\ \A c \in Cars : since'[c] = IF c \in Armed(ledger, ledger') THEN 0 ELSE since[c]
  BY <1>1 DEF Restarted
<1>4. TypeOK'
  BY <1>2, <1>3 DEF IInv, TypeOK, Deferral
<1>5. NothingSpentYet'
  BY DEF NothingSpentYet
<1>6. ArmedIsFresh'
  BY <1>3 DEF IInv, ArmedIsFresh, Armed
<1>7. HeldIsSpent'
  <2>1. ASSUME NEW c \in held PROVE ledger'[c].state = "spent"
    <3>1. c \in Cars /\ ledger[c].state = "spent"
      BY DEF IInv, TypeOK, HeldIsSpent
    <3>2. QED
      BY <1>1, <3>1, ArmSpends
  <2>2. QED
    BY <2>1 DEF HeldIsSpent
<1>8. OneHoldPerArming'
  BY <1>1, <1>3 DEF IInv, OneHoldPerArming
<1>9. QED
  BY <1>4, <1>5, <1>6, <1>7, <1>8 DEF IInv

(* A decide beat keeps the strengthening, and holds no car the last one held. *)
LEMMA DecideKeepsIInv ==
  ASSUME IInv, Decide
  PROVE  IInv' /\ held' \cap held = {}
<1>1. PICK S \in SUBSET Cars, low \in SUBSET Cars, rolls \in BOOLEAN :
        Cursor(ArmedFor(S, low), IF rolls THEN Roll(ArmedFor(S, low)) ELSE ArmedFor(S, low))
  BY DEF Decide
<1> DEFINE armed == ArmedFor(S, low)
           led == IF rolls THEN Roll(armed) ELSE armed
           out == {c \in Queue : Holds(led, c)}
<1>2. /\ ledger \in [Cars -> Deferral] /\ since \in [Cars -> Nat] /\ total \in [Cars -> Nat]
      /\ \A c \in Cars : ~ledger[c].now
  BY DEF IInv, TypeOK, Deferral, NothingSpentYet, Decide
<1>3. \E first, second : armed = Arm(Arm(ledger, first), second)
  BY DEF ArmedFor, Refreshed
<1>4. /\ led \in [Cars -> Deferral]
      /\ \A c \in Cars : ledger[c].state = "spent" => armed[c] = ledger[c]
      /\ \A c \in Cars : led[c].now => armed[c].state = "armed"
      /\ \A c \in Cars : led[c].state = "armed" => armed[c].state = "armed" /\ ~led[c].now
      /\ \A c \in Cars : armed[c].state = "armed" => ledger[c].state = "armed" \/ c \in Armed(ledger, armed)
  <2>1. PICK first, second : armed = Arm(Arm(ledger, first), second)
    BY <1>3
  <2> HIDE DEF armed
  <2>2. QED
    BY <1>2, <2>1, BeatLedger
<1> HIDE DEF armed, led
<1>5. PICK sent, took, kept, parked :
       /\ sent \in SUBSET (Queue \ out) /\ took \in SUBSET {c \in sent : Usable(c)}
       /\ kept \in SUBSET {c \in Cars \ sent : Usable(c)} /\ parked \in SUBSET ((Queue \ out) \ sent)
       /\ ledger' = led
       /\ held' = out /\ letIn' = Queue \ out
       /\ since' = [c \in Cars |-> LET past == IF c \in Armed(ledger, armed) THEN 0 ELSE since[c]
                                    IN IF c \in out THEN AnotherBeat(past) ELSE past]
       /\ total' = [c \in Cars |-> IF c \in out THEN OneMore(total[c]) ELSE total[c]]
       /\ place' = [c \in Cars |-> CASE c \in sent -> "sent" [] c \in parked -> "staged" [] OTHER -> place[c]]
       /\ used' = took
       /\ fate' = [c \in Cars |-> Disposed(sent, took, kept, c)]
       /\ answer' = [c \in Cars |-> IF c \in kept THEN answer[c] ELSE "none"]
       /\ old' = [c \in Cars |-> FALSE]
  BY <1>1, SMTT(30) DEF Cursor, armed, led
<1>6. \A c \in out : c \in Cars /\ led[c].state = "spent" /\ led[c].now
  BY DEF Queue, Holds
<1>7. \A c \in Cars : LET past == IF c \in Armed(ledger, armed) THEN 0 ELSE since[c]
                    IN since'[c] = IF c \in out THEN (IF past > 1 THEN past ELSE past + 1) ELSE past
  BY <1>5 DEF AnotherBeat
<1>8. held' \cap held = {}
  BY <1>4, <1>5, <1>6, SMTT(30) DEF IInv, TypeOK, HeldIsSpent
<1>9. TypeOK'
  <2>1. phase' \in {"world", "decide", "fire"} /\ decides' \in BOOLEAN /\ booked' \in [Cars -> BOOLEAN]
    BY DEF Decide, IInv, TypeOK
  <2>2. place' \in [Cars -> {"out", "gate", "staged", "sent"}]
    BY <1>5 DEF IInv, TypeOK
  <2>3. answer' \in [Cars -> Answers] /\ old' \in [Cars -> BOOLEAN]
    BY <1>5 DEF IInv, TypeOK, Answers
  <2>4. fate' \in [Cars -> Fates]
    BY <1>5 DEF Disposed, Fates
  <2>5. held' \subseteq Cars /\ letIn' \subseteq Cars /\ used' \subseteq Cars
    BY <1>5 DEF Queue
  <2>6. since' \in [Cars -> Nat]
    BY <1>2, <1>5 DEF AnotherBeat
  <2>7. total' \in [Cars -> Nat]
    BY <1>2, <1>5, CapAssumption DEF OneMore
  <2>8. ledger' \in [Cars -> [state : DeferralStates, now : BOOLEAN, count : Nat]]
    BY <1>4, <1>5 DEF Deferral
  <2>9. QED
    BY <2>1, <2>2, <2>3, <2>4, <2>5, <2>6, <2>7, <2>8 DEF TypeOK
<1>10. NothingSpentYet'
  BY DEF Decide, NothingSpentYet
<1>11. ArmedIsFresh'
  <2>1. ASSUME NEW c \in Cars, led[c].state = "armed" PROVE since'[c] = 0
    <3>1. c \notin out
      BY <1>6, <2>1
    <3>2. ledger[c].state = "armed" \/ c \in Armed(ledger, armed)
      BY <1>4, <2>1
    <3>3. QED
      BY <1>2, <1>7, <3>1, <3>2 DEF IInv, ArmedIsFresh
  <2>2. QED
    BY <1>5, <2>1 DEF ArmedIsFresh
<1>12. HeldIsSpent'
  BY <1>5, <1>6 DEF HeldIsSpent
<1>13. OneHoldPerArming'
  <2>1. ASSUME NEW c \in Cars PROVE since'[c] <= 1
    <3>1. CASE c \in out
      <4>1. ledger[c].state = "armed" \/ c \in Armed(ledger, armed)
        BY <1>4, <1>6, <3>1
      <4>2. QED
        BY <1>2, <1>7, <3>1, <4>1 DEF IInv, ArmedIsFresh
    <3>2. CASE c \notin out
      BY <1>2, <1>7, <3>2 DEF IInv, OneHoldPerArming
    <3>3. QED
      BY <3>1, <3>2
  <2>2. QED
    BY <2>1 DEF OneHoldPerArming
<1>14. QED
  BY <1>8, <1>9, <1>10, <1>11, <1>12, <1>13 DEF IInv

-----------------------------------------------------------------------------
(* Every step keeps the strengthening. *)
LEMMA NextIInv == IInv /\ [Next]_vars => IInv'
<1> SUFFICES ASSUME IInv, [Next]_vars PROVE IInv'
  OBVIOUS
<1>1. CASE World
  <2>1. TypeOK'
    <3>1. /\ phase' \in {"world", "decide", "fire"} /\ decides' \in BOOLEAN
          /\ booked' \in [Cars -> BOOLEAN]
      BY <1>1 DEF World, IInv, TypeOK
    <3>2. place' \in [Cars -> {"out", "gate", "staged", "sent"}]
      BY <1>1 DEF World, IInv, TypeOK
    <3>3. ledger' \in [Cars -> [state : DeferralStates, now : BOOLEAN, count : Nat]]
      BY <1>1, ZenonT(30) DEF World, IInv, TypeOK
    <3>4. QED
      BY <1>1, <3>1, <3>2, <3>3 DEF World, IInv, TypeOK
  <2>2. \A c \in Cars : ledger'[c].state = ledger[c].state /\ ~ledger'[c].now
    BY <1>1 DEF World, IInv, TypeOK
  <2>3. UNCHANGED <<held, since>>
    BY <1>1 DEF World
  <2>4. QED
    BY <2>1, <2>2, <2>3 DEF IInv, TypeOK, NothingSpentYet, ArmedIsFresh, HeldIsSpent, OneHoldPerArming
<1>2. CASE Fire
  <2>1. PICK S \in SUBSET Cars :
          /\ ledger' = Refreshed(ledger, S)
          /\ since' = Restarted(since, Armed(ledger, Refreshed(ledger, S)))
    BY <1>2 DEF Fire
  <2>2. QED
    BY <1>2, <2>1, ArmingKeepsIInv DEF Fire, Refreshed
<1>3. CASE HandOff
  <2>1. PICK S \in SUBSET Candidates :
          /\ ledger' = Arm(ledger, S)
          /\ since' = Restarted(since, Armed(ledger, Arm(ledger, S)))
    BY <1>3 DEF HandOff
  <2>2. QED
    BY <1>3, <2>1, ArmingKeepsIInv DEF HandOff, IInv, TypeOK
<1>4. CASE Decide
  BY <1>4, DecideKeepsIInv
<1>5. CASE DecideFails
  BY <1>5 DEF DecideFails, IInv, TypeOK, NothingSpentYet, ArmedIsFresh, HeldIsSpent, OneHoldPerArming
<1>6. ASSUME NEW c \in Cars, Ages(c) PROVE IInv'
  BY <1>6 DEF Ages, IInv, TypeOK, NothingSpentYet, ArmedIsFresh, HeldIsSpent, OneHoldPerArming
<1>7. ASSUME NEW c \in Cars, NEW a \in Answers, Submit(c, a) PROVE IInv'
  BY <1>7 DEF Submit, Answers, IInv, TypeOK, NothingSpentYet, ArmedIsFresh, HeldIsSpent, OneHoldPerArming
<1>8. CASE UNCHANGED vars
  BY <1>8 DEF vars, IInv, TypeOK, NothingSpentYet, ArmedIsFresh, HeldIsSpent, OneHoldPerArming
<1>9. QED
  BY <1>1, <1>2, <1>3, <1>4, <1>5, <1>6, <1>7, <1>8 DEF Next

(* The strengthening is an invariant. *)
LEMMA Inductive == Spec => []IInv
<1>1. QED
  BY InitIInv, NextIInv, PTL DEF Spec

(* The types of the deferral ledger, the queue and the histories hold throughout every run. *)
THEOREM RefusalTypes == Spec => []TypeOK
<1>1. IInv => TypeOK
  BY DEF IInv
<1>2. QED
  BY Inductive, <1>1, PTL

(* ottoq_cuopt_defer_arm, _roll, _hold: an arming is spent on one decide beat, however often a roll fails. *)
THEOREM AnArmingBuysOneHold == Spec => []OneHoldPerArming
<1>1. IInv => OneHoldPerArming
  BY DEF IInv
<1>2. QED
  BY Inductive, <1>1, PTL

(* A decide beat never holds out a car that the last decide beat held out. *)
THEOREM AHoldIsNeverRepeated == Spec => HeldThenLetIn
<1>1. IInv /\ [Next]_vars => [Decide => held' \cap held = {}]_vars
  BY DecideKeepsIInv
<1>2. QED
  BY Inductive, <1>1, PTL DEF Spec, HeldThenLetIn

-----------------------------------------------------------------------------
(* The agent's chain without its hand-off: every arming is ottoq_cuopt_first_refusal_arm's, which   *)
(* counts it. The held beats never outnumber the armings, and one is still to come while a row is   *)
(* armed.                                                                                            *)
Counted(led) == \A c \in Cars : /\ led[c].count <= Cap /\ total[c] <= led[c].count
                                /\ led[c].state = "armed" => total[c] < led[c].count

(* An arming of cars below the cap keeps the count. *)
LEMMA ArmingCounts ==
  ASSUME NEW led \in [Cars -> Deferral], NEW S, total \in [Cars -> Nat],
         S \subseteq Unanswered(led), Counted(led)
  PROVE  Counted(Arm(led, S))
<1>1. SUFFICES ASSUME NEW c \in Cars
               PROVE  /\ Arm(led, S)[c].count <= Cap /\ total[c] <= Arm(led, S)[c].count
                      /\ Arm(led, S)[c].state = "armed" => total[c] < Arm(led, S)[c].count
  BY DEF Counted
<1>2. Arm(led, S)[c] = IF c \in S /\ Armable(led, c)
                       THEN [state |-> "armed", now |-> FALSE, count |-> OneMore(led[c].count)]
                       ELSE led[c]
  BY DEF Arm
<1>3. led[c] \in Deferral /\ total[c] \in Nat /\ Cap \in Nat
  BY CapAssumption
<1>4. c \in S => led[c].count < Cap
  BY DEF Unanswered
<1>5. QED
  BY <1>2, <1>3, <1>4 DEF Counted, Deferral, OneMore

(* Both armings of a beat are of cars below the cap. *)
LEMMA BeatCounts ==
  ASSUME Chain, total \in [Cars -> Nat], ledger \in [Cars -> Deferral], Counted(ledger), NEW S, NEW low
  PROVE  /\ Refreshed(ledger, S) \in [Cars -> Deferral] /\ Counted(Refreshed(ledger, S))
         /\ ArmedFor(S, low) \in [Cars -> Deferral] /\ Counted(ArmedFor(S, low))
<1>1. Refreshed(ledger, S) = Arm(ledger, S \cap Unanswered(ledger))
  BY DEF Refreshed
<1>2. Refreshed(ledger, S) \in [Cars -> Deferral] /\ Counted(Refreshed(ledger, S))
  BY <1>1, ArmTypes, ArmingCounts
<1>3. QED
  BY <1>2, ArmTypes, ArmingCounts DEF ArmedFor

(* A decide beat: a car it holds was armed, so a hold was still to come. *)
LEMMA DecideCounts ==
  ASSUME Chain, IInv, Counted(ledger), Decide
  PROVE  Counted(ledger)'
<1>1. PICK S \in SUBSET Cars, low \in SUBSET Cars, rolls \in BOOLEAN :
        Cursor(ArmedFor(S, low), IF rolls THEN Roll(ArmedFor(S, low)) ELSE ArmedFor(S, low))
  BY DEF Decide
<1> DEFINE armed == ArmedFor(S, low)
           led == IF rolls THEN Roll(armed) ELSE armed
<1>2. total \in [Cars -> Nat] /\ ledger \in [Cars -> Deferral]
  BY DEF IInv, TypeOK, Deferral
<1>3. armed \in [Cars -> Deferral] /\ Counted(armed)
  BY <1>2, BeatCounts
<1>4. \A c \in Cars : ~ledger[c].now
  BY DEF IInv, NothingSpentYet, Decide
<1>5. \A c \in Cars : led[c].now => armed[c].state = "armed"
  BY <1>2, <1>4, BeatLedger DEF ArmedFor, Refreshed
<1>6. /\ ledger' = led
      /\ total' = [c \in Cars |-> IF c \in {d \in Queue : Holds(led, d)} THEN OneMore(total[c]) ELSE total[c]]
  BY <1>1 DEF Cursor
<1>7. SUFFICES ASSUME NEW c \in Cars
               PROVE  /\ led[c].count <= Cap /\ total'[c] <= led[c].count
                      /\ led[c].state = "armed" => total'[c] < led[c].count
  BY <1>6 DEF Counted
<1>8. /\ led[c].count = armed[c].count
      /\ led[c].state = "armed" => armed[c].state = "armed"
  <2>1. CASE rolls
    <3>1. armed[c] \in Deferral
      BY <1>3
    <3>2. Roll(armed)[c] = CASE armed[c].state = "spent" /\ ~armed[c].now -> [armed[c] EXCEPT !.state = "clear"]
                             [] armed[c].state = "armed" -> [armed[c] EXCEPT !.state = "spent", !.now = TRUE]
                             [] OTHER -> armed[c]
      BY DEF Roll
    <3> HIDE DEF armed
    <3>3. QED
      BY <2>1, <3>1, <3>2 DEF Deferral, DeferralStates
  <2>2. CASE ~rolls
    BY <2>2
  <2>3. QED
    BY <2>1, <2>2
<1>9. total'[c] = IF Holds(led, c) /\ c \in Queue THEN OneMore(total[c]) ELSE total[c]
  BY <1>6
<1>10. Holds(led, c) => armed[c].state = "armed" /\ led[c].state = "spent"
  BY <1>5 DEF Holds
<1>11. total[c] \in Nat /\ armed[c] \in Deferral /\ Cap \in Nat
  BY <1>2, <1>3, CapAssumption
<1> HIDE DEF armed, led
<1>12. QED
  BY <1>3, <1>8, <1>9, <1>10, <1>11 DEF Counted, OneMore, Deferral

(* cuopt_first_refusal_max_defers, while the chain is on and hands nothing off: a car is held at     *)
(* most that many beats of a run.                                                                    *)
THEOREM HeldAtMostCapTimes == ASSUME Chain, ~HandsOff PROVE Spec => []HoldsWithinCap
<1> DEFINE HoldsCounted == Counted(ledger)
<1>1. Init => HoldsCounted
  <2>1. SUFFICES ASSUME Init, NEW c \in Cars
                 PROVE  /\ ledger[c].count <= Cap /\ total[c] <= ledger[c].count
                        /\ ledger[c].state = "armed" => total[c] < ledger[c].count
    BY DEF Counted
  <2>2. ledger[c] = [state |-> "none", now |-> FALSE, count |-> 0] /\ total[c] = 0
    BY <2>1 DEF Init
  <2>3. QED
    BY <2>2, CapAssumption
<1>2. IInv /\ HoldsCounted /\ [Next]_vars => HoldsCounted'
  <2>1. SUFFICES ASSUME IInv, Counted(ledger), [Next]_vars PROVE Counted(ledger)'
    OBVIOUS
  <2>2. total \in [Cars -> Nat] /\ ledger \in [Cars -> Deferral]
    BY <2>1 DEF IInv, TypeOK, Deferral
  <2>3. CASE World
    BY <2>1, <2>2, <2>3 DEF World, Counted, Deferral
  <2>4. CASE Fire
    <3>1. PICK S \in SUBSET Cars : ledger' = Refreshed(ledger, S)
      BY <2>4 DEF Fire
    <3>2. Counted(Refreshed(ledger, S))
      BY <2>1, <2>2, BeatCounts
    <3>3. QED
      BY <2>4, <3>1, <3>2 DEF Fire, Counted
  <2>5. CASE HandOff
    BY <2>5 DEF HandOff
  <2>6. CASE Decide
    BY <2>1, <2>6, DecideCounts
  <2>7. CASE DecideFails
    BY <2>1, <2>7 DEF DecideFails, Counted
  <2>8. ASSUME NEW c \in Cars, Ages(c) PROVE Counted(ledger)'
    BY <2>1, <2>8 DEF Ages, Counted
  <2>9. ASSUME NEW c \in Cars, NEW a \in Answers, Submit(c, a) PROVE Counted(ledger)'
    BY <2>1, <2>9 DEF Submit, Counted
  <2>10. CASE UNCHANGED vars
    BY <2>1, <2>10 DEF vars, Counted
  <2>11. QED
    BY <2>1, <2>3, <2>4, <2>5, <2>6, <2>7, <2>8, <2>9, <2>10 DEF Next
<1>3. IInv /\ HoldsCounted => HoldsWithinCap
  <2>1. SUFFICES ASSUME IInv, Counted(ledger), NEW c \in Cars PROVE total[c] <= Cap
    BY DEF HoldsWithinCap
  <2>2. total[c] \in Nat /\ ledger[c].count \in Nat /\ Cap \in Nat
    BY <2>1, CapAssumption DEF IInv, TypeOK
  <2>3. QED
    BY <2>1, <2>2 DEF Counted
<1> HIDE DEF HoldsCounted
<1>4. QED
  BY Inductive, <1>1, <1>2, <1>3, PTL DEF Spec

-----------------------------------------------------------------------------
(***************************************************************************)
(* Seats agree and no other car takes the stall of a command in force, for *)
(* any yard, any stalls and any tick. Behind it: a command in force is one *)
(* the depot still keeps as issued, and the hold on its stall is the car's *)
(* own and outlasts it, whoever refreshed, extended or renewed that hold.  *)
(***************************************************************************)

Conds == {"inbound", "gate", "staged", "charging", "ready", "towed"}
Commands == [stall : Stalls, age : {0, 1}]

BookTypes ==
  /\ seat \in [Stalls -> Yard \cup {Nobody}] /\ at \in [Yard -> Stalls \cup {Nobody}]
  /\ cond \in [Yard -> Conds]
  /\ holder \in [Stalls -> Yard \cup {Nobody}] /\ left \in [Stalls -> Int]
  /\ cmds \in [Yard -> SUBSET Commands]
  /\ word \in [Yard -> Stalls \cup {Nobody}]

(* The hold that stands for a car's word: its own, on an empty stall, for as long as each command there. *)
Kept(c, s) ==
  /\ seat[s] = Nobody /\ holder[s] = c
  /\ \E m \in cmds[c] : m.stall = s
  /\ \A m \in cmds[c] : m.stall = s => left[s] >= Tick /\ (m.age = 0 => left[s] >= 2 * Tick)
WordsAreKept == \A c \in Yard : word[c] # Nobody => Kept(c, word[c])

BInv == BookTypes /\ SeatsAgree /\ WordsAreKept

-----------------------------------------------------------------------------
(* Initially nobody sits, holds or has been told anything. *)
LEMMA BookStarts == ASSUME BookInit PROVE BInv
  BY NobodyAssumption DEF BookInit, BInv, BookTypes, Conds, SeatsAgree, WordsAreKept

(* The newest of a car's commands is one of them. *)
LEMMA NewestIsOne ==
  ASSUME NEW S \in SUBSET Commands, S # {}
  PROVE  Newest(S) \in S
<1>1. \E m \in S : \A n \in S : m.age <= n.age
  <2>1. CASE \E m \in S : m.age = 0
    BY <2>1 DEF Commands
  <2>2. CASE ~ \E m \in S : m.age = 0
    BY <2>2 DEF Commands
  <2> QED BY <2>1, <2>2
<1> QED BY <1>1 DEF Newest

(* The steps that move cars and leave the book of holds and commands alone. *)
LEMMA MovingKeeps ==
  ASSUME BInv, NEW c \in Yard, Arrive(c) \/ Park(c) \/ Leave(c)
  PROVE  BInv'
<1> USE DEF Arrive, Park, Leave, Stay
<1>1. BookTypes'
  BY DEF BInv, BookTypes, Conds
<1>2. SeatsAgree' /\ WordsAreKept'
  BY DEF BInv, SeatsAgree, WordsAreKept, Kept
<1> QED BY <1>1, <1>2 DEF BInv

(* A car that leaves its stall frees nobody's word: its stall was taken. *)
LEMMA VacatesKeeps ==
  ASSUME BInv, NEW c \in Yard, Vacates(c),
         UNCHANGED <<left, cmds, word>>,
         \A s \in Stalls : s # at[c] => holder'[s] = holder[s],
         holder' \in [Stalls -> Yard \cup {Nobody}],
         cond' \in [Yard -> Conds]
  PROVE  BInv'
<1>1. BookTypes'
  BY NobodyAssumption DEF BInv, BookTypes, Vacates
<1>2. SeatsAgree'
  BY NobodyAssumption DEF BInv, BookTypes, SeatsAgree, Vacates
<1>3. \A d \in Yard : word[d] # Nobody => word[d] # at[c]
  BY NobodyAssumption DEF BInv, BookTypes, SeatsAgree, WordsAreKept, Kept
<1>4. WordsAreKept'
  BY <1>3, NobodyAssumption DEF BInv, BookTypes, WordsAreKept, Kept, Vacates
<1> QED BY <1>1, <1>2, <1>4 DEF BInv

(* A charge that is done vacates its stall or stays, and either keeps the invariant. *)
LEMMA ChargeDoneKeeps ==
  ASSUME BInv, NEW c \in Yard, ChargeDone(c)
  PROVE  BInv'
<1>1. holder' \in [Stalls -> Yard \cup {Nobody}] /\ \A s \in Stalls : s # at[c] => holder'[s] = holder[s]
  BY DEF BInv, BookTypes, ChargeDone
<1>2. cond' \in [Yard -> Conds]
  BY DEF BInv, BookTypes, Conds, ChargeDone
<1> QED BY <1>1, <1>2, VacatesKeeps DEF ChargeDone, Stay

(* So does a tow. *)
LEMMA TowKeeps ==
  ASSUME BInv, NEW c \in Yard, Tow(c)
  PROVE  BInv'
<1>1. cond' \in [Yard -> Conds]
  BY DEF BInv, BookTypes, Conds, Tow
<1>2. holder' \in [Stalls -> Yard \cup {Nobody}] /\ \A s \in Stalls : s # at[c] => holder'[s] = holder[s]
  BY DEF BInv, BookTypes, Tow
<1> QED BY <1>1, <1>2, VacatesKeeps DEF Tow, Stay

-----------------------------------------------------------------------------
(* A tick later the hold and each command are a tick shorter, and a word whose command ends is over. *)
LEMMA AdvanceKeeps == ASSUME BInv, Advance PROVE BInv'
<1> DEFINE Older(c) == {[m EXCEPT !.age = m.age + 1] : m \in {m \in cmds[c] : m.age + 1 < InForce}}
<1>1. cmds' = [c \in Yard |-> Older(c)]
  BY DEF Advance
<1>2. ASSUME NEW c \in Yard
      PROVE  \A n \in Older(c) : n.age = 1 /\ n.stall \in Stalls /\ n \in Commands
                                   /\ \E m \in cmds[c] : m.stall = n.stall /\ m.age = 0
  BY <1>2 DEF BInv, BookTypes, Commands, InForce
<1>3. BookTypes'
  <2>1. cmds' \in [Yard -> SUBSET Commands]
    BY <1>1, <1>2
  <2>2. left' \in [Stalls -> Int]
    BY TickAssumption DEF BInv, BookTypes, Advance, Greater
  <2>3. word' \in [Yard -> Stalls \cup {Nobody}]
    BY DEF BInv, BookTypes, Advance
  <2> QED BY <2>1, <2>2, <2>3 DEF BInv, BookTypes, Advance
<1>4. SeatsAgree'
  BY DEF BInv, SeatsAgree, Advance
<1>5. ASSUME NEW c \in Yard, word'[c] # Nobody
      PROVE  Kept(c, word[c])'
  <2>1. word'[c] = word[c] /\ word[c] \in {m.stall : m \in cmds'[c]}
    BY <1>5 DEF Advance
  <2>2. word[c] \in Stalls /\ Kept(c, word[c])
    BY <1>5, <2>1 DEF BInv, BookTypes, WordsAreKept
  <2>3. \A n \in cmds'[c] : n.stall = word[c] => n.age = 1 /\ left[word[c]] >= 2 * Tick
    BY <1>1, <1>2, <2>2 DEF Kept
  <2>4. \E n \in cmds'[c] : n.stall = word[c]
    BY <2>1
  <2>5. left'[word[c]] = Greater(left[word[c]] - Tick, -1)
    BY <2>2 DEF Advance
  <2>6. left'[word[c]] >= Tick
    BY <2>2, <2>3, <2>4, <2>5, TickAssumption DEF Greater, BInv, BookTypes
  <2>7. seat'[word[c]] = Nobody /\ holder'[word[c]] = c
    BY <2>2 DEF Kept, Advance
  <2> QED BY <2>1, <2>3, <2>4, <2>6, <2>7 DEF Kept
<1> QED BY <1>3, <1>4, <1>5 DEF BInv, WordsAreKept

-----------------------------------------------------------------------------
(* A contract takes no stall that is held, or holds its own longer. *)
LEMMA ContractKeeps ==
  ASSUME BInv, NEW c \in Yard, NEW s \in Stalls, Contract(c, s)
  PROVE  BInv'
<1>1. BookTypes'
  BY DEF BInv, BookTypes, Contract, Held, ContractHold
<1>2. SeatsAgree'
  BY DEF BInv, SeatsAgree, Contract
<1>3. \A d \in Yard : word[d] # Nobody => word[d] # s
  BY NobodyAssumption, TickAssumption DEF BInv, BookTypes, WordsAreKept, Kept, Contract
<1>4. WordsAreKept'
  BY <1>3 DEF BInv, BookTypes, WordsAreKept, Kept, Contract, Held
<1> QED BY <1>1, <1>2, <1>4 DEF BInv

(* A refresh shortens no hold. *)
LEMMA RefreshKeeps == ASSUME BInv, Refresh PROVE BInv'
<1>1. BookTypes' /\ \A s \in Stalls : left'[s] >= left[s]
  BY DEF BInv, BookTypes, Refresh
<1>2. SeatsAgree'
  BY DEF BInv, SeatsAgree, Refresh
<1>3. ASSUME NEW c \in Yard, word'[c] # Nobody
      PROVE  Kept(c, word[c])'
  <2>1. word'[c] = word[c] /\ cmds' = cmds /\ seat' = seat /\ holder' = holder
    BY DEF Refresh
  <2>2. word[c] \in Stalls /\ Kept(c, word[c])
    BY <1>3, <2>1 DEF BInv, BookTypes, WordsAreKept
  <2>3. left'[word[c]] >= left[word[c]] /\ left[word[c]] \in Int /\ left'[word[c]] \in Int
    BY <1>1, <2>2 DEF BInv, BookTypes
  <2> QED BY <2>1, <2>2, <2>3, TickAssumption DEF Kept
<1> QED BY <1>1, <1>2, <1>3 DEF BInv, WordsAreKept

(* The walk: who may sit takes no stall that is another's word, and a car that is answered has none left. *)
LEMMA CarryOutKeeps ==
  ASSUME BInv, NEW c \in Yard, NEW heard \in BOOLEAN, CarryOut(c, heard), UNCHANGED <<holder, left>>
  PROVE  BInv'
<1> DEFINE s == Newest(cmds[c]).stall
           sits == CanSit(c, s) /\ cond[c] # "inbound"
<1>1. s \in Stalls
  BY NewestIsOne DEF BInv, BookTypes, CarryOut, Commands
<1>2. sits => /\ seat' = [x \in Stalls |-> CASE x = s -> c
                                             [] x # s /\ (seat[x] = c \/ x = at[c]) -> Nobody
                                             [] OTHER -> seat[x]]
              /\ at' = [at EXCEPT ![c] = s]
              /\ cond' = [cond EXCEPT ![c] = "charging"]
  BY DEF CarryOut
<1>3. ~sits => UNCHANGED <<seat, at, cond>>
  BY DEF CarryOut
<1>4. word' = IF heard \/ sits THEN [word EXCEPT ![c] = Nobody] ELSE word
  BY DEF CarryOut
<1>5. cmds' = IF heard THEN [cmds EXCEPT ![c] = {}] ELSE cmds
  BY DEF CarryOut
<1> HIDE DEF s, sits
<1>6. BookTypes'
  BY <1>1, <1>2, <1>3, <1>4, <1>5 DEF BInv, BookTypes, Conds
<1>7. SeatsAgree'
  <2>1. CASE sits
    BY <2>1, <1>1, <1>2, NobodyAssumption DEF BInv, BookTypes, SeatsAgree, sits, CanSit
  <2>2. CASE ~sits
    BY <2>2, <1>3 DEF BInv, SeatsAgree
  <2> QED BY <2>1, <2>2
<1>8. ASSUME NEW d \in Yard, word'[d] # Nobody
      PROVE  Kept(d, word[d])'
  <2>1. word'[d] = word[d] /\ word[d] \in Stalls /\ Kept(d, word[d])
    BY <1>4, <1>8 DEF BInv, BookTypes, WordsAreKept
  <2>2. cmds'[d] = cmds[d]
    BY <1>4, <1>5, <1>8 DEF BInv, BookTypes
  <2>3. sits => d # c
    BY <1>4, <1>8 DEF BInv, BookTypes
  <2>4. sits => s # word[d]
    BY <2>1, <2>3, <1>1, NobodyAssumption, TickAssumption DEF sits, CanSit, Kept, BInv, BookTypes
  <2>5. seat'[word[d]] = Nobody
    BY <2>1, <2>4, <1>2, <1>3 DEF Kept
  <2> QED BY <2>1, <2>2, <2>5 DEF Kept
<1> QED BY <1>6, <1>7, <1>8 DEF BInv, WordsAreKept

-----------------------------------------------------------------------------
(* A hold that is reclaimed under a word in force takes the word with it. *)
LEMMA ReclaimKeeps == ASSUME BInv, Reclaim PROVE BInv'
<1>1. PICK backed \in SUBSET Stalls :
        /\ holder' = [s \in Stalls |-> IF Reclaimed(s, backed) THEN Nobody ELSE holder[s]]
        /\ word' = [c \in Yard |-> IF word[c] # Nobody /\ Withdrawn(c, word[c], backed) THEN Nobody ELSE word[c]]
  BY DEF Reclaim
<1>2. BookTypes'
  BY <1>1 DEF BInv, BookTypes, Reclaim
<1>3. SeatsAgree'
  BY DEF BInv, SeatsAgree, Reclaim
<1>4. ASSUME NEW c \in Yard, word'[c] # Nobody
      PROVE  Kept(c, word[c])'
  <2>1. word'[c] = word[c] /\ ~Withdrawn(c, word[c], backed)
    BY <1>1, <1>4
  <2>2. word[c] \in Stalls /\ Kept(c, word[c])
    BY <1>4, <2>1 DEF BInv, BookTypes, WordsAreKept
  <2>3. left[word[c]] \in Int /\ left[word[c]] >= Tick
    BY <2>2 DEF BInv, BookTypes, Kept
  <2>4. ~Reclaimed(word[c], backed)
    BY <2>1, <2>2, <2>3, TickAssumption DEF Reclaimed, Kept
  <2>5. holder'[word[c]] = c
    BY <1>1, <2>2, <2>4 DEF Kept
  <2> QED BY <2>1, <2>2, <2>5 DEF Kept, Reclaim
<1> QED BY <1>2, <1>3, <1>4 DEF BInv, WordsAreKept

(* Whoever may reserve a stall takes it from no car it was promised to. *)
LEMMA PromisedToNoOther ==
  ASSUME BInv, NEW c \in Yard, NEW s \in Stalls, MayReserve(c, s)
  PROVE  \A d \in Yard \ {c} : word[d] # s
  BY NobodyAssumption, TickAssumption DEF BInv, BookTypes, WordsAreKept, Kept, MayReserve

(* An accepted command: its hold is the car's own, on an empty stall, and covers its life. *)
LEMMA AcceptedKeeps ==
  ASSUME BInv, NEW c \in Yard, NEW s \in Stalls, MayReserve(c, s),
         NEW time \in {DecideHold, RerouteHold}, Accepted(c, s, time), UNCHANGED <<seat, at, cond>>
  PROVE  BInv'
<1>1. Covered(time) \in Int /\ Covered(time) >= 2 * Tick
  BY TickAssumption DEF Covered, Greater, InForce, DecideHold, RerouteHold
<1>2. BookTypes'
  <2>1. [stall |-> s, age |-> 0] \in Commands
    BY DEF Commands
  <2> QED BY <1>1, <2>1 DEF BInv, BookTypes, Accepted, Held
<1>3. SeatsAgree'
  BY DEF BInv, SeatsAgree
<1>4. Kept(c, s)'
  <2>1. seat'[s] = Nobody /\ holder'[s] = c /\ left'[s] = Covered(time)
    BY DEF BInv, BookTypes, Accepted, Held, MayReserve
  <2>2. \E m \in cmds'[c] : m.stall = s
    <3>1. [stall |-> s, age |-> 0] \in cmds'[c]
      BY DEF BInv, BookTypes, Accepted
    <3> QED BY <3>1
  <2>3. left'[s] >= Tick /\ left'[s] >= 2 * Tick
    BY <1>1, <2>1, TickAssumption
  <2> QED BY <2>1, <2>2, <2>3 DEF Kept
<1>5. ASSUME NEW d \in Yard, word'[d] # Nobody
      PROVE  Kept(d, word[d])'
  <2>1. CASE d = c
    BY <2>1, <1>4 DEF BInv, BookTypes, Accepted
  <2>2. CASE d # c
    <3>1. word'[d] = word[d] /\ word[d] \in Stalls /\ word[d] # s /\ Kept(d, word[d])
      BY <2>2, <1>5, PromisedToNoOther DEF BInv, BookTypes, WordsAreKept, Accepted
    <3> QED BY <2>2, <3>1 DEF BInv, BookTypes, Kept, Accepted, Held
  <2> QED BY <2>1, <2>2
<1> QED BY <1>2, <1>3, <1>5 DEF BInv, WordsAreKept

(* A refused one: the car has no word, and the stall's hold was nobody else's word. *)
LEMMA DeniedKeeps ==
  ASSUME BInv, NEW c \in Yard, NEW s \in Stalls, MayReserve(c, s), Denied(c, s),
         UNCHANGED <<seat, at, cond>>,
         holder' \in [Stalls -> Yard \cup {Nobody}], left' \in [Stalls -> Int],
         \A x \in Stalls \ {s} : holder'[x] = holder[x] /\ left'[x] = left[x]
  PROVE  BInv'
<1>1. BookTypes' /\ SeatsAgree'
  BY DEF BInv, BookTypes, SeatsAgree, Denied
<1>2. ASSUME NEW d \in Yard, word'[d] # Nobody
      PROVE  Kept(d, word[d])'
  <2>1. d # c /\ word'[d] = word[d]
    BY <1>2 DEF BInv, BookTypes, Denied
  <2>2. word[d] \in Stalls \ {s} /\ Kept(d, word[d])
    BY <1>2, <2>1, PromisedToNoOther DEF BInv, BookTypes, WordsAreKept
  <2> QED BY <2>1, <2>2 DEF Kept, Denied
<1> QED BY <1>1, <1>2 DEF BInv, WordsAreKept

(* An assignment is accepted or denied, and either keeps it. *)
LEMMA AssignKeeps ==
  ASSUME BInv, NEW c \in Yard, NEW s \in Stalls, Assign(c, s)
  PROVE  BInv'
<1>1. CASE Accepted(c, s, DecideHold)
  BY <1>1, AcceptedKeeps DEF Assign
<1>2. CASE Denied(c, s) /\ holder' = [holder EXCEPT ![s] = Nobody] /\ left' = left
  BY <1>2, DeniedKeeps DEF Assign, BInv, BookTypes
<1> QED BY <1>1, <1>2 DEF Assign

(* So is a reroute. *)
LEMMA RerouteKeeps ==
  ASSUME BInv, NEW c \in Yard, NEW s \in Stalls, Reroute(c, s)
  PROVE  BInv'
<1>1. CASE Accepted(c, s, RerouteHold)
  BY <1>1, AcceptedKeeps DEF Reroute
<1>2. CASE Denied(c, s) /\ Held(c, s, RerouteHold)
  <2>1. holder' \in [Stalls -> Yard \cup {Nobody}] /\ left' \in [Stalls -> Int]
    BY <1>2 DEF BInv, BookTypes, Held, RerouteHold
  <2>2. \A x \in Stalls \ {s} : holder'[x] = holder[x] /\ left'[x] = left[x]
    BY <1>2 DEF BInv, BookTypes, Held
  <2> QED BY <1>2, <2>1, <2>2, DeniedKeeps DEF Reroute
<1> QED BY <1>1, <1>2 DEF Reroute

-----------------------------------------------------------------------------
(* The invariant: types, seats and words, for every yard, stalls and tick. *)
THEOREM BookInvariant == BookSpec => []BInv
<1>1. BookInit => BInv
  BY BookStarts
<1>2. BInv /\ [BookNext]_bookVars => BInv'
  <2> SUFFICES ASSUME BInv, [BookNext]_bookVars PROVE BInv'
    OBVIOUS
  <2>1. CASE UNCHANGED bookVars \/ Walked \/ NoDecide \/ Decided \/ Reacted
    BY <2>1 DEF bookVars, Walked, NoDecide, Decided, Reacted,
                BInv, BookTypes, SeatsAgree, WordsAreKept, Kept
  <2>2. CASE Advance
    BY <2>2, AdvanceKeeps
  <2>3. CASE Refresh
    BY <2>3, RefreshKeeps
  <2>4. CASE Reclaim
    BY <2>4, ReclaimKeeps
  <2>5. ASSUME NEW c \in Yard, Arrive(c) \/ Park(c) \/ Leave(c) PROVE BInv'
    BY <2>5, MovingKeeps
  <2>6. ASSUME NEW c \in Yard, ChargeDone(c) \/ Tow(c) PROVE BInv'
    BY <2>6, ChargeDoneKeeps, TowKeeps
  <2>7. ASSUME NEW c \in Yard, Walk(c) \/ Operate(c) PROVE BInv'
    BY <2>7, CarryOutKeeps DEF Walk, Operate
  <2>8. ASSUME NEW c \in Yard, NEW s \in Stalls, Contract(c, s) \/ Assign(c, s) \/ Reroute(c, s) PROVE BInv'
    BY <2>8, ContractKeeps, AssignKeeps, RerouteKeeps
  <2> QED BY <2>1, <2>2, <2>3, <2>4, <2>5, <2>6, <2>7, <2>8 DEF BookNext
<1> QED BY <1>1, <1>2, PTL DEF BookSpec

(* StallsAreKept: seats agree on both sides, and while a waiting car's command is in force and not *)
(* carried out, no other car sits in its stall or holds it (0064).                                 *)
THEOREM NoWalkFindsItsStallTaken == BookSpec => []StallsAreKept
<1>1. BInv => StallsAreKept
  BY DEF BInv, WordsAreKept, Kept, StallsAreKept, HoldOutlivesItsCommand
<1> QED BY <1>1, BookInvariant, PTL
=============================================================================
