----------------------------- MODULE LlmProposer -----------------------------
(***************************************************************************)
(* bridge/llm_proposer.py.  First what needs no clock and no file: the     *)
(* digest the model is shown, and the rows its answer becomes.  Then       *)
(* run_live: priced fires by one-shot processes that share a spend file.   *)
(* A vehicle's id and a stall's id are numbers, in the order the code      *)
(* compares them; an answer is the sequence of entries the model wrote, or *)
(* Malformed.                                                              *)
(***************************************************************************)
EXTENDS Integers, Sequences, FiniteSets, SequencesExt, FiniteSetsExt

CONSTANTS Unread,      \* a quantity that does not parse
          Malformed,   \* no JSON object with a list of proposals
          NoStall,     \* null or empty in an entry, and what an abstaining row holds
          Unhashable   \* a list or an object where an entry should have an id

ASSUME MarksAssumption == NoStall # Unhashable

Lesser(a, b) == IF a < b THEN a ELSE b
Ids(seq) == {seq[i].id : i \in DOMAIN seq}

(* A vehicle in a serviceable state with a readable charge; a stall that   *)
(* charges, taken ones included.                                           *)
IsShown(v) == v.serviceable /\ v.soc # Unread
CanCharge(s) == s.type # "staging" /\ s.kw # Unread /\ s.kw > 0
NeedsItMore(v, w) == v.soc < w.soc \/ (v.soc = w.soc /\ v.id < w.id)
IsFaster(s, t) ==
  LET Slow(x) == IF x.type = "dcfc" THEN 0 ELSE 1
  IN  \/ Slow(s) < Slow(t)
      \/ Slow(s) = Slow(t) /\ (s.kw > t.kw \/ (s.kw = t.kw /\ s.id < t.id))

FrameDigest(frame, maxVehicles, maxStalls) ==
  LET vs == SortSeq(SelectSeq(frame.vehicles, IsShown), NeedsItMore)
      ss == SortSeq(SelectSeq(frame.stalls, CanCharge), IsFaster)
      Cut(seq, most) == SubSeq(seq, 1, Lesser(Len(seq), most))
  IN  [vehicles |-> Cut(vs, maxVehicles), stalls |-> Cut(ss, maxStalls),
       omitted |-> [vehicles |-> Len(vs) - Len(Cut(vs, maxVehicles)), stalls |-> Len(ss) - Len(Cut(ss, maxStalls))]]

---------------------------------------------------------------------------
(* An entry that is no object has no vehicle; the first entry of a vehicle *)
(* of the digest is heard.  A list or an object is no key of a table: to   *)
(* look one up among the vehicles or the stalls raises a TypeError.        *)
Entry(vehicle, stall, abstain) == [shape |-> "object", vehicle |-> vehicle, stall |-> stall, abstain |-> abstain]
Scrap == [shape |-> "scrap"]
IsAnswer(answer) == answer # Malformed
Names(p, id) == p.shape = "object" /\ p.vehicle = id
Refusal(answer, i, digest) ==
  LET p == answer[i]
  IN  IF p.shape = "scrap" THEN "malformed_proposal"
      ELSE IF p.vehicle = Unhashable THEN "type_error"
      ELSE IF p.vehicle \notin Ids(digest.vehicles) THEN "unknown_vehicle"
      ELSE IF \E j \in 1..(i - 1) : Names(answer[j], p.vehicle) THEN "duplicate_vehicle"
      ELSE "heard"
Heard_(answer, digest, id) ==
  {i \in DOMAIN answer : Names(answer[i], id) /\ Refusal(answer, i, digest) = "heard"}

(* What the digest's k-th vehicle would have, by the entry heard for it.   *)
Wanted(answer, digest, k) ==
  LET heard == Heard_(answer, digest, digest.vehicles[k].id)
      p == answer[CHOOSE i \in heard : TRUE]
  IN  IF heard = {} \/ p.abstain THEN NoStall ELSE p.stall
OutcomeOfTheLastStall(answer, digest, k) ==
  LET stall == Wanted(answer, digest, k)
      heard == Heard_(answer, digest, digest.vehicles[k].id)
  IN  IF heard = {} THEN "no_answer"
      ELSE IF stall = NoStall THEN "model_abstained"
      ELSE IF stall = Unhashable THEN "type_error"
      ELSE IF stall \notin Ids(digest.stalls) THEN "unknown_stall"
      ELSE IF k > 1 /\ Wanted(answer, digest, k - 1) = stall THEN "duplicate_stall"
      ELSE "planned"
Outcome(answer, digest, k) ==
  LET stall == Wanted(answer, digest, k)
      heard == Heard_(answer, digest, digest.vehicles[k].id)
  IN  IF heard = {} THEN "no_answer"
      ELSE IF stall = NoStall THEN "model_abstained"
      ELSE IF stall = Unhashable THEN "type_error"
      ELSE IF stall \notin Ids(digest.stalls) THEN "unknown_stall"
      ELSE IF \E j \in 1..(k - 1) : Wanted(answer, digest, j) = stall THEN "duplicate_stall"
      ELSE "planned"

(* The power is the stall's, within the inlet's where the inlet states one.*)
RequestedKw(vehicle, stall) == IF vehicle.inlet \in {Unread, 0} THEN stall.kw ELSE Lesser(stall.kw, vehicle.inlet)
AbstainRow(vehicle, by) == [vehicle |-> vehicle, stall |-> NoStall, kw |-> 0, by |-> by]
Raises(answer, digest) ==
  \/ \E i \in DOMAIN answer : Refusal(answer, i, digest) = "type_error"
  \/ \E k \in DOMAIN digest.vehicles : Outcome(answer, digest, k) = "type_error"
RowsFromAnswer(answer, digest) ==
  IF ~IsAnswer(answer)
  THEN [raised |-> FALSE, rows |-> [k \in DOMAIN digest.vehicles |-> AbstainRow(digest.vehicles[k].id, "harness")],
        rejections |-> <<"malformed_answer">>]
  ELSE IF Raises(answer, digest) THEN [raised |-> TRUE, rows |-> <<>>, rejections |-> <<>>]
  ELSE
    LET outcomes == [k \in DOMAIN digest.vehicles |-> Outcome(answer, digest, k)]
        Row(k) ==
          LET v == digest.vehicles[k]
              s == CHOOSE x \in ToSet(digest.stalls) : x.id = Wanted(answer, digest, k)
          IN  IF outcomes[k] = "planned"
              THEN [vehicle |-> v.id, stall |-> s.id, kw |-> RequestedKw(v, s), by |-> "planned"]
              ELSE AbstainRow(v.id, IF outcomes[k] = "model_abstained" THEN "model" ELSE "harness")
    IN  [raised |-> FALSE, rows |-> [k \in DOMAIN digest.vehicles |-> Row(k)],
         rejections |-> SelectSeq([i \in DOMAIN answer |-> Refusal(answer, i, digest)], LAMBDA r : r # "heard")
                          \o SelectSeq(outcomes, LAMBDA o : o \in {"unknown_stall", "duplicate_stall"})]

(* The record of a fire, which says "raised" of one that leaves none.      *)
Planned(rows) == {k \in DOMAIN rows : rows[k].stall # NoStall}
FireRecord(answer, digest) ==
  LET r == RowsFromAnswer(answer, digest)
      planned == Cardinality(Planned(r.rows))
  IN  [status |-> IF r.raised THEN "raised" ELSE IF planned > 0 THEN "proposed" ELSE "empty",
       rows |-> r.rows, planned |-> planned, abstained |-> Len(r.rows) - planned, rejections |-> r.rejections]

---------------------------------------------------------------------------
(* A process reads the spend file when it starts, checks the cap against   *)
(* what it read, calls the model, and writes back all it knows.  "paid"    *)
(* and the counters are what the world knows and no process does: what the *)
(* calls really cost, how many of them the file never learned of, how      *)
(* often it was lost, whether two processes met.                           *)
CONSTANTS Firings,     \* the processes a scheduler may have running
          Runs,        \* the engine's runs
          Cap,         \* cap_usd
          MaxCost,     \* what one call may cost
          MaxFires,    \* bound: processes started
          Torn         \* a spend file that does not parse

ASSUME AdvisorAssumption ==
  /\ Cap \in Nat /\ MaxCost \in Nat /\ MaxFires \in Nat /\ Cap + MaxCost > 0
  /\ Torn \notin [Runs -> Nat]

VARIABLES firing, spendFile, paid, unwritten, wipes, overlapped, started
advisorVars == <<firing, spendFile, paid, unwritten, wipes, overlapped, started>>

Nothing == [r \in Runs |-> 0]
Idle == [at |-> "idle"]
AdvisorInit ==
  /\ firing = [p \in Firings |-> Idle]
  /\ spendFile = Nothing
  /\ paid = Nothing
  /\ unwritten = Nothing
  /\ wipes = 0
  /\ overlapped = FALSE
  /\ started = 0

(* SpendLedger: without a file the memory is all there is, and a file that *)
(* does not parse is as none.                                              *)
Read(kept) == IF kept /\ spendFile # Torn THEN spendFile ELSE Nothing

Start(p, r, kept, priced) ==
  /\ firing[p].at = "idle"
  /\ started < MaxFires
  /\ firing' = [firing EXCEPT ![p] = [at |-> "started", run |-> r, kept |-> kept, priced |-> priced, memory |-> Read(kept)]]
  /\ started' = started + 1
  /\ overlapped' = (overlapped \/ \E q \in Firings \ {p} : firing[q].at # "idle")
  /\ UNCHANGED <<spendFile, paid, unwritten, wipes>>

(* A certification in flight, a run that is not running, another depot's.  *)
TurnAway(p) ==
  /\ firing[p].at = "started"
  /\ firing' = [firing EXCEPT ![p] = Idle]
  /\ UNCHANGED <<spendFile, paid, unwritten, wipes, overlapped, started>>

(* fire_llm up to the call.  An empty digest, an unpriced model nobody     *)
(* allowed and a spent cap end with a record and no rows.                  *)
MayAskAtTheCap(p) == firing[p].memory[firing[p].run] <= Cap
MayAsk(p) == firing[p].memory[firing[p].run] < Cap
Ask(p) ==
  /\ firing[p].at = "started"
  /\ MayAsk(p)
  /\ firing' = [firing EXCEPT ![p].at = "asking"]
  /\ UNCHANGED <<spendFile, paid, unwritten, wipes, overlapped, started>>
Decline(p, status) ==
  /\ firing[p].at = "started"
  /\ status = "refused_unpriced" => ~firing[p].priced
  /\ status = "refused_cap" => ~MayAsk(p)
  /\ firing' = [firing EXCEPT ![p].at = "fired"]
  /\ UNCHANGED <<spendFile, paid, unwritten, wipes, overlapped, started>>

(* cost_usd: a model without a row in the price table has no price.        *)
Usd(p, cost) == IF firing[p].priced THEN cost ELSE 0

(* A call that costs something and whose price no file learns of.          *)
IfItCosts(cost) == IF cost > 0 THEN 1 ELSE 0

(* The reply is priced, added to the memory, and the memory written over   *)
(* the file, the other runs' entries with it.                              *)
AddSpend(p, cost) ==
  LET f == firing[p]
      memory == [f.memory EXCEPT ![f.run] = @ + Usd(p, cost)]
  IN  IF Usd(p, cost) > 0
      THEN /\ firing' = [firing EXCEPT ![p] = [f EXCEPT !.at = "fired", !.memory = memory]]
           /\ spendFile' = IF f.kept THEN memory ELSE spendFile
           /\ unwritten' = IF f.kept THEN unwritten ELSE [unwritten EXCEPT ![f.run] = @ + IfItCosts(cost)]
      ELSE /\ firing' = [firing EXCEPT ![p].at = "fired"]
           /\ spendFile' = spendFile
           /\ unwritten' = [unwritten EXCEPT ![f.run] = @ + IfItCosts(cost)]
Reply(p, cost) ==
  /\ firing[p].at = "asking"
  /\ paid' = [paid EXCEPT ![firing[p].run] = @ + cost]
  /\ AddSpend(p, cost)
  /\ UNCHANGED <<wipes, overlapped, started>>

(* A call that failed has no price, whatever it cost.                      *)
CallFails(p, cost) ==
  /\ firing[p].at = "asking"
  /\ paid' = [paid EXCEPT ![firing[p].run] = @ + cost]
  /\ unwritten' = [unwritten EXCEPT ![firing[p].run] = @ + IfItCosts(cost)]
  /\ firing' = [firing EXCEPT ![p].at = "fired"]
  /\ UNCHANGED <<spendFile, wipes, overlapped, started>>

(* The rows and the record go through the door in one transaction, which   *)
(* commits or does not; what was spent stays spent.                        *)
Submit(p) ==
  /\ firing[p].at = "fired"
  /\ firing' = [firing EXCEPT ![p] = Idle]
  /\ UNCHANGED <<spendFile, paid, unwritten, wipes, overlapped, started>>

(* A process dies: before it asked, while the call is out, after the spend *)
(* is filed (of an answer that raises, too), or while it writes, which     *)
(* leaves the file truncated.                                              *)
Dies(p, cost) ==
  /\ firing[p].at # "idle"
  /\ firing' = [firing EXCEPT ![p] = Idle]
  /\ IF firing[p].at = "asking"
     THEN /\ paid' = [paid EXCEPT ![firing[p].run] = @ + cost]
          /\ unwritten' = [unwritten EXCEPT ![firing[p].run] = @ + IfItCosts(cost)]
     ELSE cost = 0 /\ UNCHANGED <<paid, unwritten>>
  /\ UNCHANGED <<spendFile, wipes, overlapped, started>>
DiesWriting(p, cost) ==
  /\ firing[p].at = "asking"
  /\ firing[p].kept /\ firing[p].priced /\ cost > 0
  /\ firing' = [firing EXCEPT ![p] = Idle]
  /\ paid' = [paid EXCEPT ![firing[p].run] = @ + cost]
  /\ unwritten' = [unwritten EXCEPT ![firing[p].run] = @ + IfItCosts(cost)]
  /\ spendFile' = Torn
  /\ wipes' = wipes + 1
  /\ UNCHANGED <<overlapped, started>>

AdvisorNext ==
  \E p \in Firings :
    \/ \E r \in Runs, kept, priced \in BOOLEAN : Start(p, r, kept, priced)
    \/ TurnAway(p)
    \/ Ask(p)
    \/ \E s \in {"empty", "refused_unpriced", "refused_cap"} : Decline(p, s)
    \/ \E c \in 0..MaxCost : Reply(p, c) \/ CallFails(p, c) \/ Dies(p, c) \/ DiesWriting(p, c)
    \/ Submit(p)
AdvisorSpec == AdvisorInit /\ [][AdvisorNext]_advisorVars

(* llm_proposer.py, the cap a loop of processes honours through the file:  *)
(* while no two processes met, a run was billed less than its cap and one  *)
(* call more, but for the calls no file heard of and the files that died   *)
(* with a writer.                                                          *)
SpendIsCapped ==
  ~overlapped => \A r \in Runs : paid[r] <= (Cap - 1 + MaxCost) * (1 + wipes) + MaxCost * unwritten[r]
=============================================================================
