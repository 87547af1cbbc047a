------------------------------ MODULE Learning ------------------------------
(***************************************************************************)
(* The learn loop (intent/learn.py): a batch of the shield's refusals is   *)
(* classified, flagged, and turned into constraints on the next solve; a   *)
(* solver's status is diagnosed.                                           *)
(*                                                                         *)
(* A batch is [said, unreadable]: said counts, for each <<code, entity>>,  *)
(* the readable refusals that carried it (NoEntity where one names none);  *)
(* unreadable counts those without a code.                                 *)
(***************************************************************************)
EXTENDS Naturals, FiniteSets, FiniteSetsExt, Functions

CONSTANT NoEntity

LearnedConstraint ==
  [target_occupied |-> "refresh_occupancy", resource_faulted |-> "block_points",
   target_unknown |-> "reconcile_frame", vehicle_unresponsive |-> "refresh_vehicle_state",
   vehicle_state_incompatible |-> "refresh_vehicle_state", command_malformed |-> "fix_emitter",
   no_capacity |-> "tighten_capacity", superseded |-> "none", run_ended |-> "none",
   vehicle_declined |-> "vehicle_override"]
RefusalCodes == DOMAIN LearnedConstraint
RefusalKind(code) ==
  CASE code \in {"target_unknown", "command_malformed", "no_capacity"} -> "solver_gap"
    [] code \in {"superseded", "run_ended"} -> "transient"
    [] OTHER -> "live_world"

Heard(batch) == {p \in DOMAIN batch.said : batch.said[p] > 0}
UnknownCodes(batch) == {p[1] : p \in Heard(batch)} \ RefusalCodes
Counts(batch) ==
  [c \in {p[1] : p \in Heard(batch)} \cap RefusalCodes |->
     MapThenSumSet(LAMBDA p : batch.said[p], {p \in Heard(batch) : p[1] = c})]

(* The entities a code is held against: all that carried a solver gap, but *)
(* of a live-world code only those that repeated it past the threshold.    *)
Pairs(batch) == {p \in Heard(batch) : p[1] \in RefusalCodes /\ p[2] # NoEntity}
OffendersOnceFlagged(batch, threshold, code) ==
  LET all == {p[2] : p \in {q \in Pairs(batch) : q[1] = code}}
      some == \E e \in all : batch.said[<<code, e>>] > threshold
  IN  CASE RefusalKind(code) = "solver_gap" -> all
        [] RefusalKind(code) = "live_world" -> IF some THEN all ELSE {}
        [] OTHER -> {}
Offenders(batch, threshold, code) ==
  LET Repeats(e) == batch.said[<<code, e>>] > threshold
      all == {p[2] : p \in {q \in Pairs(batch) : q[1] = code}}
  IN  CASE RefusalKind(code) = "solver_gap" -> all
        [] RefusalKind(code) = "live_world" -> {e \in all : Repeats(e)}
        [] OTHER -> {}
IsFlagged(batch, threshold, code) ==
  \/ RefusalKind(code) = "solver_gap"
  \/ Offenders(batch, threshold, code) # {}

FlaggedCodes(batch, threshold) ==
  {c \in DOMAIN Counts(batch) : IsFlagged(batch, threshold, c)}
LearnedKinds(batch, threshold) ==
  {LearnedConstraint[c] : c \in FlaggedCodes(batch, threshold)} \ {"none"}
OffendersOf(batch, threshold, kind) ==
  UNION {Offenders(batch, threshold, c) : c \in {d \in DOMAIN Counts(batch) : LearnedConstraint[d] = kind}}

(* The cap: a set past its share of what the caller says the site has is   *)
(* not learned, and a flag says so.  A kind without a total has no cap.    *)
IsCapped(batch, threshold, capable, percent, kind) ==
  /\ kind \in DOMAIN capable
  /\ capable[kind] # 0
  /\ 100 * Cardinality(OffendersOf(batch, threshold, kind)) > percent * capable[kind]

ReconcileRefusals(batch, threshold, capable, percent) ==
  LET kinds == LearnedKinds(batch, threshold)
      capped == {k \in kinds : IsCapped(batch, threshold, capable, percent, k)}
  IN  [counts |-> Counts(batch),
       flags |-> FlaggedCodes(batch, threshold) \cup capped,
       unknown |-> UnknownCodes(batch),
       unreadable |-> batch.unreadable,
       learned |-> [k \in kinds |->
                      IF k \in capped THEN {} ELSE OffendersOf(batch, threshold, k)],
       lifetime |-> 1]
IsClean(report) == report.flags = {} /\ report.unknown = {} /\ report.unreadable = 0

(* A solver's status and what it asks for next.                            *)
DiagnoseSolver(status, allowRejection, hasPrevious) ==
  CASE status = "OPTIMAL" -> [kind |-> "solved", next |-> "nothing", recognized |-> TRUE]
    [] status = "FEASIBLE" -> [kind |-> "solved_bounded", next |-> "budget", recognized |-> TRUE]
    [] status = "INFEASIBLE" ->
         [kind |-> "intractable", recognized |-> TRUE,
          next |-> IF allowRejection THEN "tighten_capacity" ELSE "enable_rejection"]
    [] status = "UNKNOWN" ->
         [kind |-> "intractable", recognized |-> TRUE,
          next |-> IF hasPrevious THEN "budget" ELSE "retain_previous"]
    [] status = "MODEL_INVALID" -> [kind |-> "model_bug", next |-> "fix_model", recognized |-> TRUE]
    [] OTHER -> [kind |-> "unknown", next |-> "inspect", recognized |-> FALSE]
=============================================================================
