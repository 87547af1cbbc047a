----------------------------- MODULE RunLedger -----------------------------
(***************************************************************************)
(* What one run and its proposals promise, with no locks and no sessions:   *)
(* every call takes effect at once. A proposal is decided once; only a      *)
(* running run ticks, and only a tick enacts; a stopped run stays stopped.  *)
(* RunLocks implements it.                                                  *)
(***************************************************************************)
EXTENDS Naturals

CONSTANTS Proposals,   \* every proposal that may be submitted
          CarOf(_)     \* the car a proposal is for

VARIABLES status,      \* the run's row: running, paused, completed, gone
          ticks,       \* beats committed
          stat         \* what the ledger says of each proposal

vars == <<status, ticks, stat>>

Pending == {p \in Proposals : stat[p] = "pending"}

(* The proposals of S are given the outcome o. *)
Marked(f, S, o) == [p \in Proposals |-> IF p \in S THEN o ELSE f[p]]

Init == /\ status = "running" /\ ticks = 0
        /\ \E S \in SUBSET Proposals :
             stat = [p \in Proposals |-> IF p \in S THEN "pending" ELSE "none"]

(* A batch: its rows become pending, older rows of the same cars give way. *)
Submit == /\ status # "gone"
          /\ \E new \in SUBSET {p \in Proposals : stat[p] = "none"} :
             \E old \in SUBSET Pending :
               /\ \A p \in old : \E q \in new : CarOf(p) = CarOf(q)
               /\ stat' = Marked(Marked(stat, new, "pending"), old, "superseded")
          /\ UNCHANGED <<status, ticks>>

(* A beat: a car is enacted at most once, and what else was pending for it gives way. *)
Beat == /\ status = "running"
        /\ ticks' = ticks + 1
        /\ \E enacted \in SUBSET Pending :
           \E other \in SUBSET {p \in Pending \ enacted : \E q \in enacted : CarOf(p) = CarOf(q)} :
           \E refused \in SUBSET (Pending \ (enacted \cup other)) :
             /\ \A p \in enacted, q \in enacted : CarOf(p) = CarOf(q) => p = q
             /\ stat' = Marked(Marked(Marked(stat, enacted, "enacted"), other, "superseded"), refused, "refused")
        /\ UNCHANGED status

(* A stop: some proposals still pending expire; a run that is on is completed. *)
Stop == /\ status # "gone"
        /\ \E S \in SUBSET Pending : stat' = Marked(stat, S, "expired")
        /\ status' = IF status \in {"running", "paused"} THEN "completed" ELSE status
        /\ UNCHANGED ticks

Pause  == status = "running" /\ status' = "paused" /\ UNCHANGED <<ticks, stat>>
Resume == status = "paused" /\ status' = "running" /\ UNCHANGED <<ticks, stat>>

(* The purge deletes a run with all its proposals. *)
Purge == /\ status # "gone" /\ status' = "gone"
         /\ stat' = [p \in Proposals |-> IF stat[p] = "none" THEN "none" ELSE "gone"]
         /\ UNCHANGED ticks

Next == Submit \/ Beat \/ Stop \/ Pause \/ Resume \/ Purge

Spec == Init /\ [][Next]_vars

=============================================================================
