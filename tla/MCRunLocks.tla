----------------------------- MODULE MCRunLocks -----------------------------
(* One run, two batches, two cars, every door once. *)
EXTENDS RunLocks
CONSTANTS b1, b2, b3, c1, c2
TwoBatches == {b1, b2}
ThreeBatches == {b1, b2, b3}
OneCar == {c1}
TwoCars == {c1, c2}
SourceOwn(b) == b          \* every batch has a source of its own
SourceShared(b) == "one"   \* two calls of one proposer
EveryDoor == AllDoors
StopOnly == {"stop"}
StopAndPause == {"stop", "pause"}
Everyone == Sessions
TheBatches == Batches
=============================================================================
