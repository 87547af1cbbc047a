--------------------------- MODULE MCProposerLoop ---------------------------
EXTENDS ProposerLoop
CONSTANTS r1, r2, v1
AutoOverTwo == {[auto |-> TRUE, cert |-> {}]}
\* Given a run, which may be a certification's; or one of two runs at a time, neither of them one.
EveryMode == {[auto |-> FALSE, cert |-> {r2}]} \cup AutoOverTwo
TwoRuns == {r1, r2}
OneVehicle == {v1}
Around == {-1, 0, 2}
=============================================================================
