---------------------------- MODULE MC_AppClient ----------------------------
(* Instances of AppClient for TLC. *)
EXTENDS AppClient, TLC

CONSTANTS p1, p2, a1, a2, r1, r2
TwoProcs == {p1, p2}
TwoApps == {a1, a2}
KeptForP1 == [p \in TwoProcs |-> IF p = p1 THEN a1 ELSE Null]
StartsInBoth == [p \in TwoProcs |-> IF p = p1 THEN TwoApps ELSE {a2}]
TwoRequests == {r1, r2}
=============================================================================
