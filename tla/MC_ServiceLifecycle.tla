------------------------- MODULE MC_ServiceLifecycle -------------------------
(* Model values for ServiceLifecycle; without symmetry, for the liveness.     *)
EXTENDS ServiceLifecycle

CONSTANTS p1, p2, r1, r2, c1

TwoProcs == {p1, p2}
TwoSvcs  == {r1, r2}
OneConn  == {c1}
=============================================================================
