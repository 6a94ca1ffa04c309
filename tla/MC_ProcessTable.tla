--------------------------- MODULE MC_ProcessTable ---------------------------
(* Model values for ProcessTable.  Keys, records and process instances are    *)
(* interchangeable, but the run checks liveness, and symmetry is not used.    *)
EXTENDS ProcessTable

CONSTANTS k1, k2, r1, r2, r3, p1, p2

TwoKeys == {k1, k2}
Records == {r1, r2, r3}
TwoPids == {p1, p2}
=============================================================================
