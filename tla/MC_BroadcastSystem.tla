------------------------ MODULE MC_BroadcastSystem ------------------------
(* Model values for BroadcastSystem.                                        *)
EXTENDS BroadcastSystem, TLC

CONSTANTS b1, b2, t1

Bcasts    == {b1, b2}
First     == {b1}
Receivers == {t1}
ToOne     == [b \in Bcasts |-> t1]
===========================================================================
