---------------------------- MODULE MC_AtomicFile ----------------------------
(* Model values for AtomicFile.                                             *)
EXTENDS AtomicFile, TLC

CONSTANTS v1, v2, v3

Values == {v1, v2, v3}
=============================================================================
