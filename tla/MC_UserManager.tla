---------------------------- MODULE MC_UserManager ----------------------------
(* Small bounds for UserManager: two ids beside the owner, so that an id is   *)
(* given out again, and two crashes, so that a start can be cut off too.      *)
EXTENDS UserManager
=============================================================================
