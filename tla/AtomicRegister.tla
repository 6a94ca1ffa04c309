--------------------------- MODULE AtomicRegister ---------------------------
(***************************************************************************)
(* What the comments of AtomicFile promise: a file that holds a value, or   *)
(* none, and changes it only to what the running operation asks for, all at *)
(* once or not at all; a write that is reported as done is there to be      *)
(* read, and a read returns the value.                                      *)
(***************************************************************************)
CONSTANTS Value, None, Keep, Idle

VARIABLES
    val,    \* the value, or None
    want,   \* the operation: a value to write, None to delete, Keep to read, Idle
    got,    \* what the last read returned
    told    \* how the last operation ended: "ok" or "failed"

vars == <<val, want, got, told>>

Init == val = None /\ want = Idle /\ got = None /\ told = "ok"

Begin ==
    /\ want = Idle
    /\ want' \in Value \cup {None, Keep}
    /\ UNCHANGED <<val, got, told>>

Take ==
    /\ want \in Value \cup {None}
    /\ val' = want
    /\ UNCHANGED <<want, got, told>>

Done ==
    /\ want \in Value \cup {None}
    /\ val' = want
    /\ want' = Idle /\ told' = "ok"
    /\ UNCHANGED got

Return ==
    /\ want = Keep
    /\ got' = val
    /\ want' = Idle /\ told' = "ok"
    /\ UNCHANGED val

GiveUp ==
    /\ want # Idle
    /\ want' = Idle /\ told' = "failed"
    /\ UNCHANGED <<val, got>>

Next == Begin \/ Take \/ Done \/ Return \/ GiveUp

Spec == Init /\ [][Next]_vars
=============================================================================
