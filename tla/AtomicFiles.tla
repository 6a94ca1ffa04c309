----------------------------- MODULE AtomicFiles -----------------------------
(***************************************************************************)
(* What helper/utils/AtomicFile makes of a file on disk: a base file and a  *)
(* backup file, each absent (None), unreadable because a write was cut off  *)
(* (Torn), or holding a value. Module AtomicFile takes the same operations  *)
(* step by step and shows that these operators say what they do.            *)
(***************************************************************************)
CONSTANTS None, Torn

NoFile == [base |-> None, bak |-> None]

\* The content the next openRead gets: a backup that is there is rolled back to.
Visible(f) == IF f.bak # None THEN f.bak ELSE f.base

\* The file after a write, a read and a delete that went through.
Written(v) == [base |-> v, bak |-> None]
RolledBack(f) == Written(Visible(f))

\* What is found on disk when the process dies in the middle of one.
MidWrite(f, v) == {f} \cup {[base |-> x, bak |-> Visible(f)] : x \in {None, Torn, v}}
MidRead(f) == {f, RolledBack(f)} \cup (IF f.bak # None THEN {[f EXCEPT !.base = None]} ELSE {})
MidDelete(f) == {f, [f EXCEPT !.base = None], NoFile}
=============================================================================
