--------------------------- MODULE MC_PackageStore ---------------------------
(* Two packages with uids of their own and one user beside the owner.       *)
EXTENDS PackageStore, TLC

CONSTANTS p1, p2

Packages == {p1, p2}
Users == {1}
OwnId(p) == p
Symmetry == Permutations(Packages)
==============================================================================
