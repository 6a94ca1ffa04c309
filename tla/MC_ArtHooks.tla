----------------------------- MODULE MC_ArtHooks -----------------------------
(* Model values for ArtHooks: two threads, two callbacks, three addresses.  *)
EXTENDS ArtHooks, TLC

CONSTANTS t1, t2, c1, c2, a1, a2, a3

Threads == {t1, t2}
TwoCallbacks == <<c1, c2>>
OneCallback == <<c1>>
Addrs == {a1, a2, a3}
Symmetry == Permutations(Threads) \union Permutations(Addrs)
==============================================================================
