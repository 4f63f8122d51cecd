------------------------- MODULE GuardedCollectionMC ------------------------
(* Four jobs compete for two attempts per window. *)
EXTENDS GuardedCollection, TLC

CONSTANTS r1, r2, r3, r4

Symmetry == Permutations({r1, r2, r3, r4})
=============================================================================
