--------------------------- MODULE MCIdempotency ---------------------------
(* Small instances of Idempotency for TLC.                                 *)
EXTENDS IdempotencyRefinement, TLC

CONSTANTS k1, k2, r1, r2, r3, r4

Symmetry == Permutations(Keys) \cup Permutations(Reqs)
=============================================================================
