--------------------------- MODULE MCInteractions ---------------------------
(* Small instances of Interactions for TLC.                                *)
EXTENDS Interactions, TLC

CONSTANTS u1, u2, p1, d1, d2, k1, r1, r2

\* u1 wrote the post; u2 comments, likes and follows.
AuthorOf == [p \in Posts |-> u1]

Symmetry == Permutations(Docs) \cup Permutations(Reqs)
=============================================================================
