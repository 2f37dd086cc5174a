----------------------------- MODULE MCSessions -----------------------------
(* Small instances of Sessions for TLC.                                    *)
EXTENDS SessionsRefinement, TLC

CONSTANTS s1, s2, t1, t2, t3, t4, r1, r2, u1, u2

Symmetry ==
    Permutations(Sids) \cup Permutations(Reqs)
        \cup Permutations(Tokens \ LegacyTokens) \cup Permutations(Users)
=============================================================================
