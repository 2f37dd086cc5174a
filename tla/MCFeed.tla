------------------------------- MODULE MCFeed -------------------------------
(* Small instances of Feed for TLC.                                        *)
EXTENDS Feed, TLC

CONSTANTS v1, v2, a1, a2, r1, r2, w1, w2

Symmetry == Permutations(Viewers) \cup Permutations(Authors)
                \cup Permutations(Readers) \cup Permutations(Writers)
=============================================================================
