----------------------------- MODULE MCAccounts -----------------------------
(* Small instances of Accounts for TLC.                                    *)
EXTENDS Accounts, TLC

CONSTANTS u1, u2, u3, n1, n2, n3, m1, m2, d1, d2, k1, r1, r2, r3

Symmetry == Permutations(Uids \ Registered) \cup Permutations(Names)
                \cup Permutations(Emails \ {Deleted}) \cup Permutations(Docs) \cup Permutations(Reqs)
=============================================================================
