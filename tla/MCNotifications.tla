--------------------------- MODULE MCNotifications ---------------------------
(* Small instances of Notifications for TLC.                               *)
EXTENDS Notifications, TLC

CONSTANTS e1, e2, u1, u2, r1, r2, w1, w2

\* u1 acts, mostly on posts of u2, and once on one of their own.
MCActor == [e \in Events |-> u1]
MCRecipient == [e \in Events |-> u2]
MCRecipientSelf == [e \in Events |-> IF e = e2 THEN u1 ELSE u2]

Symmetry == Permutations(Reqs) \cup Permutations(Workers)
=============================================================================
