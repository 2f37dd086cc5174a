----------------------------- MODULE MCGateway -----------------------------
(* Small instances of Gateway for TLC.                                     *)
EXTENDS Gateway, TLC
CONSTANTS root, u1, ip, r1, r2
\* Two quotas over one key, and one of the address.
MCLimit == [l \in Limiters |-> IF l = "api" THEN 2 ELSE 1]
MCWindow == [l \in Limiters |-> IF l = "social" THEN 1 ELSE 2]
\* root administers; a registered user reads posts and likes.
MCMixes == {{root} \X {"createRole", "createPermission"}, {u1} \X {"posts", "likes"}}
MCChoices == {{"custom"}, {"posts:create"}}
Symmetry == Permutations(Reqs)
=============================================================================
