----------------------------- MODULE WriteOnce -----------------------------
(***************************************************************************)
(* What an idempotency key promises, without Redis: among the requests     *)
(* that name it one is chosen; only the chosen one may have its effect,    *)
(* once and before it is answered; the others are told its response, after *)
(* it was told itself, or that there is a conflict.                        *)
(***************************************************************************)
CONSTANTS Keys, Reqs, None

VARIABLES
    asked,      \* the key each request names
    chosen,     \* the requests that stand for their key
    ran,        \* those that had their effect
    told        \* whose response each request was told

once == <<asked, chosen, ran, told>>

Init ==
    /\ asked = [r \in Reqs |-> None]
    /\ chosen = {}
    /\ ran = {}
    /\ told = [r \in Reqs |-> None]

\* The chosen request of r's key.
Winner(r) == {q \in chosen : asked[q] = asked[r]}

Ask(r, k) ==
    /\ asked[r] = None
    /\ asked' = [asked EXCEPT ![r] = k]
    /\ UNCHANGED <<chosen, ran, told>>

Choose(r) ==
    /\ asked[r] \in Keys /\ told[r] = None
    /\ Winner(r) = {}
    /\ chosen' = chosen \cup {r}
    /\ UNCHANGED <<asked, ran, told>>

Run(r) ==
    /\ r \in chosen \ ran /\ told[r] = None
    /\ ran' = ran \cup {r}
    /\ UNCHANGED <<asked, chosen, told>>

Tell(r, answer) ==
    /\ told[r] = None
    /\ told' = [told EXCEPT ![r] = answer]
    /\ UNCHANGED <<asked, chosen, ran>>

Respond(r) == r \in chosen /\ Tell(r, r)

Replay(r) == r \notin chosen /\ \E q \in Winner(r) : told[q] = q /\ Tell(r, q)

Refuse(r) == r \notin chosen /\ asked[r] \in Keys /\ Tell(r, "conflict")

\* The key's time is over.
Forget(k) ==
    /\ asked' = [r \in Reqs |-> IF asked[r] = k THEN None ELSE asked[r]]
    /\ told' = [r \in Reqs |-> IF asked[r] = k THEN None ELSE told[r]]
    /\ chosen' = {r \in chosen : asked[r] # k}
    /\ ran' = {r \in ran : asked[r] # k}

Next ==
    \/ \E r \in Reqs : \/ \E k \in Keys : Ask(r, k)
                       \/ Choose(r) \/ Run(r) \/ Respond(r) \/ Replay(r) \/ Refuse(r)
    \/ \E k \in Keys : Forget(k)

Spec == Init /\ [][Next]_once
=============================================================================
