----------------------------- MODULE TokenChain -----------------------------
(***************************************************************************)
(* What the session store promises, without clocks, requests or Redis: a   *)
(* session is a chain of refresh tokens of which exactly one is current;   *)
(* its life only moves forward; a bulk revocation takes effect at once.    *)
(* The swap of a token compares nothing but the current token, so a        *)
(* revoked session may still see one.                                      *)
(***************************************************************************)
EXTENDS FiniteSets

CONSTANTS Sids, Tokens, None

VARIABLES
    life,       \* where each session is in its life
    current,    \* the token each session would accept
    minted,     \* every token ever bound to a session
    spent       \* those that were swapped for another

chain == <<life, current, minted, spent>>

Init ==
    /\ life = [s \in Sids |-> "unborn"]
    /\ current = [s \in Sids |-> None]
    /\ minted = {}
    /\ spent = {}

Open(s, t) ==
    /\ life[s] = "unborn"
    /\ life' = [life EXCEPT ![s] = "live"]
    /\ current' = [current EXCEPT ![s] = t]
    /\ minted' = minted \cup {t}
    /\ UNCHANGED spent

Swap(s, t) ==
    /\ life[s] \in {"live", "revoked"}
    /\ current' = [current EXCEPT ![s] = t]
    /\ minted' = minted \cup {t}
    /\ spent' = spent \cup {current[s]}
    /\ UNCHANGED life

Retire(S) ==
    /\ \A s \in S : life[s] = "live"
    /\ life' = [s \in Sids |-> IF s \in S THEN "revoked" ELSE life[s]]
    /\ UNCHANGED <<current, minted, spent>>

Remove(S) ==
    /\ \A s \in S : life[s] = "revoked"
    /\ life' = [s \in Sids |-> IF s \in S THEN "removed" ELSE life[s]]
    /\ current' = [s \in Sids |-> IF s \in S THEN None ELSE current[s]]
    /\ UNCHANGED <<minted, spent>>

Next ==
    \/ \E s \in Sids, t \in Tokens \ minted : Open(s, t) \/ Swap(s, t)
    \/ \E S \in SUBSET Sids : Retire(S) \/ Remove(S)

Spec == Init /\ [][Next]_chain
=============================================================================
