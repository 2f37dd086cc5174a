------------------------------ MODULE RateLimit ------------------------------
(***************************************************************************)
(* The request quotas: middleware/ratelimiter.middleware.js and            *)
(* middleware/authlimiter.middleware.js over express-rate-limit and its    *)
(* Redis store.                                                            *)
(*                                                                         *)
(* The store runs one script per request: it increments the client's key   *)
(* and, if the key is new, lets it expire after the limiter's window.  No  *)
(* limiter is given a prefix, so the limiters of a client share one key.   *)
(***************************************************************************)
EXTENDS Naturals

CONSTANTS
    Clients,        \* "user:<id>" or "ip:<address>"
    Limiters,
    Limit,          \* of each limiter: requests per window
    Window,         \* of each limiter: its length, in ticks
    MaxHits         \* bound on what a counter distinguishes

ASSUME QuotaAssumption ==
    /\ Limit \in [Limiters -> Nat \ {0}] /\ Window \in [Limiters -> Nat \ {0}]
    /\ MaxHits \in Nat /\ \A l \in Limiters : Limit[l] < MaxHits

VARIABLES
    hits,           \* the counter of each client, 0 without a key
    ttl,            \* how long the key lives, 0 without one
    passed          \* history: what each limiter let through in this window

quotaVars == <<hits, ttl, passed>>

Counted(n) == IF n < MaxHits THEN n + 1 ELSE n

QuotaInit ==
    /\ hits = [c \in Clients |-> 0]
    /\ ttl = [c \in Clients |-> 0]
    /\ passed = [c \in Clients |-> [l \in Limiters |-> 0]]

\* Mutant: the quota is compared with the hits before this one.
WithinLate(c, l) == hits[c] <= Limit[l]

\* Does the hit that is made now stay within the quota?
Within(c, l) == Counted(hits[c]) <= Limit[l]

\* Mutant: every request starts the window again.
ExpiryReset(c, l) == Window[l]

\* Only a new key gets an expiry.
Expiry(c, l) == IF hits[c] = 0 THEN Window[l] ELSE ttl[c]

\* One run of the script.  A request that is refused was counted all the same.
Hit(c, l) ==
    /\ hits' = [hits EXCEPT ![c] = Counted(@)]
    /\ ttl' = [ttl EXCEPT ![c] = Expiry(c, l)]
    /\ passed' = [passed EXCEPT ![c][l] = IF Within(c, l) THEN @ + 1 ELSE @]

\* The reply of the script is lost: the request fails, though it was counted.
HitUnanswered(c, l) ==
    /\ hits' = [hits EXCEPT ![c] = Counted(@)]
    /\ ttl' = [ttl EXCEPT ![c] = Expiry(c, l)]
    /\ UNCHANGED passed

\* Time passes for the key of c, which Redis drops in the end.
Tick(c) ==
    /\ ttl[c] > 0
    /\ ttl' = [ttl EXCEPT ![c] = @ - 1]
    /\ hits' = [hits EXCEPT ![c] = IF ttl[c] = 1 THEN 0 ELSE @]
    /\ passed' = [passed EXCEPT ![c] = IF ttl[c] = 1 THEN [l \in Limiters |-> 0] ELSE @]

QuotaTypeOK ==
    /\ hits \in [Clients -> 0..MaxHits]
    /\ ttl \in [Clients -> Nat]
    /\ passed \in [Clients -> [Limiters -> Nat]]

\* Within one window of a client a limiter lets no more through than its limit,
\* whichever limiters the client's requests pass and in whichever order
\* (ratelimiter.middleware.js:24-27).
QuotaHolds == \A c \in Clients, l \in Limiters : passed[c][l] <= Limit[l]

\* A client over a quota gets its turn again however much it keeps trying: no
\* request makes a window longer, and none is refused in the next one for what
\* was counted in the last (the store's script; ratelimiter.middleware.js:24-27).
WindowEnds == [][\A c \in Clients :
    /\ hits[c] > 0 /\ hits'[c] > 0 => ttl'[c] <= ttl[c]
    /\ (hits'[c] = 0) = (ttl'[c] = 0)]_quotaVars
=============================================================================
