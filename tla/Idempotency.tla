----------------------------- MODULE Idempotency -----------------------------
(***************************************************************************)
(* The idempotency middleware, middleware/idempotency.middleware.js, around *)
(* a handler.  A key stands for identity and header together; a request    *)
(* stands for the response it produced.  The connection's "finish" event,  *)
(* which stores the response, comes after the answer has been sent.        *)
(***************************************************************************)
EXTENDS Naturals, FiniteSets

CONSTANTS
    Keys,       \* idem:<identity>:<Idempotency-Key>
    Reqs,       \* requests; a forgotten one stands for a new one
    Faults,     \* what may go wrong: subset of the kinds below
    None        \* null

FaultKinds == {"redis", "disconnect", "crash"}

ASSUME ResponseAssumption ==
    None \notin {"pending", "conflict"} /\ {None, "pending", "conflict"} \cap Reqs = {}
ASSUME FaultAssumption == Faults \subseteq FaultKinds

VARIABLES
    store,      \* the key's record: None, "pending" or a stored response
    req,        \* the requests
    effects,    \* the requests whose handler changed the database
    broken      \* keys whose record a fault may have left pending

vars == <<store, req, effects, broken>>

Request == [pc : {"idle", "get", "claim", "run", "send", "save", "done"},
            key : Keys \cup {None}, owner : BOOLEAN,
            answer : Reqs \cup {"conflict", None}]

Idle == [pc |-> "idle", key |-> None, owner |-> FALSE, answer |-> None]

Init ==
    /\ store = [k \in Keys |-> None]
    /\ req = [r \in Reqs |-> Idle]
    /\ effects = {}
    /\ broken = {}

At(r, pc) == req[r].pc = pc
Goto(r, pc) == req' = [req EXCEPT ![r].pc = pc]
Answer(r, answer, pc) == req' = [req EXCEPT ![r].pc = pc, ![r].answer = answer]

Live(r) == req[r].pc \notin {"idle", "done"}
Of(k) == {r \in Reqs : req[r].key = k}

Arrive(r, k) ==
    /\ At(r, "idle")
    /\ req' = [req EXCEPT ![r] = [Idle EXCEPT !.pc = "get", !.key = k]]
    /\ UNCHANGED <<store, effects, broken>>

\* Mutant: a pending record is taken for a response.
GetAny(r) ==
    /\ At(r, "get")
    /\ LET existing == store[req[r].key] IN
       IF existing # None THEN Answer(r, existing, "done") ELSE Goto(r, "claim")
    /\ UNCHANGED <<store, effects, broken>>

\* A stored response is replayed.
Get(r) ==
    /\ At(r, "get")
    /\ LET existing == store[req[r].key] IN
       IF existing \in Reqs THEN Answer(r, existing, "done") ELSE Goto(r, "claim")
    /\ UNCHANGED <<store, effects, broken>>

\* Mutant: the claim is not conditional.
ClaimAlways(r) ==
    /\ At(r, "claim")
    /\ store' = [store EXCEPT ![req[r].key] = "pending"]
    /\ req' = [req EXCEPT ![r].pc = "run", ![r].owner = TRUE]
    /\ UNCHANGED <<effects, broken>>

\* SET NX.  A key with any record, a response stored since the GET included,
\* is a conflict.
Claim(r) ==
    /\ At(r, "claim")
    /\ IF store[req[r].key] = None
       THEN /\ store' = [store EXCEPT ![req[r].key] = "pending"]
            /\ req' = [req EXCEPT ![r].pc = "run", ![r].owner = TRUE]
       ELSE Answer(r, "conflict", "done") /\ UNCHANGED store
    /\ UNCHANGED <<effects, broken>>

\* The claim took effect and its reply is lost.  The client sends it again when
\* it is connected again (redis.js:13), and the request's own record is then a
\* conflict to it; or the call fails in the end.
ClaimUnanswered(r) ==
    /\ "redis" \in Faults
    /\ At(r, "claim") /\ store[req[r].key] = None
    /\ store' = [store EXCEPT ![req[r].key] = "pending"]
    /\ broken' = broken \cup {req[r].key}
    /\ UNCHANGED <<req, effects>>

\* A call to Redis fails and the request goes on without a record.
FailOpen(r) ==
    /\ "redis" \in Faults
    /\ req[r].pc \in {"get", "claim"}
    /\ Goto(r, "run")
    /\ UNCHANGED <<store, effects, broken>>

\* Mutant: the response is stored before it is sent.
HandleStoring(r) ==
    /\ At(r, "run")
    /\ \/ effects' = effects \cup {r}
       \/ UNCHANGED effects
    /\ Goto(r, "send")
    /\ store' = IF req[r].owner THEN [store EXCEPT ![req[r].key] = r] ELSE store
    /\ UNCHANGED broken

\* The handler either changes the database or refuses the request.
Handle(r) ==
    /\ At(r, "run")
    /\ \/ effects' = effects \cup {r}
       \/ UNCHANGED effects
    /\ Goto(r, "send")
    /\ UNCHANGED <<store, broken>>

\* Mutants: a refusal is not stored; a request without a claim stores too.
SendStoringEffects(r) ==
    /\ At(r, "send")
    /\ Answer(r, r, IF req[r].owner /\ r \in effects THEN "save" ELSE "done")
    /\ UNCHANGED <<store, effects, broken>>
SendStoringAll(r) ==
    /\ At(r, "send")
    /\ Answer(r, r, "save")
    /\ UNCHANGED <<store, effects, broken>>

\* The response is out; only the claim's owner captured it.
Send(r) ==
    /\ At(r, "send")
    /\ Answer(r, r, IF req[r].owner THEN "save" ELSE "done")
    /\ UNCHANGED <<store, effects, broken>>

\* The client is gone: "finish" never comes and nothing is stored.
Disconnect(r) ==
    /\ "disconnect" \in Faults
    /\ At(r, "send")
    /\ Goto(r, "done")
    /\ broken' = IF req[r].owner THEN broken \cup {req[r].key} ELSE broken
    /\ UNCHANGED <<store, effects>>

\* The finish handler; a failure is only logged.
Save(r) ==
    /\ At(r, "save")
    /\ \/ store' = [store EXCEPT ![req[r].key] = r] /\ UNCHANGED broken
       \/ /\ "redis" \in Faults
          /\ broken' = broken \cup {req[r].key}
          /\ UNCHANGED store
    /\ Goto(r, "done")
    /\ UNCHANGED effects

\* The process dies with all its requests.
Crash ==
    /\ "crash" \in Faults
    /\ \E r \in Reqs : Live(r)
    /\ req' = [r \in Reqs |-> IF Live(r) THEN [req[r] EXCEPT !.pc = "done"] ELSE req[r]]
    /\ broken' = broken \cup {req[r].key : r \in {q \in Reqs : Live(q) /\ req[q].owner}}
    /\ UNCHANGED <<store, effects>>

\* The record's seven days are over; by then its requests are long done.
Expire(k) ==
    /\ store[k] # None
    /\ \A r \in Of(k) : ~Live(r)
    /\ store' = [store EXCEPT ![k] = None]
    /\ req' = [r \in Reqs |-> IF r \in Of(k) THEN Idle ELSE req[r]]
    /\ effects' = effects \ Of(k)
    /\ broken' = broken \ {k}

Step(r) == Get(r) \/ Claim(r) \/ Handle(r) \/ Send(r) \/ Save(r)

Next ==
    \/ \E r \in Reqs :
          \/ \E k \in Keys : Arrive(r, k)
          \/ Step(r) \/ ClaimUnanswered(r) \/ FailOpen(r) \/ Disconnect(r)
    \/ Crash
    \/ \E k \in Keys : Expire(k)

Spec == Init /\ [][Next]_vars
-----------------------------------------------------------------------------
(* Properties.                                                             *)

TypeOK ==
    /\ store \in [Keys -> Reqs \cup {None, "pending"}]
    /\ req \in [Reqs -> Request]
    /\ effects \subseteq Reqs
    /\ broken \subseteq Keys

\* Requests that reached their handler without Redis.
Unprotected == {r \in Reqs : r \in effects \/ req[r].answer = r} \ {r \in Reqs : req[r].owner}

\* Until its record expires a key's handler runs once, whatever crashes, clients
\* that vanish and failing writes of the record, unless Redis failed at the
\* door (FR-028, idempotency.middleware.js:23-32).
OneEffect ==
    \A k \in Keys : Cardinality((effects \cap Of(k)) \ Unprotected) <= 1

\* "return the same response for repeated submissions of the same key" (FR-028):
\* two requests of a key that got a response got the same one.
SameAnswer ==
    \A k \in Keys : \A r, q \in Of(k) \ Unprotected :
        req[r].answer \in Reqs /\ req[q].answer \in Reqs
        => req[r].answer = req[q].answer

\* A record is pending only while a request that will replace it is under way,
\* unless a fault took that request or its write away: what the conflict tells
\* the client, "in progress", is so (idempotency.middleware.js:57).
PendingHasOwner ==
    \A k \in Keys : store[k] = "pending" /\ k \notin broken =>
        \E r \in Of(k) : req[r].owner /\ Live(r)
=============================================================================
