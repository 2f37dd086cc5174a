-------------------------- MODULE IdempotencyProofs --------------------------
(***************************************************************************)
(* For any keys, requests and faults: the safety of the idempotency        *)
(* middleware, and that it implements WriteOnce.  The argument rests on    *)
(* the claim: while a key has a record, at most one request owns it, and   *)
(* only its owner stores a response.                                       *)
(***************************************************************************)
EXTENDS IdempotencyRefinement, FiniteSetTheorems, TLAPS

\* A request has a key from its arrival on.
Keyed == \A r \in Reqs : IF At(r, "idle") THEN req[r] = Idle ELSE req[r].key \in Keys

\* A request becomes the owner by its claim, and nobody else stores a response.
OwnersClaimed == \A r \in Reqs :
    /\ req[r].owner => req[r].pc \notin {"idle", "get", "claim"}
    /\ At(r, "save") => req[r].owner /\ req[r].answer = r

\* A key that has an owner has a record, and it has one owner.
OneOwner == \A r, q \in Reqs :
    /\ req[r].owner => store[req[r].key] # None
    /\ req[r].owner /\ req[q].owner /\ req[r].key = req[q].key => r = q

\* r got the response of its own handler or of its key's owner.
Genuine(r) == \/ req[r].answer = r
              \/ /\ req[req[r].answer].owner
                 /\ req[req[r].answer].key = req[r].key

AnswersGenuine == \A r \in Reqs : req[r].answer \in Reqs => Genuine(r)

\* A stored response is the owner's.
StoredByOwner == \A k \in Keys : store[k] \in Reqs =>
    req[store[k]].owner /\ req[store[k]].key = k

IInv == /\ TypeOK /\ Keyed /\ OwnersClaimed /\ OneOwner
        /\ AnswersGenuine /\ StoredByOwner /\ PendingHasOwner

\* A step of a request that changes neither key nor owner, nor the record.
Move(r, pc, answer) ==
    /\ ~At(r, "idle") /\ pc \in {"get", "claim", "run", "send", "save", "done"}
    /\ answer \in Reqs \cup {"conflict", None}
    /\ req' = [req EXCEPT ![r] = [req[r] EXCEPT !.pc = pc, !.answer = answer]]
    /\ req[r].owner => pc \notin {"get", "claim"}
    /\ pc = "save" => req[r].owner /\ answer = r
    /\ answer \in Reqs => \/ answer = r \/ answer = req[r].answer
                          \/ req[answer].owner /\ req[answer].key = req[r].key
    /\ store' = store /\ effects' \subseteq Reqs
    /\ broken' \subseteq Keys /\ broken \subseteq broken'
    /\ req[r].owner /\ pc = "done" => store[req[r].key] # "pending" \/ req[r].key \in broken'

LEMMA Moves ==
    ASSUME IInv, NEW r \in Reqs, NEW pc, NEW answer, Move(r, pc, answer)
    PROVE  IInv'
<1> USE DEF IInv, At, Move
<1>1. \A q \in Reqs : /\ req'[q].key = req[q].key /\ req'[q].owner = req[q].owner
                      /\ q # r => req'[q] = req[q]
  BY DEF TypeOK, Request
<1>2. req'[r].pc = pc /\ req'[r].answer = answer
  BY DEF TypeOK, Request
<1>3. TypeOK'
  BY ZenonT(60) DEF TypeOK, Request
<1>4. Keyed'
  BY <1>1, <1>2 DEF Keyed
<1>5. OwnersClaimed'
  BY <1>1, <1>2 DEF OwnersClaimed
<1>6. OneOwner'
  BY <1>1 DEF OneOwner
<1>7. AnswersGenuine'
  <2> SUFFICES ASSUME NEW q \in Reqs, req'[q].answer \in Reqs PROVE Genuine(q)'
    BY DEF AnswersGenuine
  <2>1. CASE q # r
    BY <1>1, <2>1 DEF AnswersGenuine, Genuine
  <2>2. CASE q = r
    BY <1>1, <1>2, <2>2 DEF AnswersGenuine, Genuine
  <2> QED BY <2>1, <2>2
<1>8. StoredByOwner'
  BY <1>1 DEF StoredByOwner
<1>9. PendingHasOwner'
  <2> SUFFICES ASSUME NEW k \in Keys, store[k] = "pending", k \notin broken'
               PROVE  \E q \in Reqs : req'[q].key = k /\ req'[q].owner
                                      /\ req'[q].pc \notin {"idle", "done"}
    BY DEF PendingHasOwner, Of, Live
  <2>1. PICK q \in Reqs : req[q].key = k /\ req[q].owner /\ req[q].pc \notin {"idle", "done"}
    BY DEF PendingHasOwner, Of, Live
  <2> QED BY <1>1, <1>2, <2>1
<1> QED BY <1>3, <1>4, <1>5, <1>6, <1>7, <1>8, <1>9

\* The fields of a record are what it was built from.
LEMMA Fields ==
    ASSUME NEW pc \in {"idle", "get", "claim", "run", "send", "save", "done"},
           NEW key \in Keys \cup {None}, NEW owner \in BOOLEAN,
           NEW answer \in Reqs \cup {"conflict", None}, NEW q,
           q = [pc |-> pc, key |-> key, owner |-> owner, answer |-> answer]
    PROVE  /\ q \in Request /\ q.pc = pc /\ q.key = key
           /\ q.owner <=> owner
           /\ q.answer = answer
  BY DEF Request

LEMMA IdleFields ==
    /\ Idle \in Request /\ Idle.pc = "idle" /\ Idle.key = None /\ ~Idle.owner
    /\ Idle.answer = None
<1>1. PICK b \in BOOLEAN : b = FALSE
  OBVIOUS
<1>2. Idle = [pc |-> "idle", key |-> None, owner |-> b, answer |-> None]
  BY <1>1, Zenon DEF Idle
<1>3. ~Idle.owner
  BY <1>1, <1>2, Fields
<1> QED BY <1>2, <1>3, Fields

LEMMA InitInvariant == Init => IInv
<1> SUFFICES ASSUME Init PROVE IInv
  OBVIOUS
<1>1. /\ \A r \in Reqs : req[r] = Idle
      /\ \A k \in Keys : store[k] = None
      /\ req \in [Reqs -> Request]
  BY IdleFields DEF Init
<1>2. TypeOK
  BY <1>1 DEF Init, TypeOK
<1>3. Keyed /\ OwnersClaimed /\ OneOwner
  BY <1>1, IdleFields DEF Keyed, OwnersClaimed, OneOwner, At
<1>4. None \notin Reqs /\ None # "pending"
  BY ResponseAssumption
<1>5. AnswersGenuine /\ StoredByOwner /\ PendingHasOwner
  BY <1>1, <1>4, IdleFields DEF AnswersGenuine, StoredByOwner, PendingHasOwner
<1> QED BY <1>2, <1>3, <1>5 DEF IInv

\* Typing facts of one request, and what it was told last.
LEMMA Typed ==
    ASSUME IInv, NEW r \in Reqs
    PROVE  /\ req[r] \in Request /\ req[r].owner \in BOOLEAN
           /\ req[r].answer \in Reqs \cup {"conflict", None}
           /\ ~At(r, "idle") => req[r].key \in Keys
           /\ store \in [Keys -> Reqs \cup {None, "pending"}]
           /\ effects \subseteq Reqs /\ broken \subseteq Keys
  BY DEF IInv, TypeOK, Request, Keyed

LEMMA ArriveKeeps ==
    ASSUME IInv, NEW r \in Reqs, NEW k \in Keys, Arrive(r, k) PROVE IInv'
<1> USE DEF IInv, At, Arrive
<1>1. req[r] = Idle
  BY DEF Keyed
<1>2. PICK q : q = [Idle EXCEPT !.pc = "get", !.key = k]
  OBVIOUS
<1>3. q \in Request /\ q.pc = "get" /\ q.key = k /\ ~q.owner /\ q.answer = None
  BY <1>2, IdleFields DEF Request
<1>4. req' = [req EXCEPT ![r] = q]
  BY <1>2
<1>5. req'[r] = q /\ \A p \in Reqs : p # r => req'[p] = req[p]
  BY <1>4 DEF TypeOK
<1>6. ~req[r].owner
  BY <1>1, IdleFields
<1>7. TypeOK'
  BY <1>3, <1>4 DEF TypeOK
<1>8. Keyed'
  BY <1>3, <1>5 DEF Keyed
<1>9. OwnersClaimed'
  BY <1>3, <1>5 DEF OwnersClaimed
<1>10. OneOwner'
  <2> SUFFICES ASSUME NEW x \in Reqs, NEW y \in Reqs, req'[x].owner
               PROVE  /\ store'[req'[x].key] # None
                      /\ req'[y].owner /\ req'[x].key = req'[y].key => x = y
    BY DEF OneOwner
  <2>1. x # r /\ req'[x] = req[x] /\ (req'[y].owner => y # r)
    BY <1>3, <1>5
  <2> QED BY <1>5, <2>1 DEF OneOwner
<1>11. AnswersGenuine'
  <2> SUFFICES ASSUME NEW x \in Reqs, req'[x].answer \in Reqs PROVE Genuine(x)'
    BY DEF AnswersGenuine
  <2>1. x # r /\ req'[x] = req[x]
    BY <1>3, <1>5, ResponseAssumption
  <2>2. Genuine(x)
    BY <2>1 DEF AnswersGenuine
  <2>3. req[x].answer # x => req[x].answer # r
    BY <1>6, <2>2 DEF Genuine
  <2> QED BY <1>5, <2>1, <2>2, <2>3 DEF Genuine
<1>12. StoredByOwner'
  BY <1>3, <1>5, <1>6 DEF StoredByOwner
<1>13. PendingHasOwner'
  BY <1>3, <1>5, <1>6 DEF PendingHasOwner, Of, Live
<1> QED BY <1>7, <1>8, <1>9, <1>10, <1>11, <1>12, <1>13

LEMMA GetKeeps == ASSUME IInv, NEW r \in Reqs, Get(r) PROVE IInv'
<1> USE DEF Get, At, Answer, Goto
<1> DEFINE existing == store[req[r].key]
<1>1. /\ ~At(r, "idle") /\ req[r].key \in Keys /\ ~req[r].owner
      /\ req[r] \in Request /\ existing \in Reqs \cup {None, "pending"}
  BY Typed DEF IInv, OwnersClaimed
<1>2. CASE existing \in Reqs
  <2>1. req' = [req EXCEPT ![r] = [req[r] EXCEPT !.pc = "done", !.answer = existing]]
    BY <1>1, <1>2 DEF Request
  <2>2. req[existing].owner /\ req[existing].key = req[r].key
    BY <1>1, <1>2 DEF IInv, StoredByOwner
  <2>8. Move(r, "done", existing)
    BY <1>1, <1>2, <2>1, <2>2, Typed DEF Move, At
  <2> QED BY <2>8, Moves
<1>3. CASE existing \notin Reqs
  <2>1. req' = [req EXCEPT ![r] = [req[r] EXCEPT !.pc = "claim", !.answer = req[r].answer]]
    BY <1>1, <1>3 DEF Request
  <2>8. Move(r, "claim", req[r].answer)
    BY <1>1, <2>1, Typed DEF Move, At
  <2> QED BY <2>8, Moves
<1> QED BY <1>2, <1>3

LEMMA ClaimKeeps == ASSUME IInv, NEW r \in Reqs, Claim(r) PROVE IInv'
<1> USE DEF Claim, At, Answer
<1>1. /\ ~At(r, "idle") /\ req[r].key \in Keys /\ ~req[r].owner
      /\ req[r] \in Request
  BY Typed DEF IInv, OwnersClaimed
<1>2. CASE store[req[r].key] # None
  <2>1. req' = [req EXCEPT ![r] = [req[r] EXCEPT !.pc = "done", !.answer = "conflict"]]
    BY <1>1, <1>2 DEF Request
  <2>8. Move(r, "done", "conflict")
    BY <1>1, <1>2, <2>1, Typed, ResponseAssumption DEF Move, At
  <2> QED BY <2>8, Moves
<1>3. CASE store[req[r].key] = None
  <2> USE DEF IInv
  <2>0. PICK p : p = [req[r] EXCEPT !.pc = "run", !.owner = TRUE]
    OBVIOUS
  <2>p. /\ p \in Request /\ p.pc = "run" /\ p.key = req[r].key /\ p.owner
        /\ p.answer = req[r].answer
    BY <1>1, <2>0 DEF Request
  <2>1. req' = [req EXCEPT ![r] = p] /\ store' = [store EXCEPT ![req[r].key] = "pending"]
    BY <1>1, <1>3, <2>0 DEF TypeOK, Request
  <2>2. /\ req'[r] = p
        /\ \A q \in Reqs : q # r => req'[q] = req[q]
        /\ store'[req[r].key] = "pending"
        /\ \A k \in Keys : k # req[r].key => store'[k] = store[k]
    BY <1>1, <2>1 DEF TypeOK
  <2>3. \A q \in Reqs : req[q].owner => req[q].key # req[r].key
    BY <1>3 DEF OneOwner
  <2>4. TypeOK'
    BY <1>1, <1>3, <2>1, <2>p DEF TypeOK
  <2>5. Keyed'
    BY <1>1, <2>p, <2>2 DEF Keyed
  <2>6. OwnersClaimed'
    BY <2>p, <2>2 DEF OwnersClaimed
  <2>7. OneOwner'
    <3> SUFFICES ASSUME NEW x \in Reqs, NEW y \in Reqs, req'[x].owner
                 PROVE  /\ store'[req'[x].key] # None
                        /\ req'[y].owner /\ req'[x].key = req'[y].key => x = y
      BY DEF OneOwner
    <3>1. /\ x # r => req[x].owner /\ req[x].key \in Keys /\ store[req[x].key] # None
          /\ y # r /\ req'[y].owner => req[y].key # req[r].key
      BY <2>2, <2>3 DEF OneOwner, OwnersClaimed, Keyed
    <3>2. store'[req'[x].key] # None
      BY <1>1, <2>p, <2>2, <3>1, ResponseAssumption
    <3>3. req'[y].owner /\ req'[x].key = req'[y].key => x = y
      BY <2>p, <2>2, <2>3, <3>1 DEF OneOwner
    <3> QED BY <3>2, <3>3
  <2>8. AnswersGenuine'
    BY <1>1, <2>p, <2>2 DEF AnswersGenuine, Genuine
  <2>9. StoredByOwner'
    BY <1>1, <2>p, <2>2, ResponseAssumption DEF StoredByOwner
  <2>10. PendingHasOwner'
    BY <1>1, <2>p, <2>2 DEF PendingHasOwner, Of, Live
  <2> QED BY <2>4, <2>5, <2>6, <2>7, <2>8, <2>9, <2>10
<1> QED BY <1>2, <1>3

LEMMA ClaimUnansweredKeeps == ASSUME IInv, NEW r \in Reqs, ClaimUnanswered(r) PROVE IInv'
<1> USE DEF ClaimUnanswered, IInv
<1>1. /\ UNCHANGED <<req, effects>> /\ req[r].key \in Keys /\ store[req[r].key] = None
      /\ store'[req[r].key] = "pending" /\ broken' = broken \cup {req[r].key}
      /\ \A k \in Keys : k # req[r].key => store'[k] = store[k]
  BY Typed DEF TypeOK, At
<1>2. TypeOK'
  BY <1>1 DEF TypeOK
<1>3. Keyed' /\ OwnersClaimed' /\ AnswersGenuine'
  BY <1>1 DEF Keyed, OwnersClaimed, AnswersGenuine, Genuine, At
<1>4. OneOwner'
  BY <1>1, ResponseAssumption DEF OneOwner, OwnersClaimed, Keyed, At
<1>5. StoredByOwner'
  BY <1>1, ResponseAssumption DEF StoredByOwner
<1>6. PendingHasOwner'
  BY <1>1 DEF PendingHasOwner, Of, Live
<1> QED BY <1>2, <1>3, <1>4, <1>5, <1>6

LEMMA FailOpenKeeps == ASSUME IInv, NEW r \in Reqs, FailOpen(r) PROVE IInv'
<1> USE DEF FailOpen, At, Goto
<1>1. /\ ~At(r, "idle") /\ req[r].key \in Keys /\ ~req[r].owner /\ req[r] \in Request
  BY Typed DEF IInv, OwnersClaimed
<1>2. req' = [req EXCEPT ![r] = [req[r] EXCEPT !.pc = "run", !.answer = req[r].answer]]
  BY <1>1 DEF Request
<1>3. Move(r, "run", req[r].answer)
  BY <1>1, <1>2, Typed DEF Move, At
<1> QED BY <1>3, Moves

LEMMA HandleKeeps == ASSUME IInv, NEW r \in Reqs, Handle(r) PROVE IInv'
<1>1. /\ ~At(r, "idle") /\ req[r] \in Request
      /\ req' = [req EXCEPT ![r] = [req[r] EXCEPT !.pc = "send", !.answer = req[r].answer]]
  BY Typed DEF Handle, At, Goto, Request
<1>8. Move(r, "send", req[r].answer)
  BY <1>1, Typed DEF Handle, At, Move
<1> QED BY <1>8, Moves

LEMMA SendKeeps == ASSUME IInv, NEW r \in Reqs, Send(r) PROVE IInv'
<1>1. /\ ~At(r, "idle") /\ req[r] \in Request
      /\ UNCHANGED <<store, effects, broken>>
  BY Typed DEF Send, At
<1>2. CASE req[r].owner
  <2>1. req' = [req EXCEPT ![r] = [req[r] EXCEPT !.pc = "save", !.answer = r]]
    BY <1>1, <1>2 DEF Send, Answer, Request
  <2>8. Move(r, "save", r)
    BY <1>1, <1>2, <2>1, Typed DEF Move, At
  <2> QED BY <2>8, Moves
<1>3. CASE ~req[r].owner
  <2>1. req' = [req EXCEPT ![r] = [req[r] EXCEPT !.pc = "done", !.answer = r]]
    BY <1>1, <1>3 DEF Send, Answer, Request
  <2>8. Move(r, "done", r)
    BY <1>1, <1>3, <2>1, Typed DEF Move, At
  <2> QED BY <2>8, Moves
<1> QED BY <1>2, <1>3

LEMMA DisconnectKeeps == ASSUME IInv, NEW r \in Reqs, Disconnect(r) PROVE IInv'
<1>1. /\ ~At(r, "idle") /\ req[r] \in Request
      /\ req' = [req EXCEPT ![r] = [req[r] EXCEPT !.pc = "done", !.answer = req[r].answer]]
  BY Typed DEF Disconnect, At, Goto, Request
<1>8. Move(r, "done", req[r].answer)
  BY <1>1, Typed DEF Disconnect, At, Move
<1> QED BY <1>8, Moves

\* Writing back an answer that is there changes nothing.
LEMMA Finished ==
    ASSUME NEW q \in Request, NEW s,
           s = [pc |-> "done", key |-> q.key, owner |-> q.owner, answer |-> q.answer]
    PROVE  /\ [q EXCEPT !.pc = "done"] = s
           /\ [q EXCEPT !.pc = "done", !.answer = q.answer] = s
<1>1. [q EXCEPT !.pc = "done"] = s
  BY DEF Request
<1>2. [s EXCEPT !.answer = q.answer] = s
  OBVIOUS
<1> QED BY <1>1, <1>2, Zenon

LEMMA SaveKeeps == ASSUME IInv, NEW r \in Reqs, Save(r) PROVE IInv'
<1>a. ~At(r, "idle") /\ req[r].key \in Keys /\ req[r].owner /\ req[r] \in Request
  BY Typed, Zenon DEF IInv, OwnersClaimed, Save, At
<1>b. PICK s : s = [pc |-> "done", key |-> req[r].key, owner |-> req[r].owner,
                    answer |-> req[r].answer]
  OBVIOUS
<1>c. /\ [req[r] EXCEPT !.pc = "done"] = s
      /\ [req[r] EXCEPT !.pc = "done", !.answer = req[r].answer] = s
  BY <1>a, <1>b, Finished
<1>d. req' = [req EXCEPT ![r] = s]
  BY <1>c, Zenon DEF Save, Goto
<1>e. req'[r] = s /\ \A q \in Reqs : q # r => req'[q] = req[q]
  BY <1>d DEF IInv, TypeOK
<1> USE DEF Save, At, Goto
<1>1. /\ ~At(r, "idle") /\ req[r].key \in Keys /\ req[r].owner /\ req[r] \in Request
      /\ req' = [req EXCEPT ![r] = [req[r] EXCEPT !.pc = "done", !.answer = req[r].answer]]
  BY <1>a, <1>c, <1>d, Zenon
<1>2. CASE store' = [store EXCEPT ![req[r].key] = r] /\ UNCHANGED broken
  <2> USE DEF IInv
  <2>0. /\ req'[r] = [pc |-> "done", key |-> req[r].key, owner |-> req[r].owner,
                      answer |-> req[r].answer]
        /\ \A q \in Reqs : q # r => req'[q] = req[q]
    BY <1>b, <1>e, Zenon
  <2>1. /\ store'[req[r].key] = r
        /\ \A k \in Keys : k # req[r].key => store'[k] = store[k]
    BY <1>1, <1>2 DEF TypeOK
  <2>2. TypeOK'
    BY <1>1, <1>2 DEF TypeOK, Request
  <2>3. Keyed'
    BY <1>1, <2>0, <2>1 DEF Keyed
  <2>4. OwnersClaimed'
    BY <1>1, <2>0, <2>1 DEF OwnersClaimed
  <2>5. OneOwner'
    BY <1>1, <2>1, Typed, ResponseAssumption DEF OneOwner, OwnersClaimed
  <2>6. AnswersGenuine'
    BY <1>1, <2>0, <2>1 DEF AnswersGenuine, Genuine
  <2>7. StoredByOwner'
    BY <1>1, <2>0, <2>1 DEF StoredByOwner
  <2>8. PendingHasOwner'
    <3> SUFFICES ASSUME NEW k \in Keys, store'[k] = "pending", k \notin broken'
                 PROVE  \E q \in Reqs : req'[q].key = k /\ req'[q].owner
                                        /\ req'[q].pc \notin {"idle", "done"}
      BY DEF PendingHasOwner, Of, Live
    <3>1. k # req[r].key /\ store[k] = "pending" /\ k \notin broken
      BY <1>2, <2>1, ResponseAssumption
    <3> QED BY <2>0, <2>1, <3>1 DEF PendingHasOwner, Of, Live
  <2> QED BY <2>2, <2>3, <2>4, <2>5, <2>6, <2>7, <2>8
<1>3. CASE broken' = broken \cup {req[r].key} /\ UNCHANGED store
  <2>8. Move(r, "done", req[r].answer)
    BY <1>1, <1>3, Typed DEF Move, At
  <2> QED BY <2>8, Moves
<1> QED BY <1>2, <1>3

LEMMA CrashKeeps == ASSUME IInv, Crash PROVE IInv'
<1> USE DEF IInv, At
<1>1. \A r \in Reqs : /\ req'[r].key = req[r].key /\ req'[r].owner = req[r].owner
                      /\ req'[r].answer = req[r].answer
                      /\ req'[r].pc = IF Live(r) THEN "done" ELSE req[r].pc
                      /\ req'[r] \in Request
                      /\ ~Live(r) => req'[r] = req[r]
  BY DEF Crash, TypeOK, Request
<1>2. /\ store' = store /\ effects' = effects /\ broken \subseteq broken'
      /\ \A r \in Reqs : Live(r) /\ req[r].owner => req[r].key \in broken'
  BY DEF Crash
<1>3. TypeOK'
  <2>1. req' \in [Reqs -> Request]
    BY <1>1 DEF Crash
  <2>2. broken' \subseteq Keys
    BY DEF Crash, TypeOK, Keyed, Live
  <2> QED BY <1>2, <2>1, <2>2 DEF TypeOK
<1>4. Keyed'
  BY <1>1 DEF Keyed, Live
<1>5. OwnersClaimed'
  BY <1>1 DEF OwnersClaimed, Live
<1>6. OneOwner'
  BY <1>1, <1>2 DEF OneOwner
<1>7. AnswersGenuine'
  BY <1>1 DEF AnswersGenuine, Genuine
<1>8. StoredByOwner'
  BY <1>1, <1>2 DEF StoredByOwner
<1>9. PendingHasOwner'
  <2> SUFFICES ASSUME NEW k \in Keys, store[k] = "pending", k \notin broken' PROVE FALSE
    BY <1>2 DEF PendingHasOwner
  <2> QED BY <1>2 DEF PendingHasOwner, Of
<1> QED BY <1>3, <1>4, <1>5, <1>6, <1>7, <1>8, <1>9

LEMMA ExpireKeeps == ASSUME IInv, NEW k \in Keys, Expire(k) PROVE IInv'
<1> USE DEF IInv, At
<1>1. \A r \in Reqs : req'[r] = IF req[r].key = k THEN Idle ELSE req[r]
  BY DEF Expire, Of
<1>2. store'[k] = None /\ \A j \in Keys : j # k => store'[j] = store[j]
  BY DEF Expire, TypeOK
<1>3. effects' \subseteq effects /\ broken' = broken \ {k}
  BY DEF Expire
<1>4. TypeOK'
  <2>1. req' \in [Reqs -> Request]
    BY IdleFields DEF Expire, TypeOK
  <2> QED BY <1>3, <2>1 DEF TypeOK, Expire
<1>5. Keyed'
  BY <1>1, IdleFields DEF Keyed
<1>6. OwnersClaimed'
  BY <1>1, IdleFields DEF OwnersClaimed
<1>7. OneOwner'
  <2> SUFFICES ASSUME NEW x \in Reqs, NEW y \in Reqs, req'[x].owner
               PROVE  /\ store'[req'[x].key] # None
                      /\ req'[y].owner /\ req'[x].key = req'[y].key => x = y
    BY DEF OneOwner
  <2>1. req[x].key # k /\ req'[x] = req[x] /\ (req'[y].owner => req'[y] = req[y])
    BY <1>1, IdleFields
  <2>2. req[x].key \in Keys
    BY <2>1, IdleFields DEF Keyed
  <2> QED BY <1>2, <2>1, <2>2 DEF OneOwner
<1>8. AnswersGenuine'
  <2> SUFFICES ASSUME NEW x \in Reqs, req'[x].answer \in Reqs PROVE Genuine(x)'
    BY DEF AnswersGenuine
  <2>1. req[x].key # k /\ req'[x] = req[x]
    BY <1>1, IdleFields, ResponseAssumption
  <2>2. Genuine(x)
    BY <2>1 DEF AnswersGenuine
  <2> QED BY <1>1, <2>1, <2>2 DEF Genuine
<1>9. StoredByOwner'
  BY <1>1, <1>2, ResponseAssumption DEF StoredByOwner
<1>10. PendingHasOwner'
  BY <1>1, <1>2, <1>3, ResponseAssumption DEF PendingHasOwner, Of, Live
<1> QED BY <1>4, <1>5, <1>6, <1>7, <1>8, <1>9, <1>10

LEMMA NextInvariant == IInv /\ [Next]_vars => IInv'
<1> SUFFICES ASSUME IInv, [Next]_vars PROVE IInv'
  OBVIOUS
<1>1. CASE UNCHANGED vars
  BY <1>1 DEF vars, IInv, TypeOK, Keyed, OwnersClaimed, OneOwner, AnswersGenuine, Genuine,
              StoredByOwner, PendingHasOwner, Of, Live, At
<1>2. CASE \E r \in Reqs : \/ \E k \in Keys : Arrive(r, k)
                           \/ Step(r) \/ ClaimUnanswered(r) \/ FailOpen(r)
                           \/ Disconnect(r)
  BY <1>2, ArriveKeeps, GetKeeps, ClaimKeeps, HandleKeeps, SendKeeps, SaveKeeps,
     ClaimUnansweredKeeps, FailOpenKeeps, DisconnectKeeps DEF Step
<1>3. CASE Crash
  BY <1>3, CrashKeeps
<1>4. CASE \E k \in Keys : Expire(k)
  BY <1>4, ExpireKeeps
<1> QED BY <1>1, <1>2, <1>3, <1>4 DEF Next

LEMMA Invariance == Spec => []IInv
<1> QED BY InitInvariant, NextInvariant, PTL DEF Spec

-----------------------------------------------------------------------------
(* The properties.                                                         *)

\* The state of the middleware is well typed (idempotency.middleware.js).
THEOREM IdempotencyTyped == Spec => []TypeOK
<1>1. IInv => TypeOK
  BY DEF IInv
<1> QED BY <1>1, Invariance, PTL

LEMMA AtMostOne ==
    ASSUME NEW S, \A x, y \in S : x = y
    PROVE  Cardinality(S) <= 1
<1>1. CASE S = {}
  BY <1>1, FS_EmptySet
<1>2. CASE S # {}
  <2>1. PICK x : S = {x}
    BY <1>2
  <2> QED BY <2>1, FS_Singleton
<1> QED BY <1>1, <1>2

\* A key's handler has its effect once however many requests submit the key,
\* unless Redis failed before the claim (idempotency.middleware.js:23-32).
THEOREM EffectOnce == Spec => []OneEffect
<1>1. ASSUME IInv PROVE OneEffect
  <2> SUFFICES ASSUME NEW k \in Keys
               PROVE  Cardinality((effects \cap Of(k)) \ Unprotected) <= 1
    BY DEF OneEffect
  <2>1. \A r \in (effects \cap Of(k)) \ Unprotected :
            r \in Reqs /\ req[r].owner /\ req[r].key = k
    BY DEF Of, Unprotected
  <2>2. \A x, y \in (effects \cap Of(k)) \ Unprotected : x = y
    BY <1>1, <2>1 DEF IInv, OneOwner
  <2> QED BY <2>2, AtMostOne
<1> QED BY <1>1, Invariance, PTL

\* Two submissions of a key are never told different responses (FR-028).
THEOREM AnswerOnce == Spec => []SameAnswer
<1>1. ASSUME IInv PROVE SameAnswer
  <2> SUFFICES ASSUME NEW k \in Keys, NEW r \in Of(k) \ Unprotected, NEW q \in Of(k) \ Unprotected,
                      req[r].answer \in Reqs, req[q].answer \in Reqs
               PROVE  req[r].answer = req[q].answer
    BY DEF SameAnswer
  <2>1. ASSUME NEW x \in Of(k) \ Unprotected, req[x].answer \in Reqs
        PROVE  req[req[x].answer].owner /\ req[req[x].answer].key = k
    <3>1. x \in Reqs /\ req[x].key = k /\ Genuine(x)
      BY <1>1, <2>1 DEF Of, IInv, AnswersGenuine
    <3>2. req[x].answer = x => req[x].owner
      BY <2>1, <3>1 DEF Unprotected
    <3> QED BY <3>1, <3>2 DEF Genuine
  <2> QED BY <1>1, <2>1 DEF IInv, OneOwner
<1> QED BY <1>1, Invariance, PTL

\* A conflict that says "in progress" tells the truth, unless a fault took the
\* key's owner away (idempotency.middleware.js:57).
THEOREM ConflictMeansInProgress == Spec => []PendingHasOwner
<1>1. IInv => PendingHasOwner
  BY DEF IInv
<1> QED BY <1>1, Invariance, PTL
-----------------------------------------------------------------------------
(* The middleware implements WriteOnce.                                    *)

\* A request is told nothing, and has no effect, ahead of its time; what is
\* stored was told to the request it comes from.
Fresh == \A r \in Reqs :
    /\ req[r].pc \in {"idle", "get", "claim", "run", "send"} => req[r].answer = None
    /\ req[r].pc \in {"idle", "get", "claim", "run"} => r \notin effects
StoredTold == \A k \in Keys : store[k] \in Reqs => req[store[k]].answer = store[k]

RInv == Fresh /\ StoredTold

\* What a request was told, as far as its key stands for it.
Heard(r, q) == IF q.answer = r /\ ~q.owner THEN None ELSE q.answer

\* A step of one request.
Single(r, q) == /\ q \in Request /\ req' = [req EXCEPT ![r] = q]
                /\ effects' \ {r} = effects \ {r} /\ effects' \subseteq Reqs

\* It changes what the abstract key sees of r, and of no other request.
LEMMA SingleMaps ==
    ASSUME IInv, NEW r \in Reqs, NEW q, Single(r, q)
    PROVE  /\ req'[r] = q /\ \A s \in Reqs : s # r => req'[s] = req[s]
           /\ asked' = [asked EXCEPT ![r] = q.key]
           /\ q.key = req[r].key => asked' = asked
           /\ told' = [told EXCEPT ![r] = Heard(r, q)]
           /\ Heard(r, q) = Heard(r, req[r]) => told' = told
           /\ q.owner => chosen' = chosen \cup {r}
           /\ (q.owner <=> req[r].owner) => chosen' = chosen
           /\ q.owner /\ r \in effects' => ran' = ran \cup {r}
           /\ (q.owner /\ r \in effects' <=> req[r].owner /\ r \in effects) => ran' = ran
<1>1. /\ req'[r] = q /\ \A s \in Reqs : s # r => req'[s] = req[s]
      /\ effects \subseteq Reqs
  BY DEF Single, IInv, TypeOK
<1>2. asked' = [asked EXCEPT ![r] = q.key] /\ (q.key = req[r].key => asked' = asked)
  BY <1>1 DEF asked
<1>3. \A s \in Reqs : s # r => (s \in chosen' <=> s \in chosen)
  BY <1>1 DEF chosen
<1>4. (r \in chosen' <=> q.owner) /\ (r \in chosen <=> req[r].owner)
  BY <1>1, Zenon DEF chosen
<1>5. chosen' \subseteq Reqs /\ chosen \subseteq Reqs
  BY DEF chosen
<1>6. /\ r \in chosen' => chosen' = chosen \cup {r}
      /\ (r \in chosen' <=> r \in chosen) => chosen' = chosen
  BY <1>3, <1>5
<1>7. \A s : s # r => (s \in ran' <=> s \in ran)
  BY <1>3, <1>5 DEF ran, Single
<1>8. (r \in ran' <=> r \in effects' /\ r \in chosen') /\ (r \in ran <=> r \in effects /\ r \in chosen)
  BY DEF ran
<1>9. /\ r \in ran' => ran' = ran \cup {r}
      /\ (r \in ran' <=> r \in ran) => ran' = ran
  BY <1>7
<1>10. \A s \in Reqs : told'[s] = IF s = r THEN Heard(r, q) ELSE told[s]
  BY <1>1 DEF told, chosen, Heard
<1>11. told[r] = Heard(r, req[r])
  BY DEF told, chosen, Heard
<1>12. told' = [told EXCEPT ![r] = Heard(r, q)] /\ (Heard(r, q) = Heard(r, req[r]) => told' = told)
  BY <1>10, <1>11 DEF told
<1> QED BY <1>1, <1>2, <1>4, <1>6, <1>8, <1>9, <1>12, Zenon

\* Such a step that names no key, claims nothing, has no effect for the key and
\* tells nobody is no step of the key.
LEMMA SingleStutters ==
    ASSUME IInv, NEW r \in Reqs, NEW q, Single(r, q), q.key = req[r].key,
           q.owner <=> req[r].owner, Heard(r, q) = Heard(r, req[r]),
           req[r].owner => (r \in effects' <=> r \in effects)
    PROVE  UNCHANGED Once!once
<1>1. asked' = asked /\ told' = told /\ chosen' = chosen /\ ran' = ran
  BY SingleMaps, Zenon
<1> QED BY <1>1 DEF Once!once

\* What such a step must respect to keep RInv.
LEMMA FreshKept ==
    ASSUME IInv, RInv, NEW r \in Reqs, NEW q, Single(r, q),
           q.pc \in {"idle", "get", "claim", "run", "send"} => q.answer = None,
           q.pc \in {"idle", "get", "claim", "run"} => r \notin effects',
           q.answer = req[r].answer \/ req[r].pc \in {"idle", "get", "claim", "run", "send"},
           UNCHANGED store \/ (q.answer = r /\ store' = [store EXCEPT ![req[r].key] = r])
    PROVE  RInv'
<1>1. req'[r] = q /\ \A s \in Reqs : s # r => req'[s] = req[s]
  BY SingleMaps
<1>2. Fresh'
  BY <1>1 DEF Fresh, RInv, Single
<1>3. \A s \in Reqs : req[s].answer = s => req'[s].answer = s
  BY <1>1, ResponseAssumption DEF Fresh, RInv
<1>4. StoredTold'
  BY <1>1, <1>3 DEF StoredTold, RInv, IInv, TypeOK
<1> QED BY <1>2, <1>4 DEF RInv

\* Each action keeps RInv and is the abstract step named here, or none.
LEMMA ArriveMaps ==
    ASSUME IInv, RInv, NEW r \in Reqs, NEW k \in Keys, Arrive(r, k)
    PROVE  RInv' /\ Once!Ask(r, k)
<1>1. PICK q : q = [Idle EXCEPT !.pc = "get", !.key = k]
  OBVIOUS
<1>2. q \in Request /\ q.pc = "get" /\ q.key = k /\ ~q.owner /\ q.answer = None
  BY <1>1, IdleFields DEF Request
<1>3. req[r] = Idle /\ At(r, "idle") /\ r \notin effects
  BY DEF Arrive, At, IInv, Keyed, RInv, Fresh
<1>4. Single(r, q) /\ UNCHANGED <<store, effects>>
  BY <1>1, <1>2 DEF Arrive, Single, IInv, TypeOK
<1>5. RInv'
  BY <1>2, <1>3, <1>4, FreshKept DEF At
<1>6. asked[r] = None
  BY <1>3, IdleFields DEF asked
<1>7. Heard(r, q) = None
  BY <1>2 DEF Heard
<1>8. ~req[r].owner /\ Heard(r, req[r]) = None
  BY <1>3, IdleFields DEF Heard
<1>9. asked' = [asked EXCEPT ![r] = k] /\ told' = told /\ chosen' = chosen /\ ran' = ran
  BY <1>2, <1>4, <1>7, <1>8, SingleMaps, Zenon
<1> QED BY <1>5, <1>6, <1>9 DEF Once!Ask

\* A request on its way through the middleware.
LEMMA Underway ==
    ASSUME IInv, RInv, NEW r \in Reqs, ~At(r, "idle")
    PROVE  /\ req[r] \in Request /\ req[r].key \in Keys /\ asked[r] = req[r].key
           /\ effects \subseteq Reqs
           /\ r \in chosen <=> req[r].owner
           /\ At(r, "get") \/ At(r, "claim") => ~req[r].owner
           /\ At(r, "get") \/ At(r, "claim") \/ At(r, "run") => r \notin effects
           /\ At(r, "get") \/ At(r, "claim") \/ At(r, "run") \/ At(r, "send")
              => req[r].answer = None /\ told[r] = None
<1>1. req[r] \in Request /\ req[r].key \in Keys /\ effects \subseteq Reqs
  BY Typed
<1>2. asked[r] = req[r].key /\ (r \in chosen <=> req[r].owner)
  BY DEF asked, chosen
<1>3. At(r, "get") \/ At(r, "claim") => ~req[r].owner
  BY DEF IInv, OwnersClaimed, At
<1>4. At(r, "get") \/ At(r, "claim") \/ At(r, "run") => r \notin effects
  BY DEF RInv, Fresh, At
<1>5. At(r, "get") \/ At(r, "claim") \/ At(r, "run") \/ At(r, "send") => req[r].answer = None
  BY DEF RInv, Fresh, At
<1>6. req[r].answer = None => told[r] = None
  BY DEF told
<1> QED BY <1>1, <1>2, <1>3, <1>4, <1>5, <1>6

LEMMA GetMaps ==
    ASSUME IInv, RInv, NEW r \in Reqs, Get(r)
    PROVE  RInv' /\ (Once!Replay(r) \/ UNCHANGED Once!once)
<1>0. /\ req[r] \in Request /\ req[r].key \in Keys /\ ~req[r].owner /\ r \notin chosen
      /\ r \notin effects /\ req[r].answer = None /\ told[r] = None /\ asked[r] = req[r].key
      /\ effects \subseteq Reqs /\ At(r, "get") /\ UNCHANGED <<store, effects>>
  BY Underway DEF Get, At
<1>1. CASE store[req[r].key] \in Reqs
  <2>1. PICK a \in Reqs : a = store[req[r].key]
    BY <1>1
  <2>2. PICK q : q = [req[r] EXCEPT !.pc = "done", !.answer = a]
    OBVIOUS
  <2>3. q \in Request /\ q.pc = "done" /\ q.key = req[r].key /\ ~q.owner /\ q.answer = a
    BY <1>0, <2>2 DEF Request
  <2>4. req' = [req EXCEPT ![r] = q]
    BY <1>0, <1>1, <2>1, <2>2 DEF Get, Answer, IInv, TypeOK, Request
  <2>5. Single(r, q)
    BY <1>0, <2>3, <2>4 DEF Single
  <2>6. RInv'
    BY <1>0, <2>3, <2>5, FreshKept DEF At
  <2>7. req[a].owner /\ req[a].key = req[r].key /\ req[a].answer = a /\ a # r
    BY <1>0, <2>1 DEF IInv, StoredByOwner, RInv, StoredTold
  <2>8. a \in Once!Winner(r) /\ told[a] = a
    BY <2>7 DEF Once!Winner, chosen, asked, told
  <2>9. Heard(r, q) = a
    BY <2>3, <2>7 DEF Heard
  <2>10. (q.owner <=> req[r].owner) /\ ~(q.owner /\ r \in effects') /\ ~(req[r].owner /\ r \in effects)
    BY <1>0, <2>3, Zenon
  <2>11. asked' = asked /\ told' = [told EXCEPT ![r] = Heard(r, q)] /\ chosen' = chosen /\ ran' = ran
    BY <2>3, <2>5, <2>10, SingleMaps, Zenon
  <2> QED BY <1>0, <2>6, <2>8, <2>9, <2>11 DEF Once!Replay, Once!Tell
<1>2. CASE store[req[r].key] \notin Reqs
  <2>1. PICK q : q = [req[r] EXCEPT !.pc = "claim"]
    OBVIOUS
  <2>2. q \in Request /\ q.pc = "claim" /\ q.key = req[r].key /\ ~q.owner /\ q.answer = None
    BY <1>0, <2>1 DEF Request
  <2>3. req' = [req EXCEPT ![r] = q]
    BY <1>0, <1>2, <2>1 DEF Get, Goto, IInv, TypeOK, Request
  <2>4. Single(r, q)
    BY <1>0, <2>2, <2>3 DEF Single
  <2>5. RInv'
    BY <1>0, <2>2, <2>4, FreshKept DEF At
  <2> QED BY <1>0, <2>2, <2>4, <2>5, SingleStutters DEF Heard
<1> QED BY <1>1, <1>2

LEMMA ClaimMaps ==
    ASSUME IInv, RInv, NEW r \in Reqs, Claim(r)
    PROVE  RInv' /\ (Once!Choose(r) \/ Once!Refuse(r))
<1>0. /\ req[r] \in Request /\ req[r].key \in Keys /\ ~req[r].owner /\ r \notin chosen
      /\ r \notin effects /\ req[r].answer = None /\ told[r] = None /\ asked[r] = req[r].key
      /\ effects \subseteq Reqs /\ At(r, "claim") /\ UNCHANGED effects
  BY Underway DEF Claim, At
<1>1. CASE store[req[r].key] = None
  <2>1. PICK q : q = [req[r] EXCEPT !.pc = "run", !.owner = TRUE]
    OBVIOUS
  <2>2. q \in Request /\ q.pc = "run" /\ q.key = req[r].key /\ q.owner /\ q.answer = None
    BY <1>0, <2>1 DEF Request
  <2>3. req' = [req EXCEPT ![r] = q] /\ store' = [store EXCEPT ![req[r].key] = "pending"]
    BY <1>0, <1>1, <2>1 DEF Claim, IInv, TypeOK, Request
  <2>4. Single(r, q)
    BY <1>0, <2>2, <2>3 DEF Single
  <2>5. req'[r] = q /\ \A s \in Reqs : s # r => req'[s] = req[s]
    BY <2>4, SingleMaps
  <2>6. Fresh'
    BY <1>0, <2>2, <2>5 DEF Fresh, RInv
  <2>7. StoredTold'
    BY <1>0, <2>2, <2>3, <2>5, ResponseAssumption DEF StoredTold, RInv, IInv, TypeOK
  <2>8. Once!Winner(r) = {}
    BY <1>0, <1>1 DEF Once!Winner, chosen, asked, IInv, OneOwner
  <2>9. Heard(r, q) = None
    BY <2>2 DEF Heard
  <2>10. Heard(r, req[r]) = None
    BY <1>0 DEF Heard
  <2>11. asked' = asked /\ told' = told /\ chosen' = chosen \cup {r} /\ ran' = ran
    BY <1>0, <2>2, <2>4, <2>9, <2>10, SingleMaps, Zenon
  <2> QED BY <1>0, <2>6, <2>7, <2>8, <2>11 DEF Once!Choose, RInv
<1>2. CASE store[req[r].key] # None
  <2>1. PICK q : q = [req[r] EXCEPT !.pc = "done", !.answer = "conflict"]
    OBVIOUS
  <2>2. q \in Request /\ q.pc = "done" /\ q.key = req[r].key /\ ~q.owner /\ q.answer = "conflict"
    BY <1>0, <2>1 DEF Request
  <2>3. req' = [req EXCEPT ![r] = q] /\ UNCHANGED store
    BY <1>0, <1>2, <2>1 DEF Claim, Answer, IInv, TypeOK, Request
  <2>4. Single(r, q)
    BY <1>0, <2>2, <2>3 DEF Single
  <2>5. RInv'
    BY <1>0, <2>2, <2>3, <2>4, FreshKept DEF At
  <2>6. Heard(r, q) = "conflict"
    BY <2>2, ResponseAssumption DEF Heard
  <2>7. (q.owner <=> req[r].owner) /\ ~(q.owner /\ r \in effects') /\ ~(req[r].owner /\ r \in effects)
    BY <1>0, <2>2, Zenon
  <2>8. asked' = asked /\ told' = [told EXCEPT ![r] = Heard(r, q)] /\ chosen' = chosen /\ ran' = ran
    BY <2>2, <2>4, <2>7, SingleMaps, Zenon
  <2> QED BY <1>0, <2>5, <2>6, <2>8 DEF Once!Refuse, Once!Tell
<1> QED BY <1>1, <1>2

LEMMA ClaimUnansweredMaps ==
    ASSUME IInv, RInv, NEW r \in Reqs, ClaimUnanswered(r)
    PROVE  RInv' /\ UNCHANGED Once!once
<1>1. UNCHANGED <<req, effects>>
  BY DEF ClaimUnanswered
<1>2. \A k \in Keys : store'[k] = store[k] \/ store'[k] = "pending"
  BY DEF ClaimUnanswered, IInv, TypeOK
<1>3. RInv'
  BY <1>1, <1>2, ResponseAssumption DEF RInv, Fresh, StoredTold
<1> QED BY <1>1, <1>3 DEF Once!once, asked, chosen, ran, told

LEMMA FailOpenMaps ==
    ASSUME IInv, RInv, NEW r \in Reqs, FailOpen(r)
    PROVE  RInv' /\ UNCHANGED Once!once
<1>0. /\ req[r] \in Request /\ req[r].key \in Keys /\ ~req[r].owner
      /\ r \notin effects /\ req[r].answer = None /\ effects \subseteq Reqs
      /\ At(r, "get") \/ At(r, "claim")
      /\ UNCHANGED <<store, effects>>
  BY Underway DEF FailOpen, At
<1>1. PICK q : q = [req[r] EXCEPT !.pc = "run"]
  OBVIOUS
<1>2. q \in Request /\ q.pc = "run" /\ q.key = req[r].key /\ ~q.owner /\ q.answer = None
  BY <1>0, <1>1 DEF Request
<1>3. req' = [req EXCEPT ![r] = q]
  BY <1>0, <1>1 DEF FailOpen, Goto, IInv, TypeOK, Request
<1>4. Single(r, q)
  BY <1>0, <1>2, <1>3 DEF FailOpen, Single
<1>5. RInv'
  BY <1>0, <1>2, <1>4, FreshKept DEF FailOpen
<1> QED BY <1>0, <1>2, <1>4, <1>5, SingleStutters DEF FailOpen, Heard

LEMMA HandleMaps ==
    ASSUME IInv, RInv, NEW r \in Reqs, Handle(r)
    PROVE  RInv' /\ (Once!Run(r) \/ UNCHANGED Once!once)
<1>0. /\ req[r] \in Request /\ r \notin effects /\ req[r].answer = None /\ told[r] = None
      /\ effects \subseteq Reqs /\ At(r, "run") /\ UNCHANGED store
      /\ effects' = effects \/ effects' = effects \cup {r}
      /\ r \in chosen <=> req[r].owner
  BY Underway DEF Handle, At
<1>1. PICK q : q = [req[r] EXCEPT !.pc = "send"]
  OBVIOUS
<1>2. /\ q \in Request /\ q.pc = "send" /\ q.key = req[r].key /\ q.answer = None
      /\ q.owner <=> req[r].owner
  BY <1>0, <1>1 DEF Request
<1>3. req' = [req EXCEPT ![r] = q]
  BY <1>0, <1>1 DEF Handle, Goto, IInv, TypeOK, Request
<1>4. Single(r, q)
  BY <1>0, <1>2, <1>3 DEF Single
<1>5. RInv'
  BY <1>0, <1>2, <1>4, FreshKept DEF At
<1>6. Heard(r, q) = None /\ Heard(r, req[r]) = None
  BY <1>0, <1>2 DEF Heard
<1>7. CASE q.owner /\ r \in effects'
  <2>1. asked' = asked /\ told' = told /\ chosen' = chosen /\ ran' = ran \cup {r}
    BY <1>2, <1>4, <1>6, <1>7, SingleMaps, Zenon
  <2>2. r \in chosen /\ r \notin ran
    BY <1>0, <1>2, <1>7 DEF ran
  <2> QED BY <1>0, <1>5, <2>1, <2>2 DEF Once!Run
<1>8. CASE ~(q.owner /\ r \in effects')
  <2>1. req[r].owner => (r \in effects' <=> r \in effects)
    BY <1>0, <1>2, <1>8, Zenon
  <2> QED BY <1>2, <1>4, <1>5, <1>6, <2>1, SingleStutters, Zenon
<1> QED BY <1>7, <1>8

LEMMA SendMaps ==
    ASSUME IInv, RInv, NEW r \in Reqs, Send(r)
    PROVE  RInv' /\ (Once!Respond(r) \/ UNCHANGED Once!once)
<1>0. /\ req[r] \in Request /\ req[r].answer = None /\ told[r] = None
      /\ effects \subseteq Reqs /\ At(r, "send") /\ UNCHANGED <<store, effects>>
      /\ r \in chosen <=> req[r].owner
  BY Underway DEF Send, At
<1>1. PICK q : \E pc \in {"save", "done"} : q = [req[r] EXCEPT !.pc = pc, !.answer = r]
                                             /\ req' = [req EXCEPT ![r] = q]
  BY <1>0 DEF Send, Answer, IInv, TypeOK, Request
<1>2. /\ q \in Request /\ q.pc \in {"save", "done"} /\ q.key = req[r].key /\ q.answer = r
      /\ q.owner <=> req[r].owner
  BY <1>0, <1>1 DEF Request
<1>3. Single(r, q)
  BY <1>0, <1>1, <1>2 DEF Single
<1>4. RInv'
  BY <1>0, <1>2, <1>3, FreshKept DEF At
<1>5. Heard(r, req[r]) = None
  BY <1>0 DEF Heard
<1>6. CASE q.owner
  <2>1. Heard(r, q) = r
    BY <1>2, <1>6 DEF Heard
  <2>2. q.owner /\ r \in effects' <=> req[r].owner /\ r \in effects
    BY <1>0, <1>2, Zenon
  <2>3. asked' = asked /\ told' = [told EXCEPT ![r] = Heard(r, q)] /\ chosen' = chosen /\ ran' = ran
    BY <1>2, <1>3, <2>2, SingleMaps, Zenon
  <2> QED BY <1>0, <1>2, <1>4, <1>6, <2>1, <2>3 DEF Once!Respond, Once!Tell
<1>7. CASE ~q.owner
  <2>1. Heard(r, q) = None
    BY <1>2, <1>7 DEF Heard
  <2> QED BY <1>0, <1>2, <1>3, <1>4, <1>5, <2>1, SingleStutters, Zenon
<1> QED BY <1>6, <1>7

\* The ends of a request tell nobody anything.
LEMMA EndMaps ==
    ASSUME IInv, RInv, NEW r \in Reqs, Disconnect(r) \/ Save(r)
    PROVE  RInv' /\ UNCHANGED Once!once
<1>0. /\ req[r] \in Request /\ req[r].key \in Keys /\ effects \subseteq Reqs /\ UNCHANGED effects
      /\ At(r, "send") \/ At(r, "save")
  BY Underway DEF Disconnect, Save, At
<1>1. PICK q : q = [req[r] EXCEPT !.pc = "done"]
  OBVIOUS
<1>2. /\ q \in Request /\ q.pc = "done" /\ q.key = req[r].key /\ q.answer = req[r].answer
      /\ q.owner <=> req[r].owner
  BY <1>0, <1>1 DEF Request
<1>3. req' = [req EXCEPT ![r] = q]
  BY <1>0, <1>1 DEF Disconnect, Save, Goto, IInv, TypeOK, Request
<1>4. Single(r, q)
  BY <1>0, <1>2, <1>3 DEF Single
<1>5. UNCHANGED store \/ (q.answer = r /\ store' = [store EXCEPT ![req[r].key] = r])
  BY <1>2 DEF Disconnect, Save, IInv, OwnersClaimed
<1>6. RInv'
  BY <1>2, <1>4, <1>5, FreshKept
<1>7. Heard(r, q) = Heard(r, req[r])
  BY <1>2, Zenon DEF Heard
<1> QED BY <1>0, <1>2, <1>4, <1>6, <1>7, SingleStutters, Zenon

LEMMA CrashMaps == ASSUME IInv, RInv, Crash PROVE RInv' /\ UNCHANGED Once!once
<1>1. \A r \in Reqs : /\ req'[r].key = req[r].key /\ req'[r].owner = req[r].owner
                      /\ req'[r].answer = req[r].answer
                      /\ req'[r].pc = req[r].pc \/ req'[r].pc = "done"
  BY DEF Crash, IInv, TypeOK, Request
<1>2. UNCHANGED <<store, effects>>
  BY DEF Crash
<1>3. RInv'
  BY <1>1, <1>2 DEF RInv, Fresh, StoredTold
<1>4. chosen' = chosen /\ asked' = asked
  BY <1>1 DEF chosen, asked
<1>5. told' = told /\ ran' = ran
  BY <1>1, <1>2, <1>4 DEF told, ran
<1> QED BY <1>3, <1>4, <1>5 DEF Once!once

LEMMA ExpireMaps == ASSUME IInv, RInv, NEW k \in Keys, Expire(k) PROVE RInv' /\ Once!Forget(k)
<1>1. \A r \in Reqs : req'[r] = IF req[r].key = k THEN Idle ELSE req[r]
  BY DEF Expire, Of
<1>2. /\ effects' = {r \in effects : r \notin Of(k)} /\ effects \subseteq Reqs
      /\ store'[k] = None /\ \A j \in Keys : j # k => store'[j] = store[j]
  BY DEF Expire, IInv, TypeOK
<1>3. Fresh'
  BY <1>1, <1>2, IdleFields DEF Fresh, RInv, Of
<1>4. StoredTold'
  <2> SUFFICES ASSUME NEW j \in Keys, store'[j] \in Reqs
               PROVE  req'[store'[j]].answer = store'[j]
    BY DEF StoredTold
  <2>1. j # k /\ store'[j] = store[j]
    BY <1>2, ResponseAssumption
  <2> QED BY <1>1, <2>1 DEF RInv, StoredTold, IInv, StoredByOwner
<1>5. asked' = [r \in Reqs |-> IF asked[r] = k THEN None ELSE asked[r]]
  BY <1>1, IdleFields DEF asked
<1>6. chosen' = {r \in chosen : asked[r] # k}
  BY <1>1, IdleFields DEF chosen, asked
<1>7. ran' = {r \in ran : asked[r] # k}
  BY <1>2, <1>6 DEF ran, chosen, asked, Of
<1>8. told' = [r \in Reqs |-> IF asked[r] = k THEN None ELSE told[r]]
  BY <1>1, <1>6, IdleFields DEF told, asked, chosen
<1> QED BY <1>3, <1>4, <1>5, <1>6, <1>7, <1>8 DEF RInv, Once!Forget

LEMMA OnceInit == Init => RInv /\ Once!Init
<1> SUFFICES ASSUME Init PROVE RInv /\ Once!Init
  OBVIOUS
<1>1. /\ \A r \in Reqs : req[r] = Idle
      /\ \A k \in Keys : store[k] = None
      /\ effects = {}
  BY DEF Init
<1>2. RInv
  BY <1>1, IdleFields, ResponseAssumption DEF RInv, Fresh, StoredTold
<1>3. chosen = {} /\ ran = {} /\ asked = [r \in Reqs |-> None]
  BY <1>1, IdleFields DEF chosen, ran, asked
<1>4. told = [r \in Reqs |-> None]
  BY <1>1, <1>3, IdleFields DEF told
<1> QED BY <1>2, <1>3, <1>4 DEF Once!Init

LEMMA OnceStep == IInv /\ RInv /\ [Next]_vars => RInv' /\ [Once!Next]_Once!once
<1> SUFFICES ASSUME IInv, RInv, [Next]_vars PROVE RInv' /\ [Once!Next]_Once!once
  OBVIOUS
<1>1. CASE UNCHANGED vars
  BY <1>1 DEF vars, RInv, Fresh, StoredTold, Once!once, asked, chosen, ran, told
<1>2. ASSUME NEW r \in Reqs, NEW k \in Keys, Arrive(r, k) PROVE RInv' /\ Once!Next
  BY <1>2, ArriveMaps DEF Once!Next
<1>3. ASSUME NEW r \in Reqs, Step(r) \/ ClaimUnanswered(r) \/ FailOpen(r) \/ Disconnect(r)
      PROVE  RInv' /\ [Once!Next]_Once!once
  BY <1>3, GetMaps, ClaimMaps, HandleMaps, SendMaps, ClaimUnansweredMaps,
     FailOpenMaps, EndMaps DEF Step, Once!Next
<1>4. CASE Crash
  BY <1>4, CrashMaps
<1>5. ASSUME NEW k \in Keys, Expire(k) PROVE RInv' /\ Once!Next
  BY <1>5, ExpireMaps DEF Once!Next
<1> QED BY <1>1, <1>2, <1>3, <1>4, <1>5 DEF Next

\* Whatever Redis, the clients and the process do, each step of the middleware is
\* a step of the abstract key or none: one request of a key runs its handler, at
\* most once and before it is answered, and the others are told its response,
\* never before itself, or of a conflict (idempotency.middleware.js:23-32).
THEOREM ImplementsOnce == Spec => OnceSpec
  BY OnceInit, OnceStep, Invariance, PTL DEF Spec, OnceSpec, Once!Spec
=============================================================================
