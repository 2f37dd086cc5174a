----------------------- MODULE IdempotencyRefinement -----------------------
(***************************************************************************)
(* Idempotency implements WriteOnce, for the requests that Redis did not   *)
(* let down before their claim: the owner of a record is the key's chosen  *)
(* request.  What a request does without a record is its own affair.       *)
(***************************************************************************)
EXTENDS Idempotency

asked == [r \in Reqs |-> req[r].key]
chosen == {r \in Reqs : req[r].owner}
ran == effects \cap chosen
told == [r \in Reqs |-> IF req[r].answer = r /\ r \notin chosen THEN None ELSE req[r].answer]

Once == INSTANCE WriteOnce

\* Every behaviour of the middleware is one of the abstract key: whatever fails,
\* leaves, dies or expires, one request of a key runs its handler, once, and the
\* others are told its response, never before itself, or of a conflict
\* (idempotency.middleware.js:23-32).
OnceSpec == Once!Spec
=============================================================================
