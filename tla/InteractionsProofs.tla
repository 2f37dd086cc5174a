------------------------- MODULE InteractionsProofs -------------------------
(***************************************************************************)
(* What Interactions guarantees for every number of users, posts, keys and *)
(* requests.                                                               *)
(***************************************************************************)
EXTENDS Interactions, FiniteSetTheorems, TLAPS

-----------------------------------------------------------------------------
(* Type correctness.                                                       *)

\* A request under way acts for a user on a post; one that published or lost a
\* race holds what it needs for it.
RequestOK(q) ==
    /\ q \in Request
    /\ q.pc # "idle" => q.user \in Users /\ q.post \in Posts
    /\ q.pc \in {"replay", "raced"} => q.key \in Keys
    /\ q.pc \in {"liked", "like", "remove"} => q.key = None
    /\ q.pc = "publish" => q.doc \in Docs

ReqsOK == req \in [Reqs -> Request] /\ \A r \in Reqs : RequestOK(req[r])

StoresOK ==
    /\ posts \in [Posts -> Visibilities \cup {None}]
    /\ follows \subseteq Users \X Users
    /\ docs \in [Docs -> Comment \cup Like \cup {None}]
    /\ published \in [Docs -> Nat]
    /\ answers \subseteq [user : Users, key : Keys, doc : Docs]

TypeInv == StoresOK /\ ReqsOK

\* Initially nothing is stored and every request is idle.
LEMMA InitTypeInv == Init => TypeInv
<1> SUFFICES ASSUME Init PROVE TypeInv
    OBVIOUS
<1> USE DEF Init
<1>1. RequestOK(Rest)
    BY DEF RequestOK, Rest, Request
<1>2. ReqsOK
    BY <1>1 DEF ReqsOK, RequestOK
<1>3. Authors \subseteq Users
    BY AuthorAssumption DEF Authors
<1>4. StoresOK
    BY <1>3 DEF StoresOK
<1> QED BY <1>2, <1>4 DEF TypeInv

\* A step that only gives request r a well-formed record keeps all well formed.
LEMMA RequestUpdate ==
  ASSUME ReqsOK, NEW r \in Reqs, NEW q, RequestOK(q), req' = [req EXCEPT ![r] = q]
  PROVE  ReqsOK'
BY DEF ReqsOK, RequestOK

\* A request that ends leaves all well formed.
LEMMA FinishOK ==
  ASSUME ReqsOK, NEW r \in Reqs, Finish(r)
  PROVE  ReqsOK'
<1>1. RequestOK(Rest)
    BY DEF RequestOK, Rest, Request
<1> QED BY <1>1, RequestUpdate DEF Finish

\* So does one that goes to a step which asks for nothing more than it has.
LEMMA GotoOK ==
  ASSUME ReqsOK, NEW r \in Reqs, req[r].pc # "idle",
         NEW pc \in {"follow", "create", "raced", "list", "like"},
         pc = "raced" => req[r].key \in Keys,
         pc = "like" => req[r].key = None, Goto(r, pc)
  PROVE  ReqsOK'
<1> DEFINE q == [req[r] EXCEPT !.pc = pc]
<1>1. req[r] \in Request /\ RequestOK(req[r])
    BY DEF ReqsOK
<1>2. RequestOK(q)
    BY <1>1 DEF RequestOK, Request
<1>3. req' = [req EXCEPT ![r] = q]
    BY DEF Goto
<1> QED BY <1>2, <1>3, RequestUpdate

\* So does one that passes the gate.
LEMMA PassOK ==
  ASSUME ReqsOK, NEW r \in Reqs, req[r].pc # "idle", Pass(r)
  PROVE  ReqsOK'
<1>1. req[r] \in Request /\ RequestOK(req[r])
    BY DEF ReqsOK
<1>2. AfterGate(req[r]) \in {"list", "replay", "create"}
    BY DEF AfterGate
<1>3. AfterGate(req[r]) = "replay" => req[r].key \in Keys
    BY <1>1 DEF AfterGate, Request
<1>4. ASSUME NEW pc \in {"list", "replay", "create"}, pc = "replay" => req[r].key \in Keys,
             NEW open \in BOOLEAN, NEW n \in 0..2
      PROVE  RequestOK([req[r] EXCEPT !.pc = pc, !.open = open, !.changes = n])
    BY <1>1, <1>4 DEF RequestOK, Request
<1> DEFINE q == [req[r] EXCEPT !.pc = AfterGate(req[r]), !.open = FALSE, !.changes = 0]
<1>5. FALSE \in BOOLEAN /\ 0 \in 0..2
    OBVIOUS
<1>6. RequestOK(q)
    BY <1>2, <1>3, <1>4, <1>5, Zenon
<1>7. req' = [req EXCEPT ![r] = q]
    BY DEF Pass
<1> HIDE DEF q
<1> QED BY <1>6, <1>7, RequestUpdate

\* Watching the gate keeps every request well formed.
LEMMA WatchOK ==
  ASSUME ReqsOK, NEW Q \in SUBSET Reqs, Watch(Q)
  PROVE  ReqsOK'
<1>1. ASSUME NEW r \in Reqs PROVE RequestOK(req'[r])
  <2> DEFINE o == req[r].open \/ Visible(posts'[req[r].post], follows', req[r].user, req[r].post)
             n == IF At(r, "follow") /\ req[r].changes < 2 THEN req[r].changes + 1 ELSE req[r].changes
  <2>1. req[r] \in Request /\ RequestOK(req[r])
      BY DEF ReqsOK
  <2>2. o \in BOOLEAN
      BY <2>1 DEF Request, Visible
  <2>3. n \in 0..2
      BY <2>1 DEF Request
  <2>4. req'[r] = req[r] \/ req'[r] = [req[r] EXCEPT !.open = o, !.changes = n]
      BY <2>1 DEF Watch, Request, ReqsOK
  <2> HIDE DEF o, n
  <2> QED BY <2>1, <2>2, <2>3, <2>4 DEF RequestOK, Request
<1>2. req' = [r \in Reqs |-> req'[r]]
    BY DEF Watch
<1>3. req' \in [Reqs -> Request]
    BY <1>1, <1>2 DEF RequestOK
<1> QED BY <1>1, <1>3 DEF ReqsOK

\* A request that leaves the documents and its fellows alone keeps the type.
LEMMA BeginType ==
  ASSUME TypeInv, NEW r \in Reqs, Start(r)
  PROVE  TypeInv'
<1>1. ASSUME NEW u \in Users, NEW p \in Posts, NEW k \in Keys \cup {None}, NEW open \in BOOLEAN,
             NEW pc \in {"post", "liked", "remove"}, NEW op \in {"comment", "list", "like", "unlike"},
             pc # "post" => k = None, Begin(r, pc, op, u, p, k, open)
      PROVE  TypeInv'
  <2> DEFINE q == [pc |-> pc, op |-> op, user |-> u, post |-> p, key |-> k,
                   doc |-> None, open |-> open, changes |-> 0]
  <2>1. q \in Request
      BY DEF Request
  <2>2. RequestOK(q)
    <3>1. pc # "replay" /\ pc # "raced" /\ pc # "publish"
        OBVIOUS
    <3>2. q.pc = pc /\ q.user = u /\ q.post = p /\ q.key = k
        OBVIOUS
    <3> HIDE DEF q
    <3> QED BY <1>1, <2>1, <3>1, <3>2 DEF RequestOK
  <2>3. ReqsOK'
      BY <1>1, <2>2, RequestUpdate DEF Begin, TypeInv
  <2>4. StoresOK'
      BY <1>1 DEF Begin, TypeInv, StoresOK
  <2> QED BY <2>3, <2>4 DEF TypeInv
<1>2. PICK u \in Users, p \in Posts :
          \/ \E k \in Keys \cup {None} : CommentRequest(r, u, p, k)
          \/ ListRequest(r, u, p) \/ LikeRequest(r, u, p) \/ UnlikeRequest(r, u, p)
    BY DEF Start
<1>3. Visible(posts[p], follows, u, p) \in BOOLEAN
    BY Zenon DEF Visible
<1>4. CASE \E k \in Keys \cup {None} : CommentRequest(r, u, p, k)
    BY <1>1, <1>3, <1>4 DEF CommentRequest
<1>5. CASE ListRequest(r, u, p)
    BY <1>1, <1>3, <1>5 DEF ListRequest
<1>6. CASE LikeRequest(r, u, p)
    BY <1>1, <1>6 DEF LikeRequest
<1>7. CASE UnlikeRequest(r, u, p)
    BY <1>1, <1>7 DEF UnlikeRequest
<1> QED BY <1>2, <1>4, <1>5, <1>6, <1>7

\* The gate and the other reads only move the request on.
LEMMA ReadType ==
  ASSUME TypeInv, NEW r \in Reqs,
         FindPost(r) \/ FindFollow(r) \/ FindLikedPost(r) \/ ListComments(r)
  PROVE  TypeInv'
<1>1. StoresOK'
    BY DEF FindPost, FindFollow, FindLikedPost, ListComments, TypeInv, StoresOK
<1>2. Finish(r) \/ (req[r].pc # "idle" /\ (Goto(r, "follow") \/ Pass(r)))
      \/ (req[r].pc = "liked" /\ req[r].key = None /\ Goto(r, "like"))
    BY DEF FindPost, FindFollow, FindLikedPost, ListComments, At, TypeInv, ReqsOK, RequestOK
<1>3. ReqsOK'
    BY <1>2, FinishOK, GotoOK, PassOK DEF TypeInv
<1> QED BY <1>1, <1>3 DEF TypeInv

\* The answer to a key names a document.
LEMMA AnsweredOK ==
  ASSUME TypeInv, NEW r \in Reqs, req[r].pc # "idle", req[r].key \in Keys, NEW d \in Docs
  PROVE  Answered(req[r], d) \subseteq [user : Users, key : Keys, doc : Docs]
BY DEF Answered, TypeInv, StoresOK, ReqsOK, RequestOK

\* A replay is answered or goes on to the insertion.
LEMMA FindReplayType ==
  ASSUME TypeInv, NEW r \in Reqs, FindReplay(r)
  PROVE  TypeInv'
<1>1. req[r].pc = "replay" /\ req[r].key \in Keys
    BY DEF FindReplay, At, TypeInv, ReqsOK, RequestOK
<1>2. CASE \E d \in Keyed(req[r].user, req[r].key) : answers' = Answered(req[r], d) /\ Finish(r)
  <2>1. answers' \subseteq [user : Users, key : Keys, doc : Docs]
      BY <1>1, <1>2, AnsweredOK DEF Keyed
  <2>2. StoresOK'
      BY <2>1 DEF FindReplay, TypeInv, StoresOK
  <2> QED BY <1>2, <2>2, FinishOK DEF TypeInv
<1>3. CASE Goto(r, "create") /\ UNCHANGED answers
  <2>1. StoresOK'
      BY <1>3 DEF FindReplay, TypeInv, StoresOK
  <2> QED BY <1>1, <1>3, <2>1, GotoOK DEF TypeInv
<1> QED BY <1>2, <1>3 DEF FindReplay

\* The loser of a race is answered with a document.
LEMMA FindRacedType ==
  ASSUME TypeInv, NEW r \in Reqs, FindRaced(r)
  PROVE  TypeInv'
<1>1. req[r].pc = "raced" /\ req[r].key \in Keys
    BY DEF FindRaced, At, TypeInv, ReqsOK, RequestOK
<1>2. answers' \subseteq [user : Users, key : Keys, doc : Docs]
    BY <1>1, AnsweredOK DEF FindRaced, Keyed
<1>3. StoresOK'
    BY <1>2 DEF FindRaced, TypeInv, StoresOK
<1> QED BY <1>3, FinishOK DEF FindRaced, TypeInv

\* What is stored is a comment or a like, and its request goes on to publish it.
LEMMA StoredType ==
  ASSUME TypeInv, NEW r \in Reqs, req[r].pc # "idle", NEW doc \in Comment \cup Like,
         Stored(r, doc), UNCHANGED <<posts, follows, published, answers>>
  PROVE  TypeInv'
<1>1. PICK d \in Unissued : /\ docs' = [docs EXCEPT ![d] = doc]
                            /\ req' = [req EXCEPT ![r] = [req[r] EXCEPT !.pc = "publish", !.doc = d]]
    BY DEF Stored
<1>2. d \in Docs
    BY DEF Unissued
<1>3. StoresOK'
    BY <1>1, <1>2 DEF TypeInv, StoresOK
<1> DEFINE q == [req[r] EXCEPT !.pc = "publish", !.doc = d]
<1>4. RequestOK(q)
    BY <1>2 DEF TypeInv, ReqsOK, RequestOK, Request
<1>5. ReqsOK'
    BY <1>1, <1>4, RequestUpdate DEF TypeInv
<1> QED BY <1>3, <1>5 DEF TypeInv

\* What a request under way would store is of its kind.
LEMMA NewDocument ==
  ASSUME TypeInv, NEW r \in Reqs, req[r].pc # "idle"
  PROVE  NewComment(req[r]) \in Comment /\ NewLike(req[r]) \in Like
BY DEF NewComment, NewLike, Comment, Like, TypeInv, ReqsOK, RequestOK, Request

\* An insertion stores a document, or loses a race.
LEMMA CreateType ==
  ASSUME TypeInv, NEW r \in Reqs, CreateComment(r) \/ CreateLike(r)
  PROVE  TypeInv'
<1>1. req[r].pc \in {"create", "like"}
    BY DEF CreateComment, CreateLike, At
<1>2. CASE Stored(r, NewComment(req[r])) \/ Stored(r, NewLike(req[r]))
    BY <1>1, <1>2, NewDocument, StoredType DEF CreateComment, CreateLike
<1>3. CASE Goto(r, "raced") /\ UNCHANGED docs /\ ~AcceptsComment(req[r].user, req[r].key)
  <2>1. req[r].key \in Keys
      BY <1>3 DEF AcceptsComment, Keyed, TypeInv, ReqsOK, Request
  <2>2. StoresOK'
      BY <1>3 DEF CreateComment, CreateLike, TypeInv, StoresOK
  <2> QED BY <1>1, <1>3, <2>1, <2>2, GotoOK DEF TypeInv
<1>4. CASE Finish(r) /\ UNCHANGED docs
  <2>1. StoresOK'
      BY <1>4 DEF CreateComment, CreateLike, TypeInv, StoresOK
  <2> QED BY <1>4, <2>1, FinishOK DEF TypeInv
<1> QED BY <1>2, <1>3, <1>4 DEF CreateComment, CreateLike

\* Publishing counts the event of a document and answers its key.
LEMMA PublishType ==
  ASSUME TypeInv, NEW r \in Reqs, Publish(r)
  PROVE  TypeInv'
<1>1. req[r].pc = "publish" /\ req[r].doc \in Docs /\ req[r] \in Request
    BY DEF Publish, At, TypeInv, ReqsOK, RequestOK
<1>2. published' \in [Docs -> Nat]
    BY <1>1 DEF Publish, TypeInv, StoresOK
<1>3. answers' \subseteq [user : Users, key : Keys, doc : Docs]
  <2>1. CASE req[r].key = None
      BY <2>1 DEF Publish, TypeInv, StoresOK
  <2>2. CASE req[r].key # None
      BY <1>1, <2>2, AnsweredOK DEF Publish, Request
  <2> QED BY <2>1, <2>2
<1>4. StoresOK'
    BY <1>2, <1>3 DEF Publish, TypeInv, StoresOK
<1> QED BY <1>4, FinishOK DEF Publish, TypeInv

\* A like that is removed stays a like.
LEMMA RemoveLikeType ==
  ASSUME TypeInv, NEW r \in Reqs, RemoveLike(r)
  PROVE  TypeInv'
<1>1. ASSUME \E d \in Likes(req[r].user, req[r].post) : docs' = [docs EXCEPT ![d].live = FALSE]
      PROVE  StoresOK'
  <2>1. PICK d \in Likes(req[r].user, req[r].post) : docs' = [docs EXCEPT ![d].live = FALSE]
      BY <1>1
  <2>2. d \in Docs /\ docs[d] \in Like
      BY DEF Likes, TypeInv, StoresOK, Comment, Like
  <2>3. [docs[d] EXCEPT !.live = FALSE] \in Like
      BY <2>2 DEF Like
  <2>4. docs' \in [Docs -> Comment \cup Like \cup {None}]
      BY <2>1, <2>2, <2>3 DEF TypeInv, StoresOK
  <2> QED BY <2>4 DEF RemoveLike, TypeInv, StoresOK
<1>2. StoresOK'
    BY <1>1 DEF RemoveLike, TypeInv, StoresOK
<1> QED BY <1>2, FinishOK DEF RemoveLike, TypeInv

\* What a rejected insertion left behind is a document like any other.
LEMMA FailType ==
  ASSUME TypeInv, NEW r \in Reqs, Fail(r)
  PROVE  TypeInv'
<1>1. req[r].pc # "idle" /\ Finish(r)
    BY DEF Fail, At
<1>2. docs' \in [Docs -> Comment \cup Like \cup {None}]
    BY <1>1, NewDocument DEF Fail, Unissued, TypeInv, StoresOK
<1>3. StoresOK'
    BY <1>2 DEF Fail, TypeInv, StoresOK
<1> QED BY <1>1, <1>3, FinishOK DEF TypeInv

\* Posts and follows change among their own kind.
LEMMA ChangeType ==
  ASSUME TypeInv,
         \/ \E p \in Posts : DeletePost(p) \/ \E vis \in Visibilities : ChangePost(p, vis)
         \/ \E u \in Users, v \in Authors : ChangeFollow(u, v)
  PROVE  TypeInv'
<1>1. CASE \E p \in Posts, vis \in Visibilities \cup {None} : ChangePost(p, vis)
  <2>1. StoresOK'
      BY <1>1 DEF ChangePost, TypeInv, StoresOK
  <2>2. ReqsOK'
      BY <1>1, WatchOK DEF ChangePost, TypeInv
  <2> QED BY <2>1, <2>2 DEF TypeInv
<1>2. CASE \E u \in Users, v \in Authors : ChangeFollow(u, v)
  <2>1. Authors \subseteq Users
      BY AuthorAssumption DEF Authors
  <2>2. StoresOK'
      BY <1>2, <2>1 DEF ChangeFollow, TypeInv, StoresOK
  <2>3. ReqsOK'
      BY <1>2, WatchOK DEF ChangeFollow, TypeInv
  <2> QED BY <2>2, <2>3 DEF TypeInv
<1> QED BY <1>1, <1>2 DEF DeletePost

\* Every step preserves the type.
LEMMA NextTypeInv == TypeInv /\ [Next]_vars => TypeInv'
<1> SUFFICES ASSUME TypeInv, [Next]_vars PROVE TypeInv'
    OBVIOUS
<1>1. CASE UNCHANGED vars
    BY <1>1 DEF vars, TypeInv, StoresOK, ReqsOK, RequestOK
<1>2. ASSUME NEW r \in Reqs, Start(r) \/ Continue(r) \/ Fail(r) PROVE TypeInv'
    BY <1>2, BeginType, ReadType, FindReplayType, FindRacedType, CreateType, PublishType,
       RemoveLikeType, FailType DEF Continue
<1> QED BY <1>1, <1>2, ChangeType DEF Next

\* Every reachable state of comments and likes is well typed.
THEOREM InteractionsTyped == Spec => []TypeOK
<1>1. TypeInv => TypeOK
    BY DEF TypeInv, StoresOK, ReqsOK, TypeOK
<1> QED BY <1>1, InitTypeInv, NextTypeInv, PTL DEF Spec
-----------------------------------------------------------------------------
(* What a step means for the documents, their events and the answers.      *)

\* None of these changes, and no request comes to hold a document.
Quiet ==
    /\ UNCHANGED <<docs, published, answers>>
    /\ \A s \in Reqs : At(s, "publish")' => req'[s] = req[s]

\* A keyed submission is answered with a comment that is stored already.
Answer(r) ==
    /\ UNCHANGED <<docs, published>> /\ Finish(r)
    /\ req[r].key \in Keys
    /\ \E d \in Keyed(req[r].user, req[r].key) : answers' = Answered(req[r], d)

\* A document is stored, and its request may go on to publish it.
Store(r, d, doc) ==
    /\ docs[d] = None /\ docs' = [docs EXCEPT ![d] = doc]
    /\ UNCHANGED <<published, answers>>
    /\ \/ doc = NewComment(req[r]) /\ AcceptsComment(req[r].user, req[r].key)
       \/ doc = NewLike(req[r]) /\ req[r].key = None
    /\ \/ req' = [req EXCEPT ![r] = [req[r] EXCEPT !.pc = "publish", !.doc = d]]
       \/ Finish(r)

\* A like is removed.
Remove(r, d) ==
    /\ docs[d] \in Like /\ docs' = [docs EXCEPT ![d].live = FALSE]
    /\ UNCHANGED <<published, answers>> /\ Finish(r)

\* A request that ends holds no document afterwards, and the others what they held.
LEMMA FinishQuiet ==
  ASSUME TypeInv, NEW r \in Reqs, Finish(r)
  PROVE  \A s \in Reqs : At(s, "publish")' => s # r /\ req'[s] = req[s]
BY DEF Finish, TypeInv, ReqsOK, At, Rest

\* Nor does one that goes anywhere but to its publication.
LEMMA MoveQuiet ==
  ASSUME TypeInv, NEW r \in Reqs, NEW q, q.pc # "publish", req' = [req EXCEPT ![r] = q]
  PROVE  \A s \in Reqs : At(s, "publish")' => req'[s] = req[s]
BY DEF TypeInv, ReqsOK, At

\* A move to any other step makes no publisher.
LEMMA GotoQuiet ==
  ASSUME TypeInv, NEW r \in Reqs, NEW pc, pc # "publish", Goto(r, pc)
  PROVE  \A s \in Reqs : At(s, "publish")' => req'[s] = req[s]
<1> DEFINE q == [req[r] EXCEPT !.pc = pc]
<1>1. q.pc # "publish"
    BY DEF TypeInv, ReqsOK, Request
<1>2. req' = [req EXCEPT ![r] = q]
    BY DEF Goto
<1> HIDE DEF q
<1> QED BY <1>1, <1>2, MoveQuiet

\* Passing the gate makes no publisher.
LEMMA PassQuiet ==
  ASSUME TypeInv, NEW r \in Reqs, Pass(r)
  PROVE  \A s \in Reqs : At(s, "publish")' => req'[s] = req[s]
<1> DEFINE q == [req[r] EXCEPT !.pc = AfterGate(req[r]), !.open = FALSE, !.changes = 0]
<1>1. ASSUME NEW pc, pc # "publish", NEW open, NEW n
      PROVE  [req[r] EXCEPT !.pc = pc, !.open = open, !.changes = n].pc # "publish"
    BY <1>1 DEF TypeInv, ReqsOK, Request
<1>2. AfterGate(req[r]) # "publish"
    BY DEF AfterGate
<1>3. q.pc # "publish"
    BY <1>1, <1>2, Zenon
<1>4. req' = [req EXCEPT ![r] = q]
    BY DEF Pass
<1> HIDE DEF q
<1> QED BY <1>3, <1>4, MoveQuiet

\* Watching the gate makes no publisher.
LEMMA WatchQuiet ==
  ASSUME TypeInv, NEW Q \in SUBSET Reqs, Watch(Q)
  PROVE  \A s \in Reqs : At(s, "publish")' => req'[s] = req[s]
<1>1. ASSUME NEW s \in Reqs, AtGate(s) PROVE req'[s].pc # "publish"
    BY <1>1 DEF Watch, AtGate, TypeInv, ReqsOK, Request
<1>2. ASSUME NEW s \in Reqs, ~AtGate(s) PROVE req'[s] = req[s]
    BY <1>2 DEF Watch
<1> QED BY <1>1, <1>2 DEF At

\* Every step is one of these, or a publication.
LEMMA StepKinds ==
  ASSUME TypeInv, Next
  PROVE  \/ Quiet
         \/ \E r \in Reqs : Answer(r) \/ Publish(r)
         \/ \E r \in Reqs, d \in Docs, doc \in Comment \cup Like : req[r].pc # "idle" /\ Store(r, d, doc)
         \/ \E r \in Reqs, d \in Docs : Remove(r, d)
<1>1. CASE \E p \in Posts, vis \in Visibilities \cup {None} : ChangePost(p, vis)
    BY <1>1, WatchQuiet DEF ChangePost, Quiet
<1>2. CASE \E u \in Users, v \in Authors : ChangeFollow(u, v)
    BY <1>2, WatchQuiet DEF ChangeFollow, Quiet
<1>3. ASSUME NEW r \in Reqs, Start(r) PROVE Quiet
  <2>1. ASSUME NEW u, NEW p, NEW k, NEW open, NEW op, NEW pc \in {"post", "liked", "remove"},
               Begin(r, pc, op, u, p, k, open)
        PROVE  Quiet
      BY <2>1, MoveQuiet DEF Begin, Quiet
  <2> QED BY <1>3, <2>1 DEF Start, CommentRequest, ListRequest, LikeRequest, UnlikeRequest
<1>4. ASSUME NEW r \in Reqs, FindPost(r) \/ FindFollow(r) \/ FindLikedPost(r) \/ ListComments(r)
      PROVE  Quiet
  <2>1. Finish(r) \/ Goto(r, "follow") \/ Pass(r) \/ Goto(r, "like")
      BY <1>4 DEF FindPost, FindFollow, FindLikedPost, ListComments
  <2>2. \A s \in Reqs : At(s, "publish")' => req'[s] = req[s]
      BY <2>1, FinishQuiet, GotoQuiet, PassQuiet
  <2> QED BY <1>4, <2>2 DEF FindPost, FindFollow, FindLikedPost, ListComments, Quiet
<1>5. ASSUME NEW r \in Reqs, FindReplay(r) PROVE Quiet \/ Answer(r)
  <2>1. req[r].key \in Keys
      BY <1>5 DEF FindReplay, At, TypeInv, ReqsOK, RequestOK
  <2>2. CASE Goto(r, "create") /\ UNCHANGED answers
      BY <1>5, <2>2, GotoQuiet DEF FindReplay, Quiet
  <2> QED BY <1>5, <2>1, <2>2 DEF FindReplay, Answer
<1>6. ASSUME NEW r \in Reqs, FindRaced(r) PROVE Answer(r)
    BY <1>6 DEF FindRaced, Answer, At, TypeInv, ReqsOK, RequestOK
<1>7. ASSUME NEW r \in Reqs, CreateComment(r)
      PROVE  Quiet \/ \E d \in Docs, doc \in Comment \cup Like : req[r].pc # "idle" /\ Store(r, d, doc)
  <2>1. CASE Goto(r, "raced") /\ UNCHANGED docs
      BY <1>7, <2>1, GotoQuiet DEF CreateComment, Quiet
  <2>2. CASE AcceptsComment(req[r].user, req[r].key) /\ Stored(r, NewComment(req[r]))
      BY <1>7, <2>2, NewDocument DEF CreateComment, At, Stored, Store, Unissued
  <2> QED BY <1>7, <2>1, <2>2 DEF CreateComment
<1>8. ASSUME NEW r \in Reqs, CreateLike(r)
      PROVE  Quiet \/ \E d \in Docs, doc \in Comment \cup Like : req[r].pc # "idle" /\ Store(r, d, doc)
  <2>1. CASE Finish(r) /\ UNCHANGED docs
      BY <1>8, <2>1, FinishQuiet DEF CreateLike, Quiet
  <2>2. CASE Stored(r, NewLike(req[r]))
    <3>1. req[r].pc = "like" /\ req[r].key = None
        BY <1>8 DEF CreateLike, At, TypeInv, ReqsOK, RequestOK
    <3> QED BY <1>8, <2>2, <3>1, NewDocument DEF CreateLike, Stored, Store, Unissued
  <2> QED BY <1>8, <2>1, <2>2 DEF CreateLike
<1>9. ASSUME NEW r \in Reqs, RemoveLike(r) PROVE Quiet \/ \E d \in Docs : Remove(r, d)
  <2>1. CASE UNCHANGED docs
      BY <1>9, <2>1, FinishQuiet DEF RemoveLike, Quiet
  <2>2. ASSUME NEW d \in Likes(req[r].user, req[r].post), docs' = [docs EXCEPT ![d].live = FALSE]
        PROVE  d \in Docs /\ Remove(r, d)
    <3>1. d \in Docs /\ docs[d] \in Like
        BY DEF Likes, TypeInv, StoresOK, Comment, Like
    <3> QED BY <1>9, <2>2, <3>1 DEF RemoveLike, Remove
  <2> QED BY <1>9, <2>1, <2>2 DEF RemoveLike
<1>10. ASSUME NEW r \in Reqs, Fail(r)
       PROVE  Quiet \/ \E d \in Docs, doc \in Comment \cup Like : req[r].pc # "idle" /\ Store(r, d, doc)
  <2>1. req[r].pc # "idle" /\ Finish(r) /\ UNCHANGED <<published, answers>>
      BY <1>10 DEF Fail, At
  <2>2. CASE UNCHANGED docs
      BY <2>1, <2>2, FinishQuiet DEF Quiet
  <2>3. CASE At(r, "create") /\ AcceptsComment(req[r].user, req[r].key)
             /\ \E d \in Unissued : docs' = [docs EXCEPT ![d] = NewComment(req[r])]
      BY <2>1, <2>3, NewDocument DEF Store, Unissued
  <2>4. CASE At(r, "like") /\ AcceptsLike(req[r].user, req[r].post)
             /\ \E d \in Unissued : docs' = [docs EXCEPT ![d] = NewLike(req[r])]
    <3>1. req[r].key = None
        BY <2>4 DEF At, TypeInv, ReqsOK, RequestOK
    <3> QED BY <2>1, <2>4, <3>1, NewDocument DEF Store, Unissued
  <2> QED BY <1>10, <2>2, <2>3, <2>4 DEF Fail
<1> QED BY <1>1, <1>2, <1>3, <1>4, <1>5, <1>6, <1>7, <1>8, <1>9, <1>10
        DEF Next, Continue, DeletePost

-----------------------------------------------------------------------------
(* One comment for each key.                                               *)

\* Answers and publications name comments of the key, and there is one of each.
KeyedInv ==
    /\ \A a \in answers : a.doc \in Keyed(a.user, a.key)
    /\ \A u \in Users, k \in Keys : \A d, e \in Keyed(u, k) : d = e
    /\ \A r \in Reqs : At(r, "publish") /\ req[r].key # None
                       => req[r].doc \in Keyed(req[r].user, req[r].key)

\* Nothing is stored or answered initially.
LEMMA InitKeyed == Init => KeyedInv
BY DEF Init, KeyedInv, Keyed, At, Rest

\* While no comment is stored, the comments of a key stay what they are.
LEMMA KeyedSame ==
  ASSUME KeyedInv, \A u, k : Keyed(u, k)' = Keyed(u, k), UNCHANGED answers,
         \A s \in Reqs : At(s, "publish")' => req'[s] = req[s]
  PROVE  KeyedInv'
BY DEF KeyedInv, At

\* A stored document adds to the comments of its own author and key only, and
\* only where there was none.
LEMMA KeyedStore ==
  ASSUME TypeInv, KeyedInv, NEW r \in Reqs, req[r].pc # "idle",
         NEW d \in Docs, NEW doc \in Comment \cup Like, Store(r, d, doc)
  PROVE  KeyedInv'
<1>1. docs' = [docs EXCEPT ![d] = doc] /\ docs[d] = None /\ docs \in [Docs -> Comment \cup Like \cup {None}]
    BY DEF Store, TypeInv, StoresOK
<1>2. doc # None
    BY NoneAssumption
<1>3. ASSUME NEW u, NEW k PROVE Keyed(u, k) \subseteq Keyed(u, k)'
    BY <1>1 DEF Keyed
<1>4. ASSUME NEW u, NEW k, NEW e \in Keyed(u, k)', e \notin Keyed(u, k)
      PROVE  e = d /\ doc.kind = "comment" /\ doc.user = u /\ doc.key = k /\ k # None
    BY <1>1, <1>4 DEF Keyed
<1>5. CASE doc = NewComment(req[r]) /\ AcceptsComment(req[r].user, req[r].key)
  <2>1. ASSUME NEW u, NEW k, Keyed(u, k)' # Keyed(u, k) PROVE Keyed(u, k) = {}
      BY <1>3, <1>4, <1>5, <2>1 DEF AcceptsComment, NewComment
  <2>2. \A u \in Users, k \in Keys : \A e, f \in Keyed(u, k)' : e = f
      BY <1>4, <2>1 DEF KeyedInv
  <2>3. \A a \in answers' : a.doc \in Keyed(a.user, a.key)'
      BY <1>3 DEF KeyedInv, Store
  <2>4. ASSUME NEW s \in Reqs, At(s, "publish")', NEW u, NEW k, k # None,
               u = req'[s].user, k = req'[s].key
        PROVE  req'[s].doc \in Keyed(u, k)'
    <3>1. CASE req'[s] = req[s]
      <4>1. req[s].doc \in Keyed(u, k)
          BY <2>4, <3>1 DEF KeyedInv, At
      <4> QED BY <1>3, <3>1, <4>1
    <3>2. CASE s = r /\ req' = [req EXCEPT ![r] = [req[r] EXCEPT !.pc = "publish", !.doc = d]]
      <4>1. u = req[r].user /\ k = req[r].key /\ req'[s].doc = d
          BY <2>4, <3>2 DEF TypeInv, ReqsOK, Request
      <4>2. d \in Keyed(u, k)'
          BY <1>1, <1>2, <1>5, <2>4, <4>1 DEF Keyed, NewComment
      <4> QED BY <4>1, <4>2
    <3> QED BY <2>4, <3>1, <3>2, FinishQuiet DEF Store, TypeInv, ReqsOK
  <2> QED BY <2>2, <2>3, <2>4 DEF KeyedInv, At
<1>6. CASE doc = NewLike(req[r]) /\ req[r].key = None
  <2>1. ASSUME NEW u, NEW k PROVE Keyed(u, k)' = Keyed(u, k)
    <3>1. doc.kind # "comment"
        BY <1>6 DEF NewLike
    <3>2. Keyed(u, k)' \subseteq Keyed(u, k)
        BY <1>4, <3>1
    <3> QED BY <1>3, <3>2
  <2>2. ASSUME NEW s \in Reqs, At(s, "publish")', req'[s].key # None
        PROVE  req'[s] = req[s]
    <3>1. CASE req' = [req EXCEPT ![r] = [req[r] EXCEPT !.pc = "publish", !.doc = d]]
        BY <1>6, <2>2, <3>1 DEF TypeInv, ReqsOK, Request
    <3> QED BY <2>2, <3>1, FinishQuiet DEF Store
  <2> QED BY <2>1, <2>2 DEF KeyedInv, Store, At
<1> QED BY <1>5, <1>6 DEF Store

\* Every step keeps the comments of a key to one.
LEMMA NextKeyed == TypeInv /\ KeyedInv /\ [Next]_vars => KeyedInv'
<1> SUFFICES ASSUME TypeInv, KeyedInv, [Next]_vars PROVE KeyedInv'
    OBVIOUS
<1>1. CASE UNCHANGED vars
    BY <1>1, KeyedSame DEF vars, Keyed
<1>2. CASE Quiet
    BY <1>2, KeyedSame DEF Quiet, Keyed
<1>3. ASSUME NEW r \in Reqs, Answer(r) PROVE KeyedInv'
  <2>1. PICK d \in Keyed(req[r].user, req[r].key) : answers' = Answered(req[r], d)
      BY <1>3 DEF Answer
  <2>2. \A u, k : Keyed(u, k)' = Keyed(u, k)
      BY <1>3 DEF Answer, Keyed
  <2>3. \A a \in answers' : a.doc \in Keyed(a.user, a.key)
      BY <2>1 DEF KeyedInv, Answered
  <2>4. \A s \in Reqs : At(s, "publish")' => req'[s] = req[s]
      BY <1>3, FinishQuiet DEF Answer
  <2> QED BY <2>2, <2>3, <2>4 DEF KeyedInv, At
<1>4. ASSUME NEW r \in Reqs, Publish(r) PROVE KeyedInv'
  <2>1. \A u, k : Keyed(u, k)' = Keyed(u, k)
      BY <1>4 DEF Publish, Keyed
  <2>2. \A a \in answers' : a.doc \in Keyed(a.user, a.key)
      BY <1>4 DEF KeyedInv, Publish, Answered
  <2>3. \A s \in Reqs : At(s, "publish")' => req'[s] = req[s]
      BY <1>4, FinishQuiet DEF Publish
  <2> QED BY <2>1, <2>2, <2>3 DEF KeyedInv, At
<1>5. ASSUME NEW r \in Reqs, NEW d \in Docs, Remove(r, d) PROVE KeyedInv'
  <2>1. docs[d].kind = "like" /\ docs[d] # None /\ docs \in [Docs -> Comment \cup Like \cup {None}]
      BY <1>5, NoneAssumption DEF Remove, Like, TypeInv, StoresOK
  <2>2. docs' = [docs EXCEPT ![d] = [docs[d] EXCEPT !.live = FALSE]]
      BY <1>5 DEF Remove
  <2>3. [docs[d] EXCEPT !.live = FALSE].kind = "like"
      BY <1>5 DEF Remove, Like
  <2>4. docs'[d].kind = "like" /\ \A e \in Docs \ {d} : docs'[e] = docs[e]
      BY <2>1, <2>2, <2>3
  <2>5. \A u, k : Keyed(u, k)' = Keyed(u, k)
      BY <2>1, <2>4 DEF Keyed
  <2> QED BY <1>5, <2>5, KeyedSame, FinishQuiet DEF Remove
<1> QED BY <1>1, <1>2, <1>3, <1>4, <1>5, KeyedStore, StepKinds

\* Every answer to a submission of one key by one user names the same comment,
\* for every number of keys and requests (comment.service.js:74-94, FR-028).
THEOREM OneCommentPerKey == Spec => []SameComment
<1>1. TypeInv /\ KeyedInv => SameComment
    BY DEF TypeInv, StoresOK, KeyedInv, SameComment
<1> QED BY <1>1, InitTypeInv, NextTypeInv, InitKeyed, NextKeyed, PTL DEF Spec

-----------------------------------------------------------------------------
(* One event for each document.                                            *)

Publishing(r, d) == req[r].pc = "publish" /\ req[r].doc = d

\* An id not issued has no event and no publisher; a stored document has one
\* publisher at most, and none once its event is out.
EventInv == \A d \in Docs :
    /\ published[d] \in {0, 1}
    /\ docs[d] = None => published[d] = 0
    /\ docs[d] = None \/ published[d] = 1 => \A r \in Reqs : ~Publishing(r, d)
    /\ \A r, s \in Reqs : Publishing(r, d) /\ Publishing(s, d) => r = s

\* Nothing is stored or published initially.
LEMMA InitEvent == Init => EventInv
BY DEF Init, EventInv, Publishing, Rest

\* While no event goes out and no request comes to hold a document, nothing
\* changes here, whether or not a like was removed.
LEMMA EventSame ==
  ASSUME EventInv, UNCHANGED published, \A d \in Docs : docs'[d] = None => docs[d] = None,
         \A s \in Reqs : At(s, "publish")' => req'[s] = req[s]
  PROVE  EventInv'
<1>1. \A s \in Reqs, d \in Docs : Publishing(s, d)' => Publishing(s, d)
    BY DEF Publishing, At
<1> QED BY <1>1 DEF EventInv

\* A stored document has its request for its only publisher, or none.
LEMMA EventStore ==
  ASSUME TypeInv, EventInv, NEW r \in Reqs, NEW d \in Docs, NEW doc \in Comment \cup Like, Store(r, d, doc)
  PROVE  EventInv'
<1>1. docs' = [docs EXCEPT ![d] = doc] /\ docs[d] = None /\ published' = published
    BY DEF Store
<1>2. doc # None /\ docs \in [Docs -> Comment \cup Like \cup {None}]
    BY NoneAssumption DEF TypeInv, StoresOK
<1>3. \A e \in Docs : e # d => docs'[e] = docs[e]
    BY <1>1, <1>2
<1>4. docs'[d] # None
    BY <1>1, <1>2
<1>5. ASSUME NEW s \in Reqs, NEW e \in Docs, Publishing(s, e)'
      PROVE  (s = r /\ e = d) \/ (Publishing(s, e) /\ e # d)
  <2>1. CASE Finish(r)
      BY <1>1, <1>5, <2>1, FinishQuiet DEF EventInv, Publishing, At
  <2>2. CASE req' = [req EXCEPT ![r] = [req[r] EXCEPT !.pc = "publish", !.doc = d]]
      BY <1>1, <1>5, <2>2 DEF EventInv, Publishing, TypeInv, ReqsOK, Request
  <2> QED BY <2>1, <2>2 DEF Store
<1>6. published[d] = 0
    BY <1>1 DEF EventInv
<1>7. ASSUME NEW e \in Docs, e # d, docs'[e] = None \/ published'[e] = 1, NEW s \in Reqs
      PROVE  ~Publishing(s, e)'
    BY <1>1, <1>3, <1>5, <1>7 DEF EventInv
<1>8. ASSUME NEW e \in Docs, NEW s \in Reqs, NEW t \in Reqs, Publishing(s, e)', Publishing(t, e)'
      PROVE  s = t
    BY <1>5, <1>8 DEF EventInv
<1> QED BY <1>1, <1>3, <1>4, <1>6, <1>7, <1>8 DEF EventInv

\* A publisher publishes and is gone.
LEMMA EventPublish ==
  ASSUME TypeInv, EventInv, NEW r \in Reqs, Publish(r)
  PROVE  EventInv'
<1>1. PICK d \in Docs : d = req[r].doc /\ Publishing(r, d)
    BY DEF Publish, At, Publishing, TypeInv, ReqsOK, RequestOK
<1>2. docs[d] # None /\ published[d] = 0
    BY <1>1 DEF EventInv
<1>3. published' = [published EXCEPT ![d] = 1] /\ docs' = docs
    BY <1>1, <1>2 DEF Publish
<1>4. \A s \in Reqs, e \in Docs : Publishing(s, e)' => Publishing(s, e) /\ s # r
    BY FinishQuiet DEF Publish, Publishing, At
<1>5. \A s \in Reqs : ~Publishing(s, d)'
    BY <1>1, <1>4 DEF EventInv
<1>6. published \in [Docs -> Nat]
    BY DEF TypeInv, StoresOK
<1>7. published'[d] = 1 /\ \A e \in Docs : e # d => published'[e] = published[e]
    BY <1>1, <1>3, <1>6
<1> QED BY <1>1, <1>2, <1>3, <1>4, <1>5, <1>7 DEF EventInv

\* Every step keeps the events to one.
LEMMA NextEvent == TypeInv /\ EventInv /\ [Next]_vars => EventInv'
<1> SUFFICES ASSUME TypeInv, EventInv, [Next]_vars PROVE EventInv'
    OBVIOUS
<1>1. CASE UNCHANGED vars
    BY <1>1, EventSame DEF vars
<1>2. CASE Quiet
    BY <1>2, EventSame DEF Quiet
<1>3. ASSUME NEW r \in Reqs, Answer(r) PROVE EventInv'
    BY <1>3, EventSame, FinishQuiet DEF Answer
<1>4. ASSUME NEW r \in Reqs, NEW d \in Docs, Remove(r, d) PROVE EventInv'
  <2>1. docs' = [docs EXCEPT ![d] = [docs[d] EXCEPT !.live = FALSE]] /\ docs[d] \in Like
      BY <1>4 DEF Remove
  <2>2. [docs[d] EXCEPT !.live = FALSE] # None
    <3>1. [docs[d] EXCEPT !.live = FALSE] \in Like
        BY <2>1 DEF Like
    <3> QED BY <3>1, NoneAssumption
  <2>3. \A e \in Docs : docs'[e] = None => docs[e] = None
      BY <2>1, <2>2 DEF TypeInv, StoresOK
  <2> QED BY <1>4, <2>3, EventSame, FinishQuiet DEF Remove
<1> QED BY <1>1, <1>2, <1>3, <1>4, EventStore, EventPublish, StepKinds

\* The event of a comment or like is published once at most, whatever the number
\* of requests that race for it (comment.service.js:53-56).
THEOREM OneEventPerDocument == Spec => []PublishedOnce
<1>1. TypeInv /\ EventInv => PublishedOnce
  <2> SUFFICES ASSUME TypeInv, EventInv, NEW d \in Docs
               PROVE  published[d] + Cardinality({r \in Reqs : At(r, "publish") /\ req[r].doc = d}) <= 1
      BY DEF PublishedOnce
  <2> DEFINE S == {r \in Reqs : At(r, "publish") /\ req[r].doc = d}
  <2>1. S = {r \in Reqs : Publishing(r, d)}
      BY DEF At, Publishing
  <2>2. published[d] \in {0, 1}
      BY DEF EventInv
  <2>3. S = {} => Cardinality(S) = 0
      BY FS_EmptySet
  <2>4. ASSUME NEW r \in S PROVE published[d] = 0 /\ Cardinality(S) = 1
    <3>1. S = {r} /\ published[d] = 0
        BY <2>1, <2>4 DEF EventInv
    <3> QED BY <3>1, FS_Singleton
  <2> HIDE DEF S
  <2>5. published[d] + Cardinality(S) <= 1
    <3>1. CASE S = {}
        BY <2>2, <2>3, <3>1
    <3>2. CASE S # {}
        BY <2>4, <3>2
    <3> QED BY <3>1, <3>2
  <2> QED BY <2>5 DEF S
<1> QED BY <1>1, InitTypeInv, NextTypeInv, InitEvent, NextEvent, PTL DEF Spec

-----------------------------------------------------------------------------
(* The gate.                                                               *)

\* What is known of the post and the follow while a request is at the gate.
GateOK(q) ==
    /\ q.pc = "post" /\ Visible(posts[q.post], follows, q.user, q.post) => q.open
    /\ q.pc = "follow" /\ ~q.open =>
          /\ Author[q.post] # q.user
          /\ q.changes < 2 => <<q.user, Author[q.post]>> \notin follows
          /\ q.changes = 0 => posts[q.post] = "followers-only"

GateInv == \A r \in Reqs : GateOK(req[r])

\* No request is at the gate initially.
LEMMA InitGate == Init => GateInv
BY DEF Init, GateInv, GateOK, Rest

\* A request that is not at the gate has nothing to know.
LEMMA GateUpdate ==
  ASSUME TypeInv, GateInv, UNCHANGED <<posts, follows>>,
         NEW r \in Reqs, NEW q, req' = [req EXCEPT ![r] = q], GateOK(q)
  PROVE  GateInv'
BY DEF TypeInv, ReqsOK, GateInv, GateOK

\* Nor has one that moves on past the gate or ends.
LEMMA GateMove ==
  ASSUME TypeInv, GateInv, UNCHANGED <<posts, follows>>, NEW r \in Reqs,
         \/ Finish(r) \/ Pass(r)
         \/ \E pc \in {"create", "raced", "like"} : Goto(r, pc)
         \/ \E d \in Docs : req' = [req EXCEPT ![r] = [req[r] EXCEPT !.pc = "publish", !.doc = d]]
  PROVE  GateInv'
<1>1. ASSUME NEW q, q.pc \notin {"post", "follow"}, req' = [req EXCEPT ![r] = q]
      PROVE  GateInv'
  <2>1. GateOK(q)
      BY <1>1 DEF GateOK
  <2> QED BY <1>1, <2>1, GateUpdate
<1>2. CASE Finish(r)
  <2>1. Rest.pc \notin {"post", "follow"}
      BY DEF Rest
  <2> QED BY <1>1, <1>2, <2>1 DEF Finish
<1>3. CASE Pass(r)
  <2> DEFINE new == [req[r] EXCEPT !.pc = AfterGate(req[r]), !.open = FALSE, !.changes = 0]
  <2>1. ASSUME NEW pc \in {"list", "replay", "create"}, NEW open, NEW n
        PROVE  [req[r] EXCEPT !.pc = pc, !.open = open, !.changes = n].pc \notin {"post", "follow"}
      BY DEF TypeInv, ReqsOK, Request
  <2>2. AfterGate(req[r]) \in {"list", "replay", "create"}
      BY DEF AfterGate
  <2>3. new.pc \notin {"post", "follow"}
      BY <2>1, <2>2, Zenon
  <2>4. req' = [req EXCEPT ![r] = new]
      BY <1>3 DEF Pass
  <2> HIDE DEF new
  <2> QED BY <1>1, <2>3, <2>4
<1>4. ASSUME NEW pc \in {"create", "raced", "like"}, Goto(r, pc) PROVE GateInv'
  <2> DEFINE new == [req[r] EXCEPT !.pc = pc]
  <2>1. new.pc \notin {"post", "follow"}
      BY DEF TypeInv, ReqsOK, Request
  <2>2. req' = [req EXCEPT ![r] = new]
      BY <1>4 DEF Goto
  <2> HIDE DEF new
  <2> QED BY <1>1, <2>1, <2>2
<1>5. ASSUME NEW d \in Docs, req' = [req EXCEPT ![r] = [req[r] EXCEPT !.pc = "publish", !.doc = d]]
      PROVE  GateInv'
  <2> DEFINE new == [req[r] EXCEPT !.pc = "publish", !.doc = d]
  <2>1. new.pc \notin {"post", "follow"}
      BY ZenonT(60) DEF TypeInv, ReqsOK, Request
  <2>2. req' = [req EXCEPT ![r] = new]
      BY <1>5
  <2> HIDE DEF new
  <2> QED BY <1>1, <2>1, <2>2
<1> QED BY <1>2, <1>3, <1>4, <1>5

\* The first read lets through, sends away, or leaves the follow to the second.
LEMMA GateFollow ==
  ASSUME TypeInv, GateInv, NEW r \in Reqs, req[r].pc = "post",
         posts[req[r].post] = "followers-only", Author[req[r].post] # req[r].user,
         Goto(r, "follow"), UNCHANGED <<posts, follows>>
  PROVE  GateInv'
<1> DEFINE new == [req[r] EXCEPT !.pc = "follow"]
<1>1. /\ new.pc = "follow" /\ new.post = req[r].post /\ new.user = req[r].user
      /\ new.open = req[r].open /\ new.changes = req[r].changes
    BY DEF TypeInv, ReqsOK, Request
<1>2. req' = [req EXCEPT ![r] = new]
    BY DEF Goto
<1> HIDE DEF new
<1>3. Visible(posts[req[r].post], follows, req[r].user, req[r].post) => req[r].open
    BY DEF GateInv, GateOK
<1>4. <<req[r].user, Author[req[r].post]>> \in follows => req[r].open
    BY <1>3 DEF Visible
<1>5. GateOK(new)
    BY <1>1, <1>4 DEF GateOK
<1> QED BY <1>2, <1>5, GateUpdate

\* Watching keeps what is known in step with the posts and the follows.
LEMMA GateWatch ==
  ASSUME TypeInv, GateInv, NEW Q \in SUBSET Reqs, Watch(Q),
         \A s \in Reqs \ Q : AtGate(s) =>
             /\ posts'[req[s].post] = posts[req[s].post]
             /\ (<<req[s].user, Author[req[s].post]>> \in follows')
                = (<<req[s].user, Author[req[s].post]>> \in follows),
         \A s \in Q : AtGate(s) =>
             \/ posts'[req[s].post] = posts[req[s].post]
             \/ (<<req[s].user, Author[req[s].post]>> \in follows')
                = (<<req[s].user, Author[req[s].post]>> \in follows)
  PROVE  GateInv'
<1> SUFFICES ASSUME NEW s \in Reqs PROVE GateOK(req[s])'
    BY DEF GateInv
<1>1. req[s] \in Request /\ GateOK(req[s])
    BY DEF TypeInv, ReqsOK, GateInv
<1>2. CASE ~AtGate(s)
    BY <1>1, <1>2 DEF Watch, GateOK, AtGate
<1>3. CASE AtGate(s) /\ s \notin Q
    BY <1>1, <1>3 DEF Watch, GateOK, AtGate, Visible
<1>4. CASE AtGate(s) /\ s \in Q
  <2>1. PICK p, u : p = req[s].post /\ u = req[s].user
      OBVIOUS
  <2> DEFINE o == req[s].open \/ Visible(posts'[p], follows', u, p)
             n == IF At(s, "follow") /\ req[s].changes < 2 THEN req[s].changes + 1 ELSE req[s].changes
  <2>2. req'[s] = [req[s] EXCEPT !.open = o, !.changes = n]
      BY <1>4, <2>1 DEF Watch
  <2>3. At(s, "follow") => n # 0 /\ (n < 2 => req[s].changes = 0)
      BY <1>1 DEF Request
  <2>4. Visible(posts'[p], follows', u, p) => o
      OBVIOUS
  <2>5. req[s].open => o
      OBVIOUS
  <2> HIDE DEF o, n
  <2>6. /\ req'[s].pc = req[s].pc /\ req'[s].post = p /\ req'[s].user = u
        /\ req'[s].open = o /\ req'[s].changes = n
      BY <1>1, <2>1, <2>2 DEF Request
  <2>7. req[s].pc = "post" => GateOK(req[s])'
      BY <2>4, <2>6 DEF GateOK
  <2>8. ASSUME req[s].pc = "follow", ~o
         PROVE  /\ Author[p] # u
                /\ n < 2 => <<u, Author[p]>> \notin follows'
                /\ n # 0
    <3>1. ~req[s].open /\ ~Visible(posts'[p], follows', u, p)
        BY <2>4, <2>5, <2>8
    <3>2. /\ Author[p] # u
          /\ req[s].changes = 0 => <<u, Author[p]>> \notin follows /\ posts[p] = "followers-only"
        BY <1>1, <2>1, <2>8, <3>1 DEF GateOK
    <3>3. <<u, Author[p]>> \in follows' => posts'[p] # "followers-only"
        BY <3>1 DEF Visible
    <3>4. posts'[p] = posts[p] \/ (<<u, Author[p]>> \in follows') = (<<u, Author[p]>> \in follows)
        BY <1>4, <2>1
    <3>5. n # 0 /\ (n < 2 => req[s].changes = 0)
        BY <2>3, <2>8 DEF At
    <3> QED BY <3>2, <3>3, <3>4, <3>5
  <2>9. req[s].pc = "follow" => GateOK(req[s])'
      BY <2>6, <2>8 DEF GateOK
  <2> QED BY <1>4, <2>7, <2>9 DEF AtGate
<1> QED BY <1>2, <1>3, <1>4

\* Posts and follows change under the eyes of the requests at the gate.
LEMMA GateChange ==
  ASSUME TypeInv, GateInv,
         \/ \E p \in Posts, vis \in Visibilities \cup {None} : ChangePost(p, vis)
         \/ \E u \in Users, v \in Authors : ChangeFollow(u, v)
  PROVE  GateInv'
<1>1. ASSUME NEW s \in Reqs, AtGate(s) PROVE req[s].post \in Posts /\ req[s].post # None
    BY <1>1, NoneAssumption DEF AtGate, TypeInv, ReqsOK, RequestOK
<1>2. ASSUME NEW p \in Posts, NEW vis \in Visibilities \cup {None}, ChangePost(p, vis)
      PROVE  GateInv'
  <2> DEFINE Q == {r \in Reqs : req[r].post = p}
  <2>1. Watch(Q) /\ follows' = follows /\ posts' = [posts EXCEPT ![p] = vis]
      BY <1>2 DEF ChangePost
  <2>2. \A s \in Reqs \ Q : AtGate(s) => posts'[req[s].post] = posts[req[s].post]
      BY <1>1, <2>1 DEF TypeInv, StoresOK
  <2> QED BY <2>1, <2>2, GateWatch
<1>3. ASSUME NEW u \in Users, NEW v \in Authors, ChangeFollow(u, v)
      PROVE  GateInv'
  <2> DEFINE Q == {r \in Reqs : req[r].user = u /\ req[r].post # None /\ Author[req[r].post] = v}
  <2>1. /\ Watch(Q) /\ posts' = posts
        /\ follows' = follows \ {<<u, v>>} \/ follows' = follows \cup {<<u, v>>}
      BY <1>3 DEF ChangeFollow
  <2>2. ASSUME NEW s \in Reqs \ Q, AtGate(s) PROVE <<req[s].user, Author[req[s].post]>> # <<u, v>>
      BY <1>1, <2>2
  <2>3. \A s \in Reqs \ Q : AtGate(s) =>
            (<<req[s].user, Author[req[s].post]>> \in follows')
            = (<<req[s].user, Author[req[s].post]>> \in follows)
      BY <2>1, <2>2
  <2> QED BY <2>1, <2>3, GateWatch
<1> QED BY <1>2, <1>3

\* A request starts at the gate with what it can see, or beyond it.
LEMMA GateBegin ==
  ASSUME TypeInv, GateInv, NEW r \in Reqs, Start(r)
  PROVE  GateInv'
<1>1. ASSUME NEW u, NEW p, NEW k, NEW open, NEW pc \in {"post", "liked", "remove"}, NEW op,
             pc = "post" => (Visible(posts[p], follows, u, p) => open),
             Begin(r, pc, op, u, p, k, open)
      PROVE  GateInv'
  <2> DEFINE q == [pc |-> pc, op |-> op, user |-> u, post |-> p, key |-> k,
                   doc |-> None, open |-> open, changes |-> 0]
  <2>1. q.pc = pc /\ q.user = u /\ q.post = p /\ q.open = open
      OBVIOUS
  <2>2. req' = [req EXCEPT ![r] = q] /\ UNCHANGED <<posts, follows>>
      BY <1>1 DEF Begin
  <2> HIDE DEF q
  <2>3. GateOK(q)
      BY <1>1, <2>1 DEF GateOK
  <2> QED BY <2>2, <2>3, GateUpdate
<1> QED BY <1>1 DEF Start, CommentRequest, ListRequest, LikeRequest, UnlikeRequest

\* Every step keeps what is known at the gate.
LEMMA NextGate == TypeInv /\ GateInv /\ [Next]_vars => GateInv'
<1> SUFFICES ASSUME TypeInv, GateInv, [Next]_vars PROVE GateInv'
    OBVIOUS
<1>1. CASE UNCHANGED vars
    BY <1>1 DEF vars, GateInv, GateOK, Visible
<1>2. ASSUME NEW r \in Reqs, FindPost(r) PROVE GateInv'
    BY <1>2, GateMove, GateFollow DEF FindPost, At
<1>3. ASSUME NEW r \in Reqs, FindFollow(r) \/ FindReplay(r) \/ FindRaced(r) \/ ListComments(r)
                             \/ FindLikedPost(r) \/ RemoveLike(r) \/ Publish(r) \/ Fail(r)
      PROVE  GateInv'
    BY <1>3, GateMove DEF FindFollow, FindReplay, FindRaced, ListComments, FindLikedPost,
                          RemoveLike, Publish, Fail
<1>4. ASSUME NEW r \in Reqs, CreateComment(r) \/ CreateLike(r) PROVE GateInv'
    BY <1>4, GateMove DEF CreateComment, CreateLike, Stored, Unissued
<1> QED BY <1>1, <1>2, <1>3, <1>4, GateBegin, GateChange DEF Next, Continue, DeletePost

\* A step of one request is no step of another.
LEMMA OwnStep ==
  ASSUME TypeInv, NEW r \in Reqs, Start(r) \/ Continue(r) \/ Fail(r), NEW s \in Reqs, s # r
  PROVE  req'[s] = req[s]
<1>1. PICK q : req' = [req EXCEPT ![r] = q]
  <2>1. CASE Start(r)
      BY <2>1 DEF Start, CommentRequest, ListRequest, LikeRequest, UnlikeRequest, Begin
  <2>2. CASE Continue(r)
      BY <2>2 DEF Continue, FindPost, FindFollow, FindReplay, CreateComment, FindRaced, ListComments,
                  FindLikedPost, CreateLike, RemoveLike, Publish, Stored, Pass, Goto, Finish
  <2>3. CASE Fail(r)
      BY <2>3 DEF Fail, Finish
  <2> QED BY <2>1, <2>2, <2>3
<1> QED BY <1>1 DEF TypeInv, ReqsOK

\* Whoever passes the gate could see the post at some moment of the request, unless
\* what decides about it changed twice between the two reads, for every number of
\* users, posts and requests (assertPostVisible, comment.service.js:30-40, FR-036).
THEOREM GateIsSound == Spec => GateSound
<1>1. ASSUME TypeInv, GateInv, [Next]_vars PROVE [SoundPassage]_vars
  <2> SUFFICES ASSUME Next, NEW s \in Reqs, AtGate(s), req'[s].pc \notin {"idle", "post", "follow"}
               PROVE  req[s].open \/ req[s].changes = 2
      BY <1>1 DEF SoundPassage
  <2>1. req[s] \in Request /\ GateOK(req[s]) /\ req[s].pc \in {"post", "follow"}
      BY <1>1 DEF TypeInv, ReqsOK, GateInv, AtGate
  <2>2. ~ \E Q \in SUBSET Reqs : Watch(Q)
      BY <2>1 DEF Watch, Request
  <2>3. PICK r \in Reqs : Start(r) \/ Continue(r) \/ Fail(r)
      BY <2>2 DEF Next, DeletePost, ChangePost, ChangeFollow
  <2>4. r = s
      BY <1>1, <2>1, <2>3, OwnStep
  <2>5. ~Finish(s) /\ ~Goto(s, "follow")
      BY <1>1 DEF Finish, Goto, Rest, TypeInv, ReqsOK, Request
  <2>6. FindPost(s) \/ FindFollow(s)
      BY <2>1, <2>3, <2>4, <2>5 DEF Start, CommentRequest, ListRequest, LikeRequest, UnlikeRequest, Begin,
         Continue, FindReplay, CreateComment, FindRaced, ListComments, FindLikedPost, CreateLike,
         RemoveLike, Publish, Fail, At
  <2>7. CASE FindPost(s)
      BY <2>1, <2>5, <2>7 DEF FindPost, At, GateOK, Visible
  <2>8. CASE FindFollow(s)
      BY <2>1, <2>5, <2>8 DEF FindFollow, At, GateOK, Request
  <2> QED BY <2>6, <2>7, <2>8
<1> QED BY <1>1, InitTypeInv, NextTypeInv, InitGate, NextGate, PTL DEF Spec, GateSound
=============================================================================
