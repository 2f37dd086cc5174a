----------------------------- MODULE Interactions -----------------------------
(***************************************************************************)
(* Comments and likes: service/comment.service.js, service/like.service.js *)
(* and their repositories, against posts whose visibility changes and      *)
(* follows that come and go (post.service.js, follow.service.js).          *)
(*                                                                         *)
(* One action per awaited call.  Publishing ends a request here; what      *)
(* becomes of the event is module Notifications.  Account deletion, which  *)
(* hands comments to another author, is module Accounts.                   *)
(***************************************************************************)
EXTENDS Naturals, FiniteSets

CONSTANTS
    Users,
    Posts,
    Author,     \* of each post
    Docs,       \* ids of comments and likes; never reused
    Keys,       \* idempotency keys; None for no key
    Reqs,       \* requests in flight at once
    Faults,     \* may Mongo reject a call, or the process die?
    None

ASSUME AuthorAssumption == Author \in [Posts -> Users]
ASSUME FaultAssumption == Faults \in BOOLEAN

VARIABLES
    posts,      \* the visibility of each post that exists
    follows,    \* pairs <<follower, followed>>
    docs,       \* comments and likes; an id not issued yet has None
    published,  \* how often the event of each document was published
    answers,    \* the comment named to each submitter of a key
    req         \* the requests in flight

vars == <<posts, follows, docs, published, answers, req>>

Authors == {Author[p] : p \in Posts}
Visibilities == {"public", "followers-only", "private"}
Comment == [kind : {"comment"}, user : Users, post : Posts,
            key : Keys \cup {None}]
Like == [kind : {"like"}, user : Users, post : Posts, live : BOOLEAN]

ASSUME NoneAssumption == None \notin Posts \cup Docs \cup Keys \cup Comment \cup Like

Request == [pc : {"idle", "post", "follow", "replay", "create", "raced",
                  "list", "liked", "like", "publish", "remove"},
            op : {"comment", "list", "like", "unlike", None},
            user : Users \cup {None}, post : Posts \cup {None}, key : Keys \cup {None},
            doc : Docs \cup {None},
            open : BOOLEAN, changes : 0..2]

Likes(u, p) == {d \in Docs : docs[d] # None /\ docs[d].kind = "like" /\ docs[d].live
                             /\ docs[d].user = u /\ docs[d].post = p}
Keyed(u, k) == {d \in Docs : docs[d] # None /\ docs[d].kind = "comment"
                             /\ k # None /\ docs[d].user = u /\ docs[d].key = k}
Unissued == {d \in Docs : docs[d] = None}

At(r, pc) == req[r].pc = pc
Goto(r, pc) == req' = [req EXCEPT ![r].pc = pc]
Rest == [pc |-> "idle", op |-> None, user |-> None, post |-> None, key |-> None,
         doc |-> None, open |-> FALSE, changes |-> 0]
Finish(r) == req' = [req EXCEPT ![r] = Rest]

Init ==
    /\ posts \in [Posts -> Visibilities]
    /\ follows \in SUBSET {f \in Users \X Authors : f[1] # f[2]}
    /\ docs = [d \in Docs |-> None]
    /\ published = [d \in Docs |-> 0]
    /\ answers = {}
    /\ req = [r \in Reqs |-> Rest]

-----------------------------------------------------------------------------
(* Posts and follows change under the requests.  "open" and "changes" only *)
(* record, for the property GateSound, whether the post was visible to the *)
(* caller at some moment while the request was at the gate, and how often  *)
(* what decides about that changed between the two reads of the gate.      *)

Visible(vis, F, u, p) ==
    \/ vis = "public"
    \/ vis # None /\ Author[p] = u
    \/ vis = "followers-only" /\ <<u, Author[p]>> \in F

AtGate(r) == req[r].pc \in {"post", "follow"}

Watch(Q) ==
    req' = [r \in Reqs |->
        IF r \in Q /\ AtGate(r)
        THEN [req[r] EXCEPT
                !.open = @ \/ Visible(posts'[req[r].post], follows', req[r].user, req[r].post),
                !.changes = IF At(r, "follow") /\ @ < 2 THEN @ + 1 ELSE @]
        ELSE req[r]]

ChangePost(p, vis) ==
    /\ posts[p] # None /\ vis # posts[p]
    /\ posts' = [posts EXCEPT ![p] = vis]
    /\ UNCHANGED <<follows, docs, published, answers>>
    /\ Watch({r \in Reqs : req[r].post = p})

\* Nothing is removed along with a post.
DeletePost(p) == ChangePost(p, None)

ChangeFollow(u, v) ==
    /\ u # v
    /\ follows' = IF <<u, v>> \in follows THEN follows \ {<<u, v>>}
                                          ELSE follows \cup {<<u, v>>}
    /\ UNCHANGED <<posts, docs, published, answers>>
    /\ Watch({r \in Reqs : req[r].user = u /\ req[r].post # None /\ Author[req[r].post] = v})

-----------------------------------------------------------------------------
(* Requests.                                                               *)

Begin(r, pc, op, u, p, k, open) ==
    /\ At(r, "idle")
    /\ req' = [req EXCEPT ![r] = [pc |-> pc, op |-> op, user |-> u, post |-> p, key |-> k,
                                  doc |-> None, open |-> open, changes |-> 0]]
    /\ UNCHANGED <<posts, follows, docs, published, answers>>

CommentRequest(r, u, p, k) ==
    Begin(r, "post", "comment", u, p, k, Visible(posts[p], follows, u, p))
ListRequest(r, u, p) ==
    Begin(r, "post", "list", u, p, None, Visible(posts[p], follows, u, p))
LikeRequest(r, u, p) == Begin(r, "liked", "like", u, p, None, FALSE)
UnlikeRequest(r, u, p) == Begin(r, "remove", "unlike", u, p, None, FALSE)

\* What follows the gate.  A parent, where the comment has one, is looked up
\* too: it is on the same post for ever or never, so only those requests are
\* taken for which it is.
AfterGate(q) == IF q.op = "list" THEN "list"
                ELSE IF q.key # None THEN "replay" ELSE "create"

\* Past the gate, what was watched there is forgotten.
Pass(r) == req' = [req EXCEPT ![r] =
    [req[r] EXCEPT !.pc = AfterGate(req[r]), !.open = FALSE, !.changes = 0]]

\* Mutant: followers see private posts, too.
FindPostLoose(r) ==
    /\ At(r, "post")
    /\ LET vis == posts[req[r].post]
           own == Author[req[r].post] = req[r].user
       IN \/ vis # None /\ (vis = "public" \/ own) /\ Pass(r)
          \/ vis \in {"followers-only", "private"} /\ ~own /\ Goto(r, "follow")
          \/ vis = None /\ Finish(r)
    /\ UNCHANGED <<posts, follows, docs, published, answers>>

\* A comment, or the list of them, needs the post to be visible, which for
\* followers takes a second read.
FindPost(r) ==
    /\ At(r, "post")
    /\ LET vis == posts[req[r].post]
           own == Author[req[r].post] = req[r].user
       IN \/ vis # None /\ (vis = "public" \/ own) /\ Pass(r)
          \/ vis = "followers-only" /\ ~own /\ Goto(r, "follow")
          \/ (vis = None \/ (vis = "private" /\ ~own)) /\ Finish(r)
    /\ UNCHANGED <<posts, follows, docs, published, answers>>

FindFollow(r) ==
    /\ At(r, "follow")
    /\ IF <<req[r].user, Author[req[r].post]>> \in follows
       THEN Pass(r) ELSE Finish(r)
    /\ UNCHANGED <<posts, follows, docs, published, answers>>

\* The answer to a submission of a key names a comment, new or not.
Answered(q, d) == answers \cup {[user |-> q.user, key |-> q.key, doc |-> d]}

FindReplay(r) ==
    /\ At(r, "replay")
    /\ LET found == Keyed(req[r].user, req[r].key) IN
       \/ \E d \in found : answers' = Answered(req[r], d) /\ Finish(r)
       \/ found = {} /\ Goto(r, "create") /\ UNCHANGED answers
    /\ UNCHANGED <<posts, follows, docs, published>>

\* Mutant: without the unique index.
AcceptsAnyComment(u, k) == TRUE

\* The unique indexes: a comment's author and key, where it has a key, and a
\* like's user and post.
AcceptsComment(u, k) == Keyed(u, k) = {}
AcceptsLike(u, p) == Likes(u, p) = {}

Stored(r, doc) == \E d \in Unissued :
    /\ docs' = [docs EXCEPT ![d] = doc]
    /\ req' = [req EXCEPT ![r] = [req[r] EXCEPT !.pc = "publish", !.doc = d]]

NewComment(q) == [kind |-> "comment", user |-> q.user, post |-> q.post, key |-> q.key]
NewLike(q) == [kind |-> "like", user |-> q.user, post |-> q.post, live |-> TRUE]

\* The loser of a race for a key looks for the winner's comment.
CreateComment(r) ==
    /\ At(r, "create")
    /\ IF AcceptsComment(req[r].user, req[r].key) THEN Stored(r, NewComment(req[r]))
       ELSE Goto(r, "raced") /\ UNCHANGED docs
    /\ UNCHANGED <<posts, follows, published, answers>>

\* Mutant: the loser goes on as if the comment were its own.
FindRacedPublishing(r) ==
    /\ At(r, "raced")
    /\ \E d \in Keyed(req[r].user, req[r].key) :
          req' = [req EXCEPT ![r].pc = "publish", ![r].doc = d]
    /\ UNCHANGED <<posts, follows, docs, published, answers>>

FindRaced(r) ==
    /\ At(r, "raced")
    /\ \E d \in Keyed(req[r].user, req[r].key) : answers' = Answered(req[r], d)
    /\ Finish(r)
    /\ UNCHANGED <<posts, follows, docs, published>>

\* The audit entry and the event; neither can fail the request.
Publish(r) ==
    /\ At(r, "publish")
    /\ published' = [published EXCEPT ![req[r].doc] = @ + 1]
    /\ answers' = IF req[r].key # None THEN Answered(req[r], req[r].doc) ELSE answers
    /\ Finish(r)
    /\ UNCHANGED <<posts, follows, docs>>

\* A like only needs the post to exist.
FindLikedPost(r) ==
    /\ At(r, "liked")
    /\ IF posts[req[r].post] = None THEN Finish(r) ELSE Goto(r, "like")
    /\ UNCHANGED <<posts, follows, docs, published, answers>>

\* The loser of a race gets a conflict.
CreateLike(r) ==
    /\ At(r, "like")
    /\ IF AcceptsLike(req[r].user, req[r].post) THEN Stored(r, NewLike(req[r]))
       ELSE Finish(r) /\ UNCHANGED docs
    /\ UNCHANGED <<posts, follows, published, answers>>

RemoveLike(r) ==
    /\ At(r, "remove")
    /\ LET found == Likes(req[r].user, req[r].post) IN
       \/ \E d \in found : docs' = [docs EXCEPT ![d].live = FALSE]
       \/ found = {} /\ UNCHANGED docs
    /\ Finish(r)
    /\ UNCHANGED <<posts, follows, published, answers>>

\* The page of comments and their number; nothing changes.
ListComments(r) ==
    /\ At(r, "list")
    /\ Finish(r)
    /\ UNCHANGED <<posts, follows, docs, published, answers>>

\* Mongo rejects a call or the process dies; a rejected insertion may have
\* happened.
Fail(r) ==
    /\ Faults /\ ~At(r, "idle")
    /\ Finish(r)
    /\ \/ UNCHANGED docs
       \/ /\ At(r, "create") /\ AcceptsComment(req[r].user, req[r].key)
          /\ \E d \in Unissued : docs' = [docs EXCEPT ![d] = NewComment(req[r])]
       \/ /\ At(r, "like") /\ AcceptsLike(req[r].user, req[r].post)
          /\ \E d \in Unissued : docs' = [docs EXCEPT ![d] = NewLike(req[r])]
    /\ UNCHANGED <<posts, follows, published, answers>>

Start(r) == \E u \in Users, p \in Posts :
    \/ \E k \in Keys \cup {None} : CommentRequest(r, u, p, k)
    \/ ListRequest(r, u, p) \/ LikeRequest(r, u, p) \/ UnlikeRequest(r, u, p)

Continue(r) ==
    \/ FindPost(r) \/ FindFollow(r) \/ FindReplay(r) \/ CreateComment(r)
    \/ FindRaced(r) \/ ListComments(r) \/ FindLikedPost(r) \/ CreateLike(r)
    \/ RemoveLike(r) \/ Publish(r)

Next ==
    \/ \E r \in Reqs : Start(r) \/ Continue(r) \/ Fail(r)
    \/ \E p \in Posts : DeletePost(p) \/ \E vis \in Visibilities : ChangePost(p, vis)
    \/ \E u \in Users, v \in Authors : ChangeFollow(u, v)

Spec == Init /\ [][Next]_vars
-----------------------------------------------------------------------------
(* Properties.                                                             *)

TypeOK ==
    /\ posts \in [Posts -> Visibilities \cup {None}]
    /\ follows \subseteq Users \X Users
    /\ docs \in [Docs -> Comment \cup Like \cup {None}]
    /\ published \in [Docs -> Nat]
    /\ answers \subseteq [user : Users, key : Keys, doc : Docs]
    /\ req \in [Reqs -> Request]

\* Every answer to a submission of one key by one user names the same comment,
\* whichever lookup or insertion won and whatever failed before
\* (comment.service.js:74-94, FR-028).
SameComment == \A a, b \in answers : a.user = b.user /\ a.key = b.key => a.doc = b.doc

\* The event of a comment or like is published once at most, by the request
\* that stored it: losers and replays stay silent (comment.service.js:53-56).
PublishedOnce == \A d \in Docs :
    published[d] + Cardinality({r \in Reqs : At(r, "publish") /\ req[r].doc = d}) <= 1

\* Whoever gets past the gate could see the post at some moment of the request,
\* unless the post and the follow changed twice between the two reads of the
\* gate (assertPostVisible, comment.service.js:30-40, FR-036).
SoundPassage == \A r \in Reqs :
    AtGate(r) /\ req'[r].pc \notin {"idle", "post", "follow"} =>
        req[r].open \/ req[r].changes = 2
GateSound == [][SoundPassage]_vars
=============================================================================
