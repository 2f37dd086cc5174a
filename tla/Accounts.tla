------------------------------ MODULE Accounts ------------------------------
(***************************************************************************)
(* Registration and account deletion: service/user.service.js, with the    *)
(* writes of signed-in users that race a deletion.  Sessions are module    *)
(* Sessions; here their revocation is a step that changes nothing.         *)
(*                                                                         *)
(* A document is a post, a comment, a like, a follow or a notification of  *)
(* user "by", concerning user "to" where there is one.                     *)
(***************************************************************************)
EXTENDS Naturals, FiniteSets

CONSTANTS
    Uids,       \* user ids; never reused
    Names,      \* usernames clients register
    Emails,     \* emails clients register, the placeholder's perhaps among them
    Deleted,    \* the username "[deleted]", which the validator refuses
    Docs,       \* document ids
    Kinds,      \* the kinds of documents users write
    Keys,       \* idempotency keys of comments, None for no key
    Reqs,       \* requests in flight at once
    Registered, \* the ids that have an account at the start
    Faults,     \* may Mongo reject a call, or the process die?
    None

ASSUME NameAssumption == Deleted \notin Names /\ None \notin Names \cup Uids \cup Docs
ASSUME KindAssumption == Kinds \subseteq {"post", "comment", "like", "follow", "notice"}

VARIABLES
    users,      \* the accounts, "[deleted]" among them
    gone,       \* ids whose account was deleted
    docs,       \* the documents
    req,        \* the requests in flight
    rivals      \* history: of each account, those inserted while its
                \* registration was past the lookup of the email

vars == <<users, gone, docs, req, rivals>>

User == [name : Names \cup {Deleted}, email : Emails \cup {Deleted}]
Document == [kind : Kinds, by : Uids, to : Uids \cup {None}, key : Keys \cup {None}]
Request == [pc : {"idle", "email", "name", "create", "target", "insert", "find",
                  "placeholder", "race", "posts", "comments", "likes", "follows",
                  "erase", "error"},
            user : Uids \cup {None}, heir : Uids \cup {None},
            name : Names \cup {None}, email : Emails \cup {None},
            doc : Document \cup {None}, own : SUBSET Docs, rivals : SUBSET Uids]

ASSUME RecordAssumption == None \notin User /\ None \notin Document

Idle == [pc |-> "idle", user |-> None, heir |-> None, name |-> None,
         email |-> None, doc |-> None, own |-> {}, rivals |-> {}]

Exists(u) == users[u] # None
Named(n) == {u \in Uids : Exists(u) /\ users[u].name = n}
Concerns(d, u) == docs[d] # None /\ u \in {docs[d].by, docs[d].to}

Init ==
    /\ \E f \in [Registered -> Names], g \in [Registered -> Emails] :
          /\ \A u, v \in Registered : u # v => f[u] # f[v] /\ g[u] # g[v]
          /\ users = [u \in Uids |-> IF u \in Registered
                                     THEN [name |-> f[u], email |-> g[u]] ELSE None]
    /\ gone = {}
    /\ docs = [d \in Docs |-> None]
    /\ req = [r \in Reqs |-> Idle]
    /\ rivals = [u \in Uids |-> {}]

At(r, pc) == req[r].pc = pc
Goto(r, pc) == req' = [req EXCEPT ![r].pc = pc]
Finish(r) == req' = [req EXCEPT ![r] = Idle]

-----------------------------------------------------------------------------
(* registerUser: two lookups, then the insertion.                          *)

Register(r, n, e) ==
    /\ At(r, "idle")
    /\ req' = [req EXCEPT ![r] = [Idle EXCEPT !.pc = "email", !.name = n, !.email = e]]
    /\ UNCHANGED <<users, gone, docs, rivals>>

\* Mutant: the email is not looked up.
EmailNeverTaken(e) == FALSE

EmailTaken(e) == \E u \in Uids : Exists(u) /\ users[u].email = e

CheckEmail(r) ==
    /\ At(r, "email")
    /\ IF EmailTaken(req[r].email) THEN Finish(r) ELSE Goto(r, "name")
    /\ UNCHANGED <<users, gone, docs, rivals>>

CheckName(r) ==
    /\ At(r, "name")
    /\ IF Named(req[r].name) # {} THEN Finish(r) ELSE Goto(r, "create")
    /\ UNCHANGED <<users, gone, docs, rivals>>

\* Mutant: no index.
AcceptsAnyUser(name) == TRUE

\* The one unique index of the user schema.
AcceptsUser(name) == Named(name) = {}

FreshIds == {u \in Uids : ~Exists(u) /\ u \notin gone}

Inserting(r) == At(r, "name") \/ At(r, "create")

CreateUser(r) ==
    /\ At(r, "create")
    /\ IF AcceptsUser(req[r].name)
       THEN \E u \in FreshIds :
               /\ users' = [users EXCEPT ![u] = [name |-> req[r].name, email |-> req[r].email]]
               /\ rivals' = [rivals EXCEPT ![u] = req[r].rivals]
               /\ req' = [q \in Reqs |-> IF q = r THEN Idle
                                         ELSE IF Inserting(q) THEN [req[q] EXCEPT !.rivals = @ \cup {u}]
                                         ELSE req[q]]
       ELSE Finish(r) /\ UNCHANGED <<users, rivals>>
    /\ UNCHANGED <<gone, docs>>

-----------------------------------------------------------------------------
(* A signed-in user writes a document.                                     *)

\* The auth middleware has just found user doc.by.
Write(r, doc) ==
    /\ At(r, "idle")
    /\ Exists(doc.by) /\ users[doc.by].name # Deleted
    /\ doc.to # doc.by
    /\ (doc.to # None) = (doc.kind \in {"follow", "notice"})
    /\ doc.key # None => doc.kind = "comment"
    /\ req' = [req EXCEPT ![r] = [Idle EXCEPT !.doc = doc,
                  !.pc = IF doc.to = None THEN "insert" ELSE "target"]]
    /\ UNCHANGED <<users, gone, docs, rivals>>

\* followUser and deliverNotification look the other user up first.
FindTarget(r) ==
    /\ At(r, "target")
    /\ IF Exists(req[r].doc.to) THEN Goto(r, "insert") ELSE Finish(r)
    /\ UNCHANGED <<users, gone, docs, rivals>>

\* The partial unique index on a comment's author and idempotency key.
KeyTaken(u, k) ==
    \E d \in Docs : /\ docs[d] # None /\ docs[d].kind = "comment"
                    /\ k # None /\ docs[d].by = u /\ docs[d].key = k

\* A user follows another at most once.
Duplicate(doc) ==
    \/ KeyTaken(doc.by, doc.key)
    \/ doc.kind = "follow" /\ \E d \in Docs : docs[d] = doc

\* A document put where a removed one was is not the one a deletion saw.
Insert(r) ==
    /\ At(r, "insert")
    /\ IF Duplicate(req[r].doc)
       THEN Finish(r) /\ UNCHANGED docs
       ELSE \E d \in Docs :
               /\ docs[d] = None
               /\ docs' = [docs EXCEPT ![d] = req[r].doc]
               /\ req' = [q \in Reqs |-> IF q = r THEN Idle
                                         ELSE [req[q] EXCEPT !.own = @ \ {d}]]
    /\ UNCHANGED <<users, gone, rivals>>

-----------------------------------------------------------------------------
(* deleteUserAccount.                                                      *)

\* own: the documents that concerned the user when the request arrived.
Delete(r, u) ==
    /\ At(r, "idle")
    /\ Exists(u) /\ users[u].name # Deleted
    /\ req' = [req EXCEPT ![r] = [Idle EXCEPT !.pc = "find", !.user = u,
                                   !.own = {d \in Docs : Concerns(d, u)}]]
    /\ UNCHANGED <<users, gone, docs, rivals>>

\* The user is read, then the placeholder is looked up.
FindUser(r) ==
    /\ At(r, "find")
    /\ IF Exists(req[r].user) THEN Goto(r, "placeholder") ELSE Finish(r)
    /\ UNCHANGED <<users, gone, docs, rivals>>

FindPlaceholder(r) ==
    /\ At(r, "placeholder")
    /\ \/ \E h \in Named(Deleted) :
             req' = [req EXCEPT ![r].heir = h, ![r].pc = "posts"]
       \/ Named(Deleted) = {} /\ Goto(r, "race")
    /\ UNCHANGED <<users, gone, docs, rivals>>

\* Mutant: a lost race for the placeholder is not looked into.
CreatePlaceholderOnce(r) ==
    /\ At(r, "race")
    /\ IF AcceptsUser(Deleted)
       THEN \E h \in FreshIds :
               /\ users' = [users EXCEPT ![h] = [name |-> Deleted, email |-> Deleted]]
               /\ req' = [req EXCEPT ![r].heir = h, ![r].pc = "posts"]
       ELSE Goto(r, "error") /\ UNCHANGED users
    /\ UNCHANGED <<gone, docs, rivals>>

\* Mutant: the deletion goes on without the winner's account.
CreatePlaceholderUnread(r) ==
    /\ At(r, "race")
    /\ IF AcceptsUser(Deleted)
       THEN \E h \in FreshIds :
               /\ users' = [users EXCEPT ![h] = [name |-> Deleted, email |-> Deleted]]
               /\ req' = [req EXCEPT ![r].heir = h, ![r].pc = "posts"]
       ELSE Goto(r, "posts") /\ UNCHANGED users
    /\ UNCHANGED <<gone, docs, rivals>>

\* The loser of the race for the username takes the winner's account.
CreatePlaceholder(r) ==
    /\ At(r, "race")
    /\ IF AcceptsUser(Deleted)
       THEN \E h \in FreshIds :
               /\ users' = [users EXCEPT ![h] = [name |-> Deleted, email |-> Deleted]]
               /\ req' = [req EXCEPT ![r].heir = h, ![r].pc = "posts"]
       ELSE Goto(r, "placeholder") /\ UNCHANGED users
    /\ UNCHANGED <<gone, docs, rivals>>

\* The documents of a kind that user u wrote.
Of(kind, u) == {d \in Docs : docs[d] # None /\ docs[d].kind = kind /\ docs[d].by = u}

Reassigned(S, h) == [d \in Docs |-> IF d \in S THEN [docs[d] EXCEPT !.by = h] ELSE docs[d]]
Removed(S) == [d \in Docs |-> IF d \in S THEN None ELSE docs[d]]

ReassignPosts(r) ==
    /\ At(r, "posts")
    /\ docs' = Reassigned(Of("post", req[r].user), req[r].heir)
    /\ Goto(r, "comments")
    /\ UNCHANGED <<users, gone, rivals>>

\* updateMany goes document by document and stops at the first one the unique
\* index refuses: the placeholder holds a comment with the same key.
ReassignComments(r) ==
    /\ At(r, "comments")
    /\ LET own == Of("comment", req[r].user)
           clash == {d \in own : KeyTaken(req[r].heir, docs[d].key)}
       IN \/ clash = {} /\ docs' = Reassigned(own, req[r].heir) /\ Goto(r, "likes")
          \/ /\ clash # {}
             /\ \E done \in SUBSET (own \ clash) : docs' = Reassigned(done, req[r].heir)
             /\ Goto(r, "error")
    /\ UNCHANGED <<users, gone, rivals>>

RemoveLikes(r) ==
    /\ At(r, "likes")
    /\ docs' = Removed(Of("like", req[r].user))
    /\ Goto(r, "follows")
    /\ UNCHANGED <<users, gone, rivals>>

\* Mutant: only the follows the user started.
FollowsFrom(u) == Of("follow", u)

\* Both sides of the relation.
FollowsOf(u) == {d \in Docs : Concerns(d, u) /\ docs[d].kind = "follow"}

RemoveFollows(r) ==
    /\ At(r, "follows")
    /\ docs' = Removed(FollowsOf(req[r].user))
    /\ Goto(r, "erase")
    /\ UNCHANGED <<users, gone, rivals>>

Erase(r) ==
    /\ At(r, "erase")
    /\ users' = [users EXCEPT ![req[r].user] = None]
    /\ gone' = gone \cup {req[r].user}
    /\ Finish(r)
    /\ UNCHANGED <<docs, rivals>>

\* The client learns that its request failed, by its own step or by a fault.
Fail(r) ==
    /\ At(r, "error") \/ (Faults /\ ~At(r, "idle"))
    /\ Finish(r)
    /\ UNCHANGED <<users, gone, docs, rivals>>

Start(r) ==
    \/ \E n \in Names, e \in Emails : Register(r, n, e)
    \/ \E doc \in Document : Write(r, doc)
    \/ \E u \in Uids : Delete(r, u)

Continue(r) ==
    \/ CheckEmail(r) \/ CheckName(r) \/ CreateUser(r)
    \/ FindTarget(r) \/ Insert(r)
    \/ FindUser(r) \/ FindPlaceholder(r) \/ CreatePlaceholder(r)
    \/ ReassignPosts(r) \/ ReassignComments(r) \/ RemoveLikes(r) \/ RemoveFollows(r)
    \/ Erase(r)

Next == \E r \in Reqs : Start(r) \/ Continue(r) \/ Fail(r)

Spec == Init /\ [][Next]_vars
-----------------------------------------------------------------------------
(* Properties.                                                             *)

TypeOK ==
    /\ users \in [Uids -> User \cup {None}]
    /\ gone \subseteq Uids
    /\ docs \in [Docs -> Document \cup {None}]
    /\ req \in [Reqs -> Request]
    /\ rivals \in [Uids -> SUBSET Uids]

\* A deletion under way hands its documents to the one account named "[deleted]",
\* whether it found that account, made it or lost the race to make it, so that
\* several first deletions agree (user.service.js:79-93).
OneHeir == \A r \in Reqs : req[r].heir # None => Named(Deleted) = {req[r].heir}

\* Before the account goes, whatever concerned it when the deletion arrived is
\* attributed to "[deleted]" or removed, however deletions and writes overlap
\* and however often an earlier deletion failed half-way (FR-038).  Notifications
\* are left alone (user.service.js:103-116).
Anonymised == \A r \in Reqs : At(r, "erase") =>
    \A d \in req[r].own : Concerns(d, req[r].user) => docs[d].kind = "notice"

\* A deletion that nothing external disturbs fails for one reason only: a comment
\* of the user bears the key of one that "[deleted]" already has, so that the
\* unique index refuses its new author (user.service.js:106, comment.model.js:60-63).
DeletionCompletes == \A r \in Reqs : At(r, "error") =>
    \E d \in Of("comment", req[r].user) : KeyTaken(req[r].heir, docs[d].key)

\* No index guards the email of an account (user.model.js:19-24): two accounts
\* share one only when their registrations overlapped, the second having looked
\* for it before the first was inserted (user.service.js:31).  The placeholder's
\* email is looked up by no one (user.service.js:83-87).
EmailRace == \A u, v \in Uids :
    /\ u # v /\ Exists(u) /\ Exists(v)
    /\ users[u].email = users[v].email
    /\ Deleted \notin {users[u].name, users[v].name}
    => u \in rivals[v] \/ v \in rivals[u]
=============================================================================
