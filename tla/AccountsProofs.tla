---------------------------- MODULE AccountsProofs ----------------------------
(***************************************************************************)
(* For any number of accounts, documents and requests in flight: what a    *)
(* deletion leaves behind, who inherits, and which accounts share an email.*)
(***************************************************************************)
EXTENDS Accounts, TLAPS

-----------------------------------------------------------------------------
(* The invariant.                                                          *)

Heired == {"posts", "comments", "likes", "follows", "erase", "error"}
Deleting == Heired \cup {"find", "placeholder", "race"}

\* A document concerns a second user only as a follow or a notification.
WellFormed(doc) == doc.to # None => doc.kind \in {"follow", "notice"}

\* What a request knows of the accounts.  An account under deletion is never the
\* placeholder; a registration past the lookup knows its rivals.
AccountPart(q) ==
    /\ q.pc \in {"email", "name", "create"} => q.name \in Names /\ q.email \in Emails
    /\ q.pc \in {"name", "create"} =>
          \A v \in Uids : /\ Exists(v) /\ users[v].email = q.email /\ users[v].name # Deleted
                          => v \in q.rivals
    /\ q.pc \in Deleting => q.user \in Uids
    /\ q.user # None => q.user \in gone \/ (Exists(q.user) /\ users[q.user].name # Deleted)
    /\ q.pc \in Heired => q.heir \in Uids
    /\ q.heir # None => Named(Deleted) = {q.heir}

\* What a deletion has done so far to the documents it found; why it failed.
DocumentPart(q) ==
    /\ q.pc \in {"target", "insert"} => q.doc \in Document /\ WellFormed(q.doc)
    /\ \A d \in q.own : docs[d] # None =>
          /\ q.pc \in {"comments", "likes", "follows", "erase"} =>
                ~(docs[d].kind = "post" /\ docs[d].by = q.user)
          /\ q.pc \in {"likes", "follows", "erase"} =>
                ~(docs[d].kind = "comment" /\ docs[d].by = q.user)
          /\ q.pc \in {"follows", "erase"} =>
                ~(docs[d].kind = "like" /\ docs[d].by = q.user)
          /\ q.pc = "erase" =>
                ~(docs[d].kind = "follow" /\ q.user \in {docs[d].by, docs[d].to})
    /\ q.pc = "error" =>
          \E d \in Of("comment", q.user) : KeyTaken(q.heir, docs[d].key)

AccountsOK ==
    /\ users \in [Uids -> User \cup {None}]
    /\ gone \subseteq Uids
    /\ rivals \in [Uids -> SUBSET Uids]
    /\ \A u \in gone : ~Exists(u)
    /\ \A u, v \in Named(Deleted) : u = v
    /\ EmailRace

DocumentsOK ==
    /\ docs \in [Docs -> Document \cup {None}]
    /\ \A d \in Docs : docs[d] # None => WellFormed(docs[d])

RequestsOK ==
    /\ req \in [Reqs -> Request]
    /\ \A r \in Reqs : AccountPart(req[r]) /\ DocumentPart(req[r])

IInv == AccountsOK /\ DocumentsOK /\ RequestsOK

-----------------------------------------------------------------------------
(* Steps of one request.                                                   *)

Others(r) == \A p \in Reqs \ {r} : req'[p] = req[p]

\* The step left request r in order, and every other request alone.
Outcome(r) == /\ req' \in [Reqs -> Request] /\ Others(r)
              /\ AccountPart(req[r])' /\ DocumentPart(req[r])'

\* The step moved request r to pc.
Goes(r, pc) == /\ req' \in [Reqs -> Request] /\ Others(r)
               /\ req'[r].pc = pc /\ req'[r].user = req[r].user /\ req'[r].heir = req[r].heir
               /\ req'[r].name = req[r].name /\ req'[r].email = req[r].email
               /\ req'[r].doc = req[r].doc /\ req'[r].own = req[r].own
               /\ req'[r].rivals = req[r].rivals

LEMMA Moves ==
    ASSUME RequestsOK, NEW r \in Reqs, NEW pc, Goto(r, pc),
           pc \in Heired \cup {"name", "create", "insert", "placeholder", "race"}
    PROVE  Goes(r, pc)
<1>1. PICK q : q = [req[r] EXCEPT !.pc = pc]
  OBVIOUS
<1>2. req[r] \in Request
  BY DEF RequestsOK
<1>3. /\ q \in Request /\ q.pc = pc /\ q.user = req[r].user /\ q.heir = req[r].heir
      /\ q.name = req[r].name /\ q.email = req[r].email
      /\ q.doc = req[r].doc /\ q.own = req[r].own /\ q.rivals = req[r].rivals
  BY <1>1, <1>2 DEF Request, Heired
<1>4. req' = [req EXCEPT ![r] = q]
  BY <1>1 DEF Goto, RequestsOK
<1> QED BY <1>3, <1>4 DEF Goes, Others, RequestsOK

LEMMA IdleFields ==
    /\ Idle \in Request /\ Idle.pc = "idle" /\ Idle.user = None /\ Idle.heir = None
    /\ Idle.own = {} /\ Idle.rivals = {}
  BY DEF Idle, Request

LEMMA Finishes == ASSUME RequestsOK, NEW r \in Reqs, Finish(r) PROVE Outcome(r)
<1>1. req'[r] = Idle
  BY DEF Finish, RequestsOK
<1>2. AccountPart(req[r])' /\ DocumentPart(req[r])'
  BY <1>1, IdleFields DEF AccountPart, DocumentPart, Deleting, Heired
<1> QED BY <1>2, IdleFields DEF Finish, Outcome, Others, RequestsOK

LEMMA ReadStep ==
    ASSUME IInv, NEW r \in Reqs, Outcome(r), UNCHANGED <<users, gone, docs, rivals>>
    PROVE  IInv'
<1>1. AccountsOK'
  BY DEF IInv, AccountsOK, EmailRace, Exists, Named
<1>2. DocumentsOK'
  BY DEF IInv, DocumentsOK
<1>3. ASSUME NEW p \in Reqs PROVE AccountPart(req[p])' /\ DocumentPart(req[p])'
  <2>1. CASE p = r
    BY <2>1 DEF Outcome
  <2>2. CASE p # r
    <3>1. req'[p] = req[p]
      BY <2>2 DEF Outcome, Others
    <3>2. AccountPart(req[p])'
      BY <3>1 DEF IInv, RequestsOK, AccountPart, Exists, Named
    <3>3. DocumentPart(req[p])'
      BY <3>1 DEF IInv, RequestsOK, DocumentPart, Of, KeyTaken
    <3> QED BY <3>2, <3>3
  <2> QED BY <2>1, <2>2
<1> QED BY <1>1, <1>2, <1>3 DEF IInv, RequestsOK, Outcome

\* What is known of a request under way.
LEMMA Known ==
    ASSUME IInv, NEW r \in Reqs
    PROVE  req[r] \in Request /\ AccountPart(req[r]) /\ DocumentPart(req[r])
  BY DEF IInv, RequestsOK

-----------------------------------------------------------------------------
(* Reads and arrivals.                                                     *)

LEMMA RegisterKeeps ==
    ASSUME IInv, NEW r \in Reqs, NEW n \in Names, NEW e \in Emails, Register(r, n, e)
    PROVE  IInv'
<1>1. PICK q : q = [Idle EXCEPT !.pc = "email", !.name = n, !.email = e]
  OBVIOUS
<1>2. /\ q \in Request /\ q.pc = "email" /\ q.name = n /\ q.email = e
      /\ q.user = None /\ q.heir = None /\ q.own = {}
  BY <1>1, IdleFields DEF Request
<1>3. req' = [req EXCEPT ![r] = q]
  BY <1>1 DEF Register
<1>4. req'[r] = q
  BY <1>3 DEF IInv, RequestsOK
<1>5. AccountPart(req[r])' /\ DocumentPart(req[r])'
  BY <1>2, <1>4 DEF AccountPart, DocumentPart, Deleting, Heired
<1>6. Outcome(r)
  BY <1>2, <1>3, <1>5 DEF Outcome, Others, IInv, RequestsOK
<1> QED BY <1>6, ReadStep DEF Register

LEMMA CheckEmailKeeps == ASSUME IInv, NEW r \in Reqs, CheckEmail(r) PROVE IInv'
<1>1. CASE EmailTaken(req[r].email)
  BY <1>1, Finishes, ReadStep DEF CheckEmail, IInv
<1>2. CASE ~EmailTaken(req[r].email)
  <2>1. Goes(r, "name")
    BY <1>2, Moves DEF CheckEmail, IInv
  <2>2. AccountPart(req[r])'
    BY <1>2, <2>1, Known DEF AccountPart, Goes, CheckEmail, At, EmailTaken, Exists, Named,
                             Deleting, Heired
  <2>3. DocumentPart(req[r])'
    BY <2>1 DEF DocumentPart, Goes
  <2> QED BY <2>1, <2>2, <2>3, ReadStep DEF Outcome, Goes, CheckEmail
<1> QED BY <1>1, <1>2

LEMMA CheckNameKeeps == ASSUME IInv, NEW r \in Reqs, CheckName(r) PROVE IInv'
<1>1. CASE Named(req[r].name) # {}
  BY <1>1, Finishes, ReadStep DEF CheckName, IInv
<1>2. CASE Named(req[r].name) = {}
  <2>1. Goes(r, "create")
    BY <1>2, Moves DEF CheckName, IInv
  <2>2. AccountPart(req[r])'
    BY <2>1, Known DEF AccountPart, Goes, CheckName, At, Exists, Named, Deleting, Heired
  <2>3. DocumentPart(req[r])'
    BY <2>1 DEF DocumentPart, Goes
  <2> QED BY <2>1, <2>2, <2>3, ReadStep DEF Outcome, Goes, CheckName
<1> QED BY <1>1, <1>2

LEMMA WriteKeeps ==
    ASSUME IInv, NEW r \in Reqs, NEW doc \in Document, Write(r, doc) PROVE IInv'
<1>1. PICK pc \in {"insert", "target"} : pc = IF doc.to = None THEN "insert" ELSE "target"
  OBVIOUS
<1>2. PICK q : q = [Idle EXCEPT !.doc = doc, !.pc = pc]
  OBVIOUS
<1>3. /\ q \in Request /\ q.pc = pc /\ q.doc = doc
      /\ q.user = None /\ q.heir = None /\ q.own = {}
  BY <1>2, IdleFields DEF Request
<1>4. req' = [req EXCEPT ![r] = q]
  BY <1>1, <1>2 DEF Write
<1>5. req'[r] = q
  BY <1>4 DEF IInv, RequestsOK
<1>6. WellFormed(doc)
  BY DEF Write, WellFormed
<1>7. AccountPart(req[r])' /\ DocumentPart(req[r])'
  BY <1>3, <1>5, <1>6 DEF AccountPart, DocumentPart, Deleting, Heired
<1>8. Outcome(r)
  BY <1>3, <1>4, <1>7 DEF Outcome, Others, IInv, RequestsOK
<1> QED BY <1>8, ReadStep DEF Write

LEMMA FindTargetKeeps == ASSUME IInv, NEW r \in Reqs, FindTarget(r) PROVE IInv'
<1>1. CASE ~Exists(req[r].doc.to)
  BY <1>1, Finishes, ReadStep DEF FindTarget, IInv
<1>2. CASE Exists(req[r].doc.to)
  <2>1. Goes(r, "insert")
    BY <1>2, Moves DEF FindTarget, IInv
  <2>2. AccountPart(req[r])'
    BY <2>1, Known DEF AccountPart, Goes, FindTarget, Exists, Named, Deleting, Heired
  <2>3. DocumentPart(req[r])'
    BY <2>1, Known DEF DocumentPart, Goes, FindTarget, At
  <2> QED BY <2>1, <2>2, <2>3, ReadStep DEF Outcome, Goes, FindTarget
<1> QED BY <1>1, <1>2

LEMMA DeleteKeeps == ASSUME IInv, NEW r \in Reqs, NEW u \in Uids, Delete(r, u) PROVE IInv'
<1>1. PICK own \in SUBSET Docs : own = {d \in Docs : Concerns(d, u)}
  OBVIOUS
<1>2. PICK q : q = [Idle EXCEPT !.pc = "find", !.user = u, !.own = own]
  OBVIOUS
<1>3. q \in Request /\ q.pc = "find" /\ q.user = u /\ q.heir = None
  BY <1>2, IdleFields DEF Request
<1>4. req' = [req EXCEPT ![r] = q]
  BY <1>1, <1>2 DEF Delete
<1>5. req'[r] = q
  BY <1>4 DEF IInv, RequestsOK
<1>6. AccountPart(req[r])' /\ DocumentPart(req[r])'
  BY <1>3, <1>5 DEF AccountPart, DocumentPart, Deleting, Heired, Delete, Exists
<1>7. Outcome(r)
  BY <1>3, <1>4, <1>6 DEF Outcome, Others, IInv, RequestsOK
<1> QED BY <1>7, ReadStep DEF Delete

LEMMA FindUserKeeps == ASSUME IInv, NEW r \in Reqs, FindUser(r) PROVE IInv'
<1>1. CASE ~Exists(req[r].user)
  BY <1>1, Finishes, ReadStep DEF FindUser, IInv
<1>2. CASE Exists(req[r].user)
  <2>1. Goes(r, "placeholder")
    BY <1>2, Moves DEF FindUser, IInv
  <2>2. AccountPart(req[r])'
    BY <2>1, Known DEF AccountPart, Goes, FindUser, At, Exists, Named, Deleting, Heired
  <2>3. DocumentPart(req[r])'
    BY <2>1 DEF DocumentPart, Goes
  <2> QED BY <2>1, <2>2, <2>3, ReadStep DEF Outcome, Goes, FindUser
<1> QED BY <1>1, <1>2

\* The request takes h as its heir.
Inherits(r, h) == /\ req' \in [Reqs -> Request] /\ Others(r)
                  /\ req'[r].pc = "posts" /\ req'[r].heir = h /\ req'[r].user = req[r].user

LEMMA TakesHeir ==
    ASSUME RequestsOK, NEW r \in Reqs, NEW h \in Uids,
           req' = [req EXCEPT ![r].heir = h, ![r].pc = "posts"]
    PROVE  Inherits(r, h)
<1>1. PICK q : q = [req[r] EXCEPT !.heir = h, !.pc = "posts"]
  OBVIOUS
<1>2. q \in Request /\ q.pc = "posts" /\ q.heir = h /\ q.user = req[r].user
  BY ZenonT(60), <1>1 DEF Request, RequestsOK
<1>3. req' = [req EXCEPT ![r] = q]
  BY <1>1 DEF RequestsOK, Request
<1> QED BY <1>2, <1>3 DEF Inherits, Others, RequestsOK

LEMMA FindPlaceholderKeeps == ASSUME IInv, NEW r \in Reqs, FindPlaceholder(r) PROVE IInv'
<1>1. ASSUME NEW h \in Named(Deleted), req' = [req EXCEPT ![r].heir = h, ![r].pc = "posts"]
      PROVE  IInv'
  <2>1. h \in Uids /\ Named(Deleted) = {h}
    BY DEF Named, IInv, AccountsOK
  <2>2. Inherits(r, h)
    BY <1>1, <2>1, TakesHeir DEF IInv
  <2>3. AccountPart(req[r])'
    BY <2>1, <2>2, Known DEF AccountPart, Inherits, FindPlaceholder, At, Exists, Named,
                             Deleting, Heired
  <2>4. DocumentPart(req[r])'
    BY <2>2 DEF DocumentPart, Inherits
  <2> QED BY <2>2, <2>3, <2>4, ReadStep DEF Outcome, Inherits, FindPlaceholder
<1>2. CASE Goto(r, "race")
  <2>1. Goes(r, "race")
    BY <1>2, Moves DEF IInv
  <2>2. AccountPart(req[r])'
    BY <2>1, Known DEF AccountPart, Goes, FindPlaceholder, At, Exists, Named, Deleting, Heired
  <2>3. DocumentPart(req[r])'
    BY <2>1 DEF DocumentPart, Goes
  <2> QED BY <2>1, <2>2, <2>3, ReadStep DEF Outcome, Goes, FindPlaceholder
<1> QED BY <1>1, <1>2 DEF FindPlaceholder

-----------------------------------------------------------------------------
(* New accounts.                                                           *)

\* The account u appears; all others stay.
Adds(u, account) == /\ u \in Uids /\ ~Exists(u) /\ u \notin gone /\ account \in User
                    /\ users' \in [Uids -> User \cup {None}] /\ users'[u] = account
                    /\ \A v \in Uids \ {u} : users'[v] = users[v]
                    /\ UNCHANGED <<gone, docs>>

LEMMA Added ==
    ASSUME IInv, NEW u \in FreshIds, NEW account \in User, UNCHANGED <<gone, docs>>,
           users' = [users EXCEPT ![u] = account]
    PROVE  Adds(u, account) /\ Exists(u)' /\ \A v \in Uids \ {u} : Exists(v)' = Exists(v)
  BY RecordAssumption DEF Adds, FreshIds, Exists, IInv, AccountsOK

\* A name that is not the placeholder's leaves it as it is.
LEMMA NamedKept ==
    ASSUME IInv, NEW u, NEW account, Adds(u, account), account.name # Deleted
    PROVE  Named(Deleted)' = Named(Deleted)
  BY RecordAssumption DEF Adds, Named, Exists

LEMMA CreateUserKeeps == ASSUME IInv, NEW r \in Reqs, CreateUser(r) PROVE IInv'
<1>1. CASE ~AcceptsUser(req[r].name)
  BY <1>1, Finishes, ReadStep DEF CreateUser, IInv
<1>2. CASE AcceptsUser(req[r].name)
  <2>1. PICK u \in FreshIds :
          /\ users' = [users EXCEPT ![u] = [name |-> req[r].name, email |-> req[r].email]]
          /\ rivals' = [rivals EXCEPT ![u] = req[r].rivals]
          /\ req' = [q \in Reqs |-> IF q = r THEN Idle
                                    ELSE IF Inserting(q) THEN [req[q] EXCEPT !.rivals = @ \cup {u}]
                                    ELSE req[q]]
    BY <1>2 DEF CreateUser
  <2>2. PICK account : account = [name |-> req[r].name, email |-> req[r].email]
    OBVIOUS
  <2>3. /\ account \in User /\ account.name # Deleted /\ account.email = req[r].email
        /\ \A v \in Uids : /\ Exists(v) /\ users[v].email = req[r].email
                            /\ users[v].name # Deleted
                           => v \in req[r].rivals
        /\ req[r].rivals \in SUBSET Uids
    BY <2>2, Known, NameAssumption DEF CreateUser, At, AccountPart, User, Request
  <2>4. UNCHANGED <<gone, docs>> /\ users' = [users EXCEPT ![u] = account]
    BY <2>1, <2>2 DEF CreateUser
  <2>5. Adds(u, account) /\ Exists(u)' /\ \A v \in Uids \ {u} : Exists(v)' = Exists(v)
    BY <2>3, <2>4, Added
  <2>6. Named(Deleted)' = Named(Deleted)
    BY <2>3, <2>5, NamedKept
  <2>7. EmailRace'
    <3> SUFFICES ASSUME NEW v \in Uids, NEW w \in Uids, v # w, Exists(v)', Exists(w)',
                        users'[v].email = users'[w].email,
                        users'[v].name # Deleted, users'[w].name # Deleted
                 PROVE  v \in rivals'[w] \/ w \in rivals'[v]
      BY DEF EmailRace, Exists
    <3>1. CASE w = u
      BY <2>1, <2>3, <2>5, <3>1 DEF Adds, IInv, AccountsOK
    <3>2. CASE v = u
      BY <2>1, <2>3, <2>5, <3>2 DEF Adds, IInv, AccountsOK
    <3>3. CASE v # u /\ w # u
      BY <2>1, <2>5, <3>3 DEF Adds, IInv, AccountsOK, EmailRace
    <3> QED BY <3>1, <3>2, <3>3
  <2>8. AccountsOK'
    BY <2>1, <2>3, <2>5, <2>6, <2>7 DEF AccountsOK, Adds, IInv, FreshIds
  <2>9. DocumentsOK'
    BY <2>4 DEF IInv, DocumentsOK
  <2>10. ASSUME NEW p \in Reqs
         PROVE  req'[p] \in Request /\ AccountPart(req[p])' /\ DocumentPart(req[p])'
    <3>1. CASE p = r
      BY <2>1, <3>1, IdleFields DEF AccountPart, DocumentPart, Deleting, Heired
    <3>2. CASE p # r
      <4>1. PICK S \in SUBSET Uids : /\ S = IF Inserting(p) THEN req[p].rivals \cup {u}
                                                              ELSE req[p].rivals
        BY <2>5, Known DEF Adds, Request
      <4>2. req'[p] = [req[p] EXCEPT !.rivals = S]
        BY <2>1, <3>2, <4>1, Known DEF Request
      <4>3. PICK q : q = req'[p]
        OBVIOUS
      <4>4. /\ q \in Request /\ q.pc = req[p].pc /\ q.user = req[p].user
            /\ q.heir = req[p].heir /\ q.name = req[p].name /\ q.email = req[p].email
            /\ q.doc = req[p].doc /\ q.own = req[p].own /\ q.rivals = S
        BY <4>2, <4>3, Known DEF Request
      <4>5. DocumentPart(req[p])'
        BY <2>4, <4>3, <4>4, Known DEF DocumentPart, Of, KeyTaken
      <4>6. q.user # None => q.user \in gone' \/ (Exists(q.user)' /\ users'[q.user].name # Deleted)
        BY <2>5, <4>4, Known DEF AccountPart, Adds, Request
      <4>7. q.pc \in {"name", "create"} =>
              \A v \in Uids : /\ Exists(v)' /\ users'[v].email = q.email
                              /\ users'[v].name # Deleted
                             => v \in q.rivals
        <5>1. q.pc \in {"name", "create"} => u \in q.rivals /\ req[p].rivals \subseteq q.rivals
          BY <4>1, <4>4 DEF Inserting, At
        <5> QED BY <2>5, <4>4, <5>1, Known DEF AccountPart, Adds
      <4>8. AccountPart(req[p])'
        BY <2>6, <4>3, <4>4, <4>6, <4>7, Known DEF AccountPart
      <4> QED BY <4>3, <4>4, <4>5, <4>8
    <3> QED BY <3>1, <3>2
  <2>11. RequestsOK'
    <3>1. req' \in [Reqs -> Request]
      BY <2>1, <2>10
    <3> QED BY <2>10, <3>1 DEF RequestsOK
  <2> QED BY <2>8, <2>9, <2>11 DEF IInv
<1> QED BY <1>1, <1>2

LEMMA CreatePlaceholderKeeps ==
    ASSUME IInv, NEW r \in Reqs, CreatePlaceholder(r) PROVE IInv'
<1>1. CASE ~AcceptsUser(Deleted)
  <2>1. Goes(r, "placeholder")
    BY <1>1, Moves DEF CreatePlaceholder, IInv
  <2>2. AccountPart(req[r])'
    BY <1>1, <2>1, Known DEF AccountPart, Goes, CreatePlaceholder, At, Exists, Named,
                             Deleting, Heired
  <2>3. DocumentPart(req[r])'
    BY <2>1 DEF DocumentPart, Goes
  <2> QED BY <1>1, <2>1, <2>2, <2>3, ReadStep DEF Outcome, Goes, CreatePlaceholder
<1>2. CASE AcceptsUser(Deleted)
  <2>1. PICK h \in FreshIds :
          /\ users' = [users EXCEPT ![h] = [name |-> Deleted, email |-> Deleted]]
          /\ req' = [req EXCEPT ![r].heir = h, ![r].pc = "posts"]
    BY <1>2 DEF CreatePlaceholder
  <2>2. PICK account : account = [name |-> Deleted, email |-> Deleted]
    OBVIOUS
  <2>3. account \in User /\ account.name = Deleted
    BY <2>2 DEF User
  <2>4. UNCHANGED <<gone, docs, rivals>> /\ users' = [users EXCEPT ![h] = account]
    BY <2>1, <2>2 DEF CreatePlaceholder
  <2>5. Adds(h, account) /\ Exists(h)' /\ \A v \in Uids \ {h} : Exists(v)' = Exists(v)
    BY <2>3, <2>4, Added
  <2>6. Named(Deleted) = {} /\ Named(Deleted)' = {h}
    BY <1>2, <2>3, <2>5 DEF AcceptsUser, Named, Adds
  <2>7. Inherits(r, h)
    BY <2>1, <2>5, TakesHeir DEF IInv, Adds
  <2>8. EmailRace'
    BY <2>3, <2>4, <2>5 DEF EmailRace, Adds, IInv, AccountsOK
  <2>9. AccountsOK'
    BY <2>4, <2>5, <2>6, <2>8 DEF AccountsOK, Adds, IInv
  <2>10. DocumentsOK'
    BY <2>4 DEF IInv, DocumentsOK
  <2>11. ASSUME NEW p \in Reqs PROVE AccountPart(req[p])' /\ DocumentPart(req[p])'
    <3>1. CASE p = r
      <4>1. DocumentPart(req[p])'
        BY <2>7, <3>1 DEF DocumentPart, Inherits
      <4>2. AccountPart(req[p])'
        BY <2>5, <2>6, <2>7, <3>1, Known DEF AccountPart, Inherits, Adds, CreatePlaceholder, At,
                                           Deleting, Heired
      <4> QED BY <4>1, <4>2
    <3>2. CASE p # r
      <4>1. req'[p] = req[p]
        BY <2>7, <3>2 DEF Inherits, Others
      <4>2. DocumentPart(req[p])'
        BY <2>4, <4>1, Known DEF DocumentPart, Of, KeyTaken
      <4>3. PICK q \in Request : q = req[p] /\ AccountPart(q)
        BY Known
      <4>4. q.heir = None
        BY <2>6, <4>3 DEF AccountPart
      <4>5. q.user # None => q.user \in gone' \/ (Exists(q.user)' /\ users'[q.user].name # Deleted)
        BY <2>5, <4>3 DEF AccountPart, Adds, Request
      <4>6. \A v \in Uids : Exists(v)' /\ users'[v].name # Deleted =>
                Exists(v) /\ users'[v] = users[v]
        BY <2>3, <2>5 DEF Adds
      <4>7. AccountPart(q)'
        BY <4>3, <4>4, <4>5, <4>6 DEF AccountPart
      <4>8. AccountPart(req[p])'
        BY <4>1, <4>3, <4>7 DEF AccountPart
      <4> QED BY <4>2, <4>8
    <3> QED BY <3>1, <3>2
  <2> QED BY <2>7, <2>9, <2>10, <2>11 DEF IInv, RequestsOK, Inherits
<1> QED BY <1>1, <1>2

LEMMA EraseKeeps == ASSUME IInv, NEW r \in Reqs, Erase(r) PROVE IInv'
<1>0. req[r].user \in Uids /\ req[r].user # None
  BY Known, NameAssumption DEF Erase, At, AccountPart, Deleting, Heired
<1> PICK u \in Uids : u = req[r].user
  BY <1>0
<1>1. u \in gone \/ (Exists(u) /\ users[u].name # Deleted)
  BY <1>0, Known DEF AccountPart
<1>2. /\ users' = [users EXCEPT ![u] = None] /\ gone' = gone \cup {u}
      /\ Finish(r) /\ UNCHANGED <<docs, rivals>>
  BY DEF Erase
<1>3. Outcome(r)
  BY <1>2, Finishes DEF IInv
<1>4. ~Exists(u)' /\ \A v \in Uids \ {u} : users'[v] = users[v] /\ Exists(v)' = Exists(v)
  BY <1>1, <1>2 DEF Exists, IInv, AccountsOK
<1>5. Named(Deleted)' = Named(Deleted)
  BY <1>1, <1>4 DEF Named, IInv, AccountsOK
<1>6. EmailRace'
  BY <1>2, <1>4 DEF EmailRace, IInv, AccountsOK
<1>7. AccountsOK'
  BY <1>1, <1>2, <1>4, <1>5, <1>6 DEF AccountsOK, IInv
<1>8. DocumentsOK'
  BY <1>2 DEF IInv, DocumentsOK
<1>9. ASSUME NEW p \in Reqs PROVE AccountPart(req[p])' /\ DocumentPart(req[p])'
  <2>1. CASE p = r
    BY <1>3, <2>1 DEF Outcome
  <2>2. CASE p # r
    <3>1. req'[p] = req[p]
      BY <1>3, <2>2 DEF Outcome, Others
    <3>2. DocumentPart(req[p])'
      BY <1>2, <3>1, Known DEF DocumentPart, Of, KeyTaken
    <3>3. PICK q \in Request : q = req[p] /\ AccountPart(q)
      BY Known
    <3>4. AccountPart(q)'
      <4>1. q.user # None => q.user \in gone' \/ (Exists(q.user)' /\ users'[q.user].name # Deleted)
        BY <1>2, <1>4, <3>3 DEF AccountPart, Request
      <4>2. \A v \in Uids : Exists(v)' => Exists(v) /\ users'[v] = users[v]
        BY <1>4
      <4> QED BY <1>5, <3>3, <4>1, <4>2 DEF AccountPart
    <3>5. AccountPart(req[p])'
      BY <3>1, <3>3, <3>4 DEF AccountPart
    <3> QED BY <3>2, <3>5
  <2> QED BY <2>1, <2>2
<1> QED BY <1>3, <1>7, <1>8, <1>9 DEF IInv, RequestsOK, Outcome

LEMMA FailKeeps == ASSUME IInv, NEW r \in Reqs, Fail(r) PROVE IInv'
  BY Finishes, ReadStep DEF Fail, IInv

-----------------------------------------------------------------------------
(* Documents.                                                              *)

\* Documents are at most removed or attributed to the heir h.  No comment is
\* removed, and none changes its author whose key the heir has.
DocumentsMove(h) ==
    /\ docs' \in [Docs -> Document \cup {None}]
    /\ \A d \in Docs :
          /\ docs[d] = None => docs'[d] = None
          /\ docs'[d] # None =>
                /\ docs'[d].kind = docs[d].kind /\ docs'[d].to = docs[d].to
                /\ docs'[d].key = docs[d].key /\ docs'[d].by \in {docs[d].by, h}
          /\ docs[d] # None /\ docs[d].kind = "comment" =>
                /\ docs'[d] # None
                /\ KeyTaken(h, docs[d].key) => docs'[d].by = docs[d].by

\* A deletion that has not reached its heir, or has the same one, stays in order.
LEMMA PartKept ==
    ASSUME IInv, NEW h \in Uids, DocumentsMove(h), NEW q \in Request, q.user # h,
           q.heir \in {None, h}, q.pc \in Heired => q.heir = h, DocumentPart(q)
    PROVE  DocumentPart(q)'
<1> USE DEF DocumentsMove
<1>1. ASSUME NEW d \in q.own, docs'[d] # None
      PROVE  /\ docs[d] # None
             /\ docs'[d].kind = docs[d].kind /\ docs'[d].to = docs[d].to
             /\ docs'[d].by = q.user => docs[d].by = q.user
  BY <1>1 DEF Request
<1>2. ASSUME q.pc = "error"
      PROVE  \E d \in Of("comment", q.user)' : KeyTaken(q.heir, docs[d].key)'
  <2>1. q.heir = h
    BY <1>2 DEF Heired
  <2>2. PICK d \in Of("comment", q.user) : KeyTaken(h, docs[d].key)
    BY <1>2, <2>1 DEF DocumentPart
  <2>3. d \in Docs /\ docs[d] # None /\ docs[d].kind = "comment" /\ docs[d].by = q.user
    BY <2>2 DEF Of
  <2>4. d \in Of("comment", q.user)' /\ docs'[d].key = docs[d].key
    BY <2>2, <2>3 DEF Of
  <2>5. PICK e \in Docs : /\ docs[e] # None /\ docs[e].kind = "comment"
                          /\ docs[d].key # None /\ docs[e].by = h /\ docs[e].key = docs[d].key
    BY <2>2 DEF KeyTaken
  <2>6. /\ docs'[e] # None /\ docs'[e].kind = "comment"
        /\ docs'[e].by = h /\ docs'[e].key = docs[d].key
    BY <2>5
  <2>7. KeyTaken(h, docs[d].key)'
    BY <2>4, <2>5, <2>6 DEF KeyTaken
  <2> QED BY <2>1, <2>4, <2>7
<1>3. q.pc \in {"target", "insert"} => q.doc \in Document /\ WellFormed(q.doc)
  BY DEF DocumentPart
<1> QED BY <1>1, <1>2, <1>3 DEF DocumentPart

LEMMA DocumentStep ==
    ASSUME IInv, NEW r \in Reqs, NEW h \in Uids, Named(Deleted) = {h}, DocumentsMove(h),
           UNCHANGED <<users, gone, rivals>>, Outcome(r)
    PROVE  IInv'
<1>1. AccountsOK'
  BY DEF IInv, AccountsOK, EmailRace, Exists, Named
<1>2. DocumentsOK'
  BY DEF IInv, DocumentsOK, DocumentsMove, WellFormed
<1>3. ASSUME NEW p \in Reqs PROVE AccountPart(req[p])' /\ DocumentPart(req[p])'
  <2>1. CASE p = r
    BY <2>1 DEF Outcome
  <2>2. CASE p # r
    <3>1. PICK q \in Request : q = req[p]
      BY Known
    <3>2. req'[p] = q
      BY <2>2, <3>1 DEF Outcome, Others
    <3>3. AccountPart(q) /\ DocumentPart(q)
      BY <3>1, Known
    <3>4. AccountPart(req[p])'
      BY <3>2, <3>3 DEF AccountPart, Exists, Named
    <3>5. h \notin gone /\ users[h].name = Deleted
      BY DEF Named, IInv, AccountsOK
    <3>6. q.user # h
      BY <3>3, <3>5, NameAssumption DEF AccountPart
    <3>7. q.heir \in {None, h} /\ (q.pc \in Heired => q.heir = h)
      BY <3>3, NameAssumption DEF AccountPart
    <3>8. DocumentPart(q)'
      BY <3>3, <3>6, <3>7, PartKept
    <3>9. DocumentPart(req[p])'
      BY <3>2, <3>8 DEF DocumentPart
    <3> QED BY <3>4, <3>9
  <2> QED BY <2>1, <2>2
<1> QED BY <1>1, <1>2, <1>3 DEF IInv, RequestsOK, Outcome

\* A deletion past its heir, about to act on documents.
LEMMA Inheriting ==
    ASSUME IInv, NEW r \in Reqs, req[r].pc \in Heired
    PROVE  /\ req[r].heir \in Uids /\ req[r].user \in Uids /\ Named(Deleted) = {req[r].heir}
           /\ req[r].user # req[r].heir /\ req[r].own \in SUBSET Docs
<1>1. req[r].heir \in Uids /\ req[r].user \in Uids /\ Named(Deleted) = {req[r].heir}
  BY Known, NameAssumption DEF AccountPart, Deleting
<1>2. req[r].heir \notin gone /\ users[req[r].heir].name = Deleted
  BY <1>1 DEF Named, IInv, AccountsOK
<1>3. req[r].user # req[r].heir
  BY <1>1, <1>2, Known, NameAssumption DEF AccountPart
<1> QED BY <1>1, <1>3, Known DEF Request

\* Its request goes on to another of its steps.
LEMMA GoesOn ==
    ASSUME IInv, NEW r \in Reqs, NEW pc \in Heired, Goes(r, pc), req[r].pc \in Heired,
           UNCHANGED <<users, gone, rivals>>
    PROVE  AccountPart(req[r])'
<1>1. pc \notin {"email", "name", "create"}
  BY DEF Heired
<1> QED BY <1>1, Known DEF AccountPart, Goes, Exists, Named, Deleting

\* Attributing documents that no key of the heir's forbids.
LEMMA Reassigning ==
    ASSUME IInv, NEW h \in Uids, NEW S \in SUBSET Docs, docs' = Reassigned(S, h),
           \A d \in S : /\ docs[d] # None
                        /\ docs[d].kind = "comment" => ~KeyTaken(h, docs[d].key)
    PROVE  /\ DocumentsMove(h)
           /\ \A d \in S : docs'[d] \in Document /\ docs'[d].by = h
           /\ \A d \in Docs \ S : docs'[d] = docs[d]
<1>1. \A d \in Docs : docs[d] # None => docs[d] \in Document
  BY DEF IInv, DocumentsOK
<1>2. ASSUME NEW d \in S
      PROVE  /\ docs'[d] \in Document /\ docs'[d].by = h /\ docs'[d].kind = docs[d].kind
             /\ docs'[d].to = docs[d].to /\ docs'[d].key = docs[d].key
  <2>1. PICK doc : doc = [docs[d] EXCEPT !.by = h]
    OBVIOUS
  <2>2. docs'[d] = doc
    BY <2>1 DEF Reassigned
  <2> QED BY <1>1, <2>1, <2>2 DEF Document
<1>3. \A d \in Docs \ S : docs'[d] = docs[d]
  BY DEF Reassigned
<1>4. docs' \in [Docs -> Document \cup {None}]
  <2>1. ASSUME NEW d \in Docs PROVE docs'[d] \in Document \cup {None}
    BY <1>1, <1>2, <1>3
  <2>2. docs' = [d \in Docs |-> docs'[d]]
    BY DEF Reassigned
  <2> QED BY <2>1, <2>2
<1> QED BY <1>2, <1>3, <1>4, RecordAssumption DEF DocumentsMove

LEMMA Removing ==
    ASSUME IInv, NEW h \in Uids, NEW S \in SUBSET Docs, docs' = Removed(S),
           \A d \in S : docs[d] # None /\ docs[d].kind # "comment"
    PROVE  /\ DocumentsMove(h)
           /\ \A d \in S : docs'[d] = None
           /\ \A d \in Docs \ S : docs'[d] = docs[d]
<1>1. /\ \A d \in S : docs'[d] = None
      /\ \A d \in Docs \ S : docs'[d] = docs[d]
      /\ docs' \in [Docs -> Document \cup {None}]
  BY DEF Removed, IInv, DocumentsOK
<1> QED BY <1>1 DEF DocumentsMove

LEMMA ReassignPostsKeeps == ASSUME IInv, NEW r \in Reqs, ReassignPosts(r) PROVE IInv'
<1> DEFINE u == req[r].user
           h == req[r].heir
           S == Of("post", u)
<1>1. req[r].pc = "posts" /\ "posts" \in Heired /\ "comments" \in Heired
  BY DEF ReassignPosts, At, Heired
<1>2. h \in Uids /\ u # h /\ Named(Deleted) = {h} /\ req[r].own \in SUBSET Docs
  BY <1>1, Inheriting
<1>3. docs' = Reassigned(S, h) /\ S \in SUBSET Docs
  BY DEF ReassignPosts, Of
<1>4. /\ DocumentsMove(h) /\ \A d \in S : docs'[d].by = h
      /\ \A d \in Docs \ S : docs'[d] = docs[d]
  <2>1. \A d \in S : docs[d] # None /\ docs[d].kind = "post"
    BY DEF Of
  <2> HIDE DEF S, h
  <2> QED BY <1>2, <1>3, <2>1, Reassigning
<1>5. Goes(r, "comments") /\ UNCHANGED <<users, gone, rivals>>
  BY <1>1, Moves DEF ReassignPosts, IInv
<1>6. DocumentPart(req[r])'
  <2>1. ASSUME NEW d \in req[r].own, docs'[d] # None, docs'[d].kind = "post" PROVE docs'[d].by # u
    BY <1>2, <1>4, <2>1 DEF Of
  <2> QED BY <1>5, <2>1 DEF DocumentPart, Goes
<1>7. AccountPart(req[r])'
  BY <1>1, <1>5, GoesOn
<1> QED BY <1>2, <1>4, <1>5, <1>6, <1>7, DocumentStep DEF Outcome, Goes

LEMMA ReassignCommentsKeeps == ASSUME IInv, NEW r \in Reqs, ReassignComments(r) PROVE IInv'
<1> DEFINE u == req[r].user
           h == req[r].heir
           own == Of("comment", u)
           clash == {d \in own : KeyTaken(h, docs[d].key)}
<1>1. req[r].pc = "comments" /\ {"comments", "likes", "error"} \subseteq Heired
  BY DEF ReassignComments, At, Heired
<1>2. h \in Uids /\ u # h /\ Named(Deleted) = {h} /\ req[r].own \in SUBSET Docs
  BY <1>1, Inheriting
<1>3. \A d \in own : d \in Docs /\ docs[d] # None /\ docs[d].kind = "comment" /\ docs[d].by = u
  BY DEF Of
<1>4. PICK S \in SUBSET (own \ clash) : docs' = Reassigned(S, h) /\
            \/ clash = {} /\ S = own /\ Goto(r, "likes")
            \/ clash # {} /\ Goto(r, "error")
  BY DEF ReassignComments
<1>5. UNCHANGED <<users, gone, rivals>>
  BY DEF ReassignComments
<1>6. \A d \in S : docs[d] # None /\ (docs[d].kind = "comment" => ~KeyTaken(h, docs[d].key))
  BY <1>3, <1>4
<1>7. S \in SUBSET Docs
  BY <1>3, <1>4
<1>8. /\ DocumentsMove(h) /\ \A d \in S : docs'[d].by = h
      /\ \A d \in Docs \ S : docs'[d] = docs[d]
  <2> HIDE DEF h, own, clash
  <2> QED BY <1>2, <1>4, <1>6, <1>7, Reassigning
<1>9. CASE S = own /\ Goto(r, "likes")
  <2>1. Goes(r, "likes")
    BY <1>1, <1>9, Moves DEF IInv
  <2>2. DocumentPart(req[r])'
    <3>1. ASSUME NEW d \in req[r].own, docs'[d] # None
          PROVE  /\ ~(docs'[d].kind = "post" /\ docs'[d].by = u)
                 /\ ~(docs'[d].kind = "comment" /\ docs'[d].by = u)
      <4>1. docs[d] # None /\ docs'[d].kind = docs[d].kind /\ docs'[d].by \in {docs[d].by, h}
        BY <1>2, <1>8, <3>1 DEF DocumentsMove
      <4>2. ~(docs[d].kind = "post" /\ docs[d].by = u)
        BY <1>1, <4>1, Known DEF DocumentPart
      <4>3. docs[d].kind = "comment" /\ docs[d].by = u => d \in S
        BY <1>2, <1>9, <4>1 DEF Of
      <4> QED BY <1>2, <1>8, <4>1, <4>2, <4>3
    <3> QED BY <2>1, <3>1 DEF DocumentPart, Goes
  <2>3. AccountPart(req[r])'
    BY <1>1, <1>5, <2>1, GoesOn
  <2> QED BY <1>2, <1>5, <1>8, <2>1, <2>2, <2>3, DocumentStep DEF Outcome, Goes
<1>10. CASE clash # {} /\ Goto(r, "error")
  <2>1. Goes(r, "error")
    BY <1>1, <1>10, Moves DEF IInv
  <2>2. PICK d : d \in clash
    BY <1>10
  <2>3. /\ d \in Docs /\ docs[d] # None /\ docs[d].kind = "comment" /\ docs[d].by = u
        /\ KeyTaken(h, docs[d].key)
    BY <1>3, <2>2
  <2>4. /\ docs'[d] # None /\ docs'[d].kind = "comment" /\ docs'[d].by = u
        /\ docs'[d].key = docs[d].key
    BY <1>8, <2>3 DEF DocumentsMove
  <2>5. KeyTaken(h, docs[d].key)'
    <3>1. PICK e \in Docs : /\ docs[e] # None /\ docs[e].kind = "comment"
                            /\ docs[d].key # None /\ docs[e].by = h /\ docs[e].key = docs[d].key
      BY <2>3 DEF KeyTaken
    <3>2. /\ docs'[e] # None /\ docs'[e].kind = "comment"
          /\ docs'[e].by = h /\ docs'[e].key = docs[d].key
      BY <1>8, <3>1 DEF DocumentsMove
    <3> QED BY <1>5, <2>1, <2>4, <3>1, <3>2 DEF KeyTaken, Goes
  <2>6. DocumentPart(req[r])'
    <3>1. d \in Of("comment", u)'
      BY <2>1, <2>3, <2>4 DEF Of, Goes
    <3> QED BY <2>1, <2>5, <3>1 DEF DocumentPart, Goes
  <2>7. AccountPart(req[r])'
    BY <1>1, <1>5, <2>1, GoesOn
  <2> QED BY <1>2, <1>5, <1>8, <2>1, <2>6, <2>7, DocumentStep DEF Outcome, Goes
<1> QED BY <1>4, <1>9, <1>10

LEMMA RemoveLikesKeeps == ASSUME IInv, NEW r \in Reqs, RemoveLikes(r) PROVE IInv'
<1> DEFINE u == req[r].user
           h == req[r].heir
           S == Of("like", u)
<1>1. req[r].pc = "likes" /\ {"likes", "follows"} \subseteq Heired
  BY DEF RemoveLikes, At, Heired
<1>2. h \in Uids /\ u # h /\ Named(Deleted) = {h} /\ req[r].own \in SUBSET Docs
  BY <1>1, Inheriting
<1>3. docs' = Removed(S) /\ S \in SUBSET Docs
  BY DEF RemoveLikes, Of
<1>4. /\ DocumentsMove(h) /\ \A d \in S : docs'[d] = None
      /\ \A d \in Docs \ S : docs'[d] = docs[d]
  <2>1. \A d \in S : docs[d] # None /\ docs[d].kind # "comment"
    BY DEF Of
  <2> HIDE DEF S, h
  <2> QED BY <1>2, <1>3, <2>1, Removing
<1>5. Goes(r, "follows") /\ UNCHANGED <<users, gone, rivals>>
  BY <1>1, Moves DEF RemoveLikes, IInv
<1>6. DocumentPart(req[r])'
  <2>1. ASSUME NEW d \in req[r].own, docs'[d] # None
        PROVE  /\ docs'[d] = docs[d] /\ docs[d] # None
               /\ ~(docs[d].kind = "like" /\ docs[d].by = u)
    BY <1>2, <1>4, <2>1 DEF Of
  <2> QED BY <1>1, <1>5, <2>1, Known DEF DocumentPart, Goes
<1>7. AccountPart(req[r])'
  BY <1>1, <1>5, GoesOn
<1> QED BY <1>2, <1>4, <1>5, <1>6, <1>7, DocumentStep DEF Outcome, Goes

LEMMA RemoveFollowsKeeps == ASSUME IInv, NEW r \in Reqs, RemoveFollows(r) PROVE IInv'
<1> DEFINE u == req[r].user
           h == req[r].heir
           S == FollowsOf(u)
<1>1. req[r].pc = "follows" /\ {"follows", "erase"} \subseteq Heired
  BY DEF RemoveFollows, At, Heired
<1>2. h \in Uids /\ u # h /\ Named(Deleted) = {h} /\ req[r].own \in SUBSET Docs
  BY <1>1, Inheriting
<1>3. docs' = Removed(S) /\ S \in SUBSET Docs
  BY DEF RemoveFollows, FollowsOf
<1>4. /\ DocumentsMove(h) /\ \A d \in S : docs'[d] = None
      /\ \A d \in Docs \ S : docs'[d] = docs[d]
  <2>1. \A d \in S : docs[d] # None /\ docs[d].kind # "comment"
    BY DEF FollowsOf, Concerns
  <2> HIDE DEF S, h
  <2> QED BY <1>2, <1>3, <2>1, Removing
<1>5. Goes(r, "erase") /\ UNCHANGED <<users, gone, rivals>>
  BY <1>1, Moves DEF RemoveFollows, IInv
<1>6. DocumentPart(req[r])'
  <2>1. ASSUME NEW d \in req[r].own, docs'[d] # None
        PROVE  /\ docs'[d] = docs[d] /\ docs[d] # None
               /\ ~(docs[d].kind = "follow" /\ u \in {docs[d].by, docs[d].to})
    BY <1>2, <1>4, <2>1 DEF FollowsOf, Concerns
  <2> QED BY <1>1, <1>5, <2>1, Known DEF DocumentPart, Goes
<1>7. AccountPart(req[r])'
  BY <1>1, <1>5, GoesOn
<1> QED BY <1>2, <1>4, <1>5, <1>6, <1>7, DocumentStep DEF Outcome, Goes

LEMMA InsertKeeps == ASSUME IInv, NEW r \in Reqs, Insert(r) PROVE IInv'
<1>1. CASE Duplicate(req[r].doc)
  BY <1>1, Finishes, ReadStep DEF Insert, IInv
<1>2. CASE ~Duplicate(req[r].doc)
  <2>1. PICK d \in Docs :
          /\ docs[d] = None /\ docs' = [docs EXCEPT ![d] = req[r].doc]
          /\ req' = [q \in Reqs |-> IF q = r THEN Idle ELSE [req[q] EXCEPT !.own = @ \ {d}]]
    BY <1>2 DEF Insert
  <2>2. req[r].doc \in Document /\ WellFormed(req[r].doc) /\ UNCHANGED <<users, gone, rivals>>
    BY Known DEF Insert, At, DocumentPart
  <2>3. /\ docs' \in [Docs -> Document \cup {None}] /\ docs'[d] = req[r].doc
        /\ \A x \in Docs \ {d} : docs'[x] = docs[x]
    BY <2>1, <2>2 DEF IInv, DocumentsOK
  <2>4. AccountsOK'
    BY <2>2 DEF IInv, AccountsOK, EmailRace, Exists, Named
  <2>5. DocumentsOK'
    BY <2>2, <2>3 DEF IInv, DocumentsOK, WellFormed
  <2>6. ASSUME NEW p \in Reqs
        PROVE  req'[p] \in Request /\ AccountPart(req[p])' /\ DocumentPart(req[p])'
    <3>1. CASE p = r
      BY <2>1, <3>1, IdleFields DEF AccountPart, DocumentPart, Deleting, Heired
    <3>2. CASE p # r
      <4>1. PICK q : q = [req[p] EXCEPT !.own = @ \ {d}]
        OBVIOUS
      <4>2. req'[p] = q
        BY <2>1, <3>2, <4>1
      <4>3. /\ q \in Request /\ q.pc = req[p].pc /\ q.user = req[p].user
            /\ q.heir = req[p].heir /\ q.name = req[p].name /\ q.email = req[p].email
            /\ q.doc = req[p].doc /\ q.own = req[p].own \ {d} /\ q.rivals = req[p].rivals
        BY <4>1, Known DEF Request
      <4>4. AccountPart(req[p])'
        BY <2>2, <4>2, <4>3, Known DEF AccountPart, Exists, Named
      <4>5. \A x \in q.own : docs'[x] = docs[x] /\ x \in req[p].own
        BY <2>3, <4>3 DEF Request
      <4>6. ASSUME q.pc = "error"
            PROVE  \E x \in Of("comment", q.user)' : KeyTaken(q.heir, docs[x].key)'
        <5>1. PICK x \in Of("comment", q.user) : KeyTaken(q.heir, docs[x].key)
          BY <4>3, <4>6, Known DEF DocumentPart
        <5>2. /\ x \in Docs /\ x # d /\ docs'[x] = docs[x] /\ x \in Of("comment", q.user)'
          BY <2>1, <2>3, <5>1 DEF Of
        <5>3. PICK e \in Docs : /\ docs[e] # None /\ docs[e].kind = "comment"
                                /\ docs[x].key # None /\ docs[e].by = q.heir
                                /\ docs[e].key = docs[x].key
          BY <5>1 DEF KeyTaken
        <5>4. docs'[e] = docs[e]
          BY <2>1, <2>3, <5>3
        <5>5. KeyTaken(q.heir, docs[x].key)'
          BY <5>2, <5>3, <5>4 DEF KeyTaken
        <5> QED BY <5>2, <5>5
      <4>7. DocumentPart(q)'
        BY <4>3, <4>5, <4>6, Known DEF DocumentPart
      <4>8. DocumentPart(req[p])'
        BY <4>2, <4>7 DEF DocumentPart
      <4> QED BY <4>2, <4>3, <4>4, <4>8
    <3> QED BY <3>1, <3>2
  <2>7. RequestsOK'
    <3>1. req' \in [Reqs -> Request]
      BY <2>1, <2>6
    <3> QED BY <2>6, <3>1 DEF RequestsOK
  <2> QED BY <2>4, <2>5, <2>7 DEF IInv
<1> QED BY <1>1, <1>2

-----------------------------------------------------------------------------
(* The invariant holds.                                                    *)

LEMMA Initially == Init => IInv
<1> SUFFICES ASSUME Init PROVE IInv
  OBVIOUS
<1>1. PICK f \in [Registered -> Names], g \in [Registered -> Emails] :
        /\ \A u, v \in Registered : u # v => f[u] # f[v] /\ g[u] # g[v]
        /\ users = [u \in Uids |-> IF u \in Registered
                                   THEN [name |-> f[u], email |-> g[u]] ELSE None]
  BY DEF Init
<1>2. ASSUME NEW u \in Uids
      PROVE  \/ users[u] = None
             \/ /\ u \in Registered /\ users[u] \in User
                /\ users[u].name # Deleted /\ users[u].email = g[u]
  <2>1. CASE u \in Registered
    <3>1. users[u] = [name |-> f[u], email |-> g[u]] /\ f[u] \in Names /\ g[u] \in Emails
      BY <1>1, <2>1
    <3> QED BY <2>1, <3>1, NameAssumption DEF User
  <2>2. CASE u \notin Registered
    BY <1>1, <2>2
  <2> QED BY <2>1, <2>2
<1>3. Named(Deleted) = {}
  BY <1>2 DEF Named, Exists
<1>4. EmailRace
  BY <1>1, <1>2 DEF EmailRace, Exists
<1>5. users \in [Uids -> User \cup {None}]
  BY <1>1, <1>2
<1>6. AccountsOK
  BY <1>3, <1>4, <1>5 DEF AccountsOK, Init
<1>7. DocumentsOK
  BY DEF Init, DocumentsOK
<1>8. RequestsOK
  <2> SUFFICES ASSUME NEW r \in Reqs PROVE AccountPart(req[r]) /\ DocumentPart(req[r])
    BY IdleFields DEF RequestsOK, Init
  <2> QED BY IdleFields DEF Init, AccountPart, DocumentPart, Deleting, Heired
<1> QED BY <1>6, <1>7, <1>8 DEF IInv

LEMMA Stuttering == ASSUME IInv, UNCHANGED vars PROVE IInv'
<1>1. AccountsOK' /\ DocumentsOK'
  BY DEF vars, IInv, AccountsOK, DocumentsOK, EmailRace, Exists, Named
<1>2. ASSUME NEW p \in Reqs PROVE AccountPart(req[p])' /\ DocumentPart(req[p])'
  BY Known DEF vars, AccountPart, DocumentPart, Exists, Named, Of, KeyTaken
<1> QED BY <1>1, <1>2 DEF IInv, RequestsOK, vars

LEMMA NextInvariant == IInv /\ [Next]_vars => IInv'
<1> SUFFICES ASSUME IInv, [Next]_vars PROVE IInv'
  OBVIOUS
<1>1. ASSUME NEW r \in Reqs, Start(r) PROVE IInv'
  BY <1>1, RegisterKeeps, WriteKeeps, DeleteKeeps DEF Start
<1>2. ASSUME NEW r \in Reqs, Continue(r) PROVE IInv'
  BY <1>2, CheckEmailKeeps, CheckNameKeeps, CreateUserKeeps, FindTargetKeeps, InsertKeeps,
     FindUserKeeps, FindPlaceholderKeeps, CreatePlaceholderKeeps, ReassignPostsKeeps,
     ReassignCommentsKeeps, RemoveLikesKeeps, RemoveFollowsKeeps, EraseKeeps DEF Continue
<1>3. ASSUME NEW r \in Reqs, Fail(r) PROVE IInv'
  BY <1>3, FailKeeps
<1>4. CASE UNCHANGED vars
  BY <1>4, Stuttering
<1> QED BY <1>1, <1>2, <1>3, <1>4 DEF Next

LEMMA Invariant == Spec => []IInv
  BY Initially, NextInvariant, PTL DEF Spec

-----------------------------------------------------------------------------
(* The theorems.                                                           *)

LEMMA Consequences == IInv => TypeOK /\ OneHeir /\ Anonymised /\ DeletionCompletes /\ EmailRace
<1> SUFFICES ASSUME IInv
             PROVE  TypeOK /\ OneHeir /\ Anonymised /\ DeletionCompletes /\ EmailRace
  OBVIOUS
<1>1. TypeOK /\ EmailRace
  BY DEF IInv, AccountsOK, DocumentsOK, RequestsOK, TypeOK
<1>2. OneHeir
  BY DEF IInv, RequestsOK, AccountPart, OneHeir
<1>3. DeletionCompletes
  BY DEF IInv, RequestsOK, DocumentPart, DeletionCompletes, At
<1>4. Anonymised
  <2> SUFFICES ASSUME NEW r \in Reqs, At(r, "erase"), NEW d \in req[r].own, Concerns(d, req[r].user)
               PROVE  docs[d].kind = "notice"
    BY DEF Anonymised
  <2> USE DEF Concerns
  <2>1. /\ d \in Docs /\ docs[d] # None /\ docs[d] \in Document /\ WellFormed(docs[d])
        /\ req[r].user \in Uids /\ req[r].user # None
    BY Known, NameAssumption DEF Request, IInv, DocumentsOK, AccountPart, At, Deleting, Heired
  <2>2. docs[d].kind \in {"post", "comment", "like", "follow", "notice"}
    BY <2>1, KindAssumption DEF Document
  <2>3. /\ ~(docs[d].kind = "post" /\ docs[d].by = req[r].user)
        /\ ~(docs[d].kind = "comment" /\ docs[d].by = req[r].user)
        /\ ~(docs[d].kind = "like" /\ docs[d].by = req[r].user)
        /\ docs[d].kind # "follow"
    BY <2>1, Known DEF DocumentPart, At
  <2> QED BY <2>1, <2>2, <2>3 DEF WellFormed
<1> QED BY <1>1, <1>2, <1>3, <1>4

\* Accounts, documents and requests keep their types through every operation
\* (user.service.js, user.model.js).
THEOREM AccountsTyped == Spec => []TypeOK
  BY Invariant, Consequences, PTL

\* Every deletion past the lookup hands its documents to the one account named
\* "[deleted]", whoever made it (user.service.js:79-93).
THEOREM HeirUnique == Spec => []OneHeir
  BY Invariant, Consequences, PTL

\* When an account goes, nothing it had when its deletion began concerns it any
\* more, notifications apart (user.service.js:103-139).
THEOREM DeletionAnonymises == Spec => []Anonymised
  BY Invariant, Consequences, PTL

\* A deletion fails by itself only where a comment's key clashes with one of the
\* heir's (user.service.js:106).
THEOREM DeletionFailsOnlyOnKeys == Spec => []DeletionCompletes
  BY Invariant, Consequences, PTL

\* Two accounts share an email only if their registrations overlapped
\* (user.service.js:31).
THEOREM EmailsSharedByRaces == Spec => []EmailRace
  BY Invariant, Consequences, PTL
=============================================================================
