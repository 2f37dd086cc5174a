--------------------------- MODULE SessionsProofs ---------------------------
(***************************************************************************)
(* What Sessions guarantees for every number of users, sessions, tokens    *)
(* and requests, and for all time-to-live constants.                       *)
(***************************************************************************)
EXTENDS SessionsRefinement, TLAPS

-----------------------------------------------------------------------------
(* Type correctness.                                                       *)

\* What a request may hold depends on how far it has come: past the middleware
\* it has an access token, and everything but the timer acts for a user.
RequestOK(q) ==
    /\ q \in Request
    /\ q.pc \in {"marker", "account"} => q.op \in {"revoke", "logout", "delete"}
    /\ q.pc \in {"marker", "account", "blacklist"} => q.acc \in Access
    /\ q.op = "sweep" => q.pc \in {"revokeMany", "mark", "purge"}
    /\ q.pc = "revoke" => q.sid \in Sids
    /\ q.pc \in {"idle", "marker", "account"} \/ q.op = "sweep" \/ q.user \in Users

ReqsOK == req \in [Reqs -> Request] /\ \A r \in Reqs : RequestOK(req[r])

\* TypeOK but for the requests.
StoresOK ==
    /\ now \in Nat \ {0}
    /\ users \subseteq Users
    /\ docs \subseteq Sids
    /\ sess \in [Sids -> Session]
    /\ issued \subseteq Tokens
    /\ tok \in [Tokens -> Claims]
    /\ access \subseteq Access
    /\ marker \in [Sids -> Nat]
    /\ blacklist \subseteq Access
    /\ legacy \in [Users -> LegacyTokens \cup {None}]
    /\ lost \subseteq Sids
    /\ audited \subseteq Users

OwnersOK ==
    /\ \A t \in issued : tok[t].user \in Users
    /\ \A s \in docs : sess[s].user \in Users

TypeInv == StoresOK /\ OwnersOK /\ ReqsOK

\* Initially every request is idle and only legacy tokens are out.
LEMMA InitTypeInv == Init => TypeInv
PROOF
<1> SUFFICES ASSUME Init PROVE TypeInv
  OBVIOUS
<1>1. /\ now = 1 /\ users = Users /\ docs = {} /\ issued = LegacyTokens
      /\ access = {} /\ blacklist = {} /\ lost = {} /\ audited = {}
      /\ sess = [s \in Sids |-> NoSession] /\ marker = [s \in Sids |-> 0]
      /\ req = [r \in Reqs |-> Idle]
  BY DEF Init
<1>2. /\ tok \in [Tokens -> {NoClaims}
                  \cup {LegacyClaims(u) : u \in Users}]
      /\ \A t \in Tokens : tok[t].user = None <=> t \notin LegacyTokens
      /\ legacy \in [Users -> LegacyTokens \cup {None}]
  BY DEF Init
<1>3. {NoClaims} \cup {LegacyClaims(u) : u \in Users}
         \subseteq Claims
  <2>1. RefreshTTL \in Nat
    BY TimeAssumption
  <2>2. \A u \in Users : LegacyClaims(u) \in Claims
    BY <2>1 DEF LegacyClaims, Claims
  <2>3. NoClaims \in Claims
    BY DEF NoClaims, Claims
  <2> QED
    BY <2>2, <2>3
<1>4. tok \in [Tokens -> Claims]
  BY <1>2, <1>3
<1>5. NoSession \in Session /\ Idle \in Request /\ RequestOK(Idle)
  BY DEF NoSession, Session, Idle, Request, Steps, Kinds, RequestOK
<1>6. StoresOK
  BY <1>1, <1>2, <1>4, <1>5, LegacyAssumption DEF StoresOK
<1>7. OwnersOK
  BY <1>1, <1>2, <1>4, LegacyAssumption DEF OwnersOK, Claims
<1>8. ReqsOK
  BY <1>1, <1>5 DEF ReqsOK
<1> QED
  BY <1>6, <1>7, <1>8 DEF TypeInv

-----------------------------------------------------------------------------
(* How a step may change a request.                                        *)

LEMMA RequestUpdate ==
  ASSUME ReqsOK, NEW r \in Reqs, NEW q, RequestOK(q), req' = [req EXCEPT ![r] = q]
  PROVE  ReqsOK'
PROOF
  BY DEF ReqsOK, RequestOK

LEMMA FinishOK ==
  ASSUME ReqsOK, NEW r \in Reqs, Finish(r)
  PROVE  ReqsOK'
PROOF
<1>1. RequestOK(Idle)
  BY DEF Idle, Request, RequestOK, Steps, Kinds
<1> QED
  BY <1>1, RequestUpdate DEF Finish

\* Moving on to a step behind the middleware.
LEMMA GotoOK ==
  ASSUME ReqsOK, NEW r \in Reqs, NEW step \in Steps \ {"marker", "account", "blacklist"},
         req[r].pc \notin {"idle", "marker", "account"},
         req[r].op = "sweep" => step \in {"mark", "purge"},
         step = "revoke" => req[r].sid \in Sids,
         Goto(r, step)
  PROVE  ReqsOK'
PROOF
<1> DEFINE q == [req[r] EXCEPT !.pc = step]
<1>1. RequestOK(req[r])
  BY DEF ReqsOK
<1>2. q \in Request /\ q.pc = step /\ q.op = req[r].op
      /\ q.user = req[r].user /\ q.sid = req[r].sid
  BY <1>1 DEF RequestOK, Request
<1>3. RequestOK(q)
  BY <1>1, <1>2 DEF RequestOK
<1>4. req' = [req EXCEPT ![r] = q]
  BY DEF Goto
<1> QED
  BY <1>3, <1>4, RequestUpdate

LEMMA AfterMarksOK ==
  ASSUME NEW op \in Kinds
  PROVE  /\ AfterMarks(op) \in {"idle", "audit", "erase", "purge"}
         /\ op = "sweep" => AfterMarks(op) = "purge"
PROOF
  BY DEF AfterMarks, Kinds

LEMMA MarkingOK ==
  ASSUME NEW q, RequestOK(q), q.pc \notin {"idle", "marker", "account"},
         NEW rest \in SUBSET Sids
  PROVE  RequestOK(Marking(q, rest))
PROOF
<1>1. q \in Request /\ q.op \in Kinds
  BY DEF RequestOK, Request
<1>2. RequestOK(Idle)
  BY DEF Idle, Request, RequestOK, Steps, Kinds
<1>3. ASSUME NEW step \in Steps \ {"marker", "account", "blacklist", "revoke"}, NEW ids \in SUBSET Sids,
             q.op = "sweep" => step \in {"mark", "purge"}
      PROVE  RequestOK([q EXCEPT !.pc = step, !.ids = ids])
  <2> DEFINE p == [q EXCEPT !.pc = step, !.ids = ids]
  <2>1. p \in Request /\ p.pc = step /\ p.op = q.op /\ p.user = q.user
    BY <1>1, <1>3 DEF Request
  <2> QED
    BY <1>1, <1>3, <2>1 DEF RequestOK
<1>4. RequestOK([q EXCEPT !.pc = "mark", !.ids = rest])
  BY <1>3 DEF Steps
<1>5. ASSUME AfterMarks(q.op) # "idle"
      PROVE  RequestOK([q EXCEPT !.pc = AfterMarks(q.op), !.ids = {}])
  <2>1. AfterMarks(q.op) \in {"audit", "erase", "purge"}
        /\ (q.op = "sweep" => AfterMarks(q.op) = "purge")
    BY <1>1, <1>5, AfterMarksOK
  <2> QED
    BY <1>3, <2>1 DEF Steps
<1> QED
  BY <1>2, <1>4, <1>5 DEF Marking

\* A step that touches nothing but one request.
LEMMA OnlyRequest ==
  ASSUME StoresOK, OwnersOK, UNCHANGED <<now, mongo, tokens, redis, logs>>
  PROVE  StoresOK' /\ OwnersOK'
PROOF
  BY DEF StoresOK, OwnersOK, mongo, tokens, redis, logs

-----------------------------------------------------------------------------
(* Every action keeps the types.                                           *)

LEMMA LoginRequestType ==
  ASSUME TypeInv, NEW r \in Reqs, NEW u \in Users, LoginRequest(r, u)
  PROVE  TypeInv'
PROOF
<1> DEFINE q == [Idle EXCEPT !.pc = "create", !.op = "login", !.user = u, !.at = now]
<1>1. RequestOK(q)
  BY DEF TypeInv, StoresOK, RequestOK, Request, Steps, Kinds, Idle
<1>2. ReqsOK'
  BY <1>1, RequestUpdate DEF TypeInv, LoginRequest, Begin
<1> QED
  BY <1>2, OnlyRequest DEF TypeInv, LoginRequest

LEMMA RefreshRequestType ==
  ASSUME TypeInv, NEW r \in Reqs, NEW t \in issued, RefreshRequest(r, t)
  PROVE  TypeInv'
PROOF
<1> DEFINE q == [Idle EXCEPT !.pc = "find", !.op = "refresh", !.tok = t,
                 !.sid = tok[t].sid, !.user = tok[t].user, !.at = now]
<1>1. t \in Tokens /\ tok[t].sid \in Sids \cup {None} /\ tok[t].user \in Users /\ now \in Nat
  BY DEF TypeInv, StoresOK, OwnersOK, Claims
<1>2. RequestOK(q)
  BY <1>1 DEF RequestOK, Request, Steps, Kinds, Idle
<1>3. ReqsOK'
  BY <1>2, RequestUpdate DEF TypeInv, RefreshRequest, Begin
<1> QED
  BY <1>3, OnlyRequest DEF TypeInv, RefreshRequest

LEMMA AuthRequestType ==
  ASSUME TypeInv, NEW r \in Reqs, NEW a \in access, NEW op \in {"revoke", "logout", "delete"},
         NEW s \in Sids \cup {None}, NEW t \in Tokens \cup {None}, AuthRequest(r, a, op, s, t)
  PROVE  TypeInv'
PROOF
<1> DEFINE q == [Idle EXCEPT !.pc = "marker", !.op = op, !.acc = a,
                 !.sid = s, !.tok = t, !.at = now]
<1>1. a \in Access /\ now \in Nat
  BY DEF TypeInv, StoresOK
<1>2. RequestOK(q)
  BY <1>1 DEF RequestOK, Request, Steps, Kinds, Idle
<1>3. ReqsOK'
  BY <1>2, RequestUpdate DEF TypeInv, AuthRequest, Begin
<1> QED
  BY <1>3, OnlyRequest DEF TypeInv, AuthRequest

LEMMA FindSessionType ==
  ASSUME TypeInv, NEW r \in Reqs, FindSession(r)
  PROVE  TypeInv'
PROOF
<1> USE DEF TypeInv
<1>1. ReqsOK'
  <2> DEFINE s == req[r].sid
             q == [req[r] EXCEPT !.pc = "user", !.hash = sess[s].hash, !.user = sess[s].user]
  <2>1. RequestOK(req[r]) /\ req[r].pc = "find" /\ req[r].op # "sweep"
    BY DEF ReqsOK, RequestOK, FindSession, At
  <2>2. CASE s \notin docs /\ Goto(r, "legacyGet")
    BY <2>1, <2>2, GotoOK DEF Steps
  <2>3. CASE Finish(r)
    BY <2>3, FinishOK
  <2>4. CASE s \in docs /\ req' = [req EXCEPT ![r] = q]
    <3>1. sess[s].hash \in Tokens \cup {None} /\ sess[s].user \in Users
      BY <2>4 DEF StoresOK, OwnersOK, Session
    <3>2. q \in Request /\ q.pc = "user" /\ q.op = req[r].op /\ q.user = sess[s].user
      BY <2>1, <3>1 DEF RequestOK, Request, Steps
    <3> HIDE DEF q
    <3>3. RequestOK(q)
      BY <2>1, <3>1, <3>2 DEF RequestOK
    <3> QED
      BY <2>4, <3>3, RequestUpdate
  <2> QED
    BY <2>2, <2>3, <2>4 DEF FindSession
<1> QED
  BY <1>1, OnlyRequest DEF FindSession

LEMMA FindUserType ==
  ASSUME TypeInv, NEW r \in Reqs, FindUser(r)
  PROVE  TypeInv'
PROOF
<1> USE DEF TypeInv
<1>1. ReqsOK'
  <2> DEFINE q1 == [req[r] EXCEPT !.pc = "findAll", !.op = "reuse"]
             q2 == [req[r] EXCEPT !.pc = "rotate", !.at = now]
  <2>1. RequestOK(req[r]) /\ req[r].pc = "user" /\ req[r].op # "sweep" /\ now \in Nat
    BY DEF ReqsOK, RequestOK, FindUser, At, StoresOK
  <2>2. CASE Goto(r, "lookup")
    BY <2>1, <2>2, GotoOK DEF Steps
  <2>3. CASE req' = [req EXCEPT ![r] = q1]
    <3>1. q1 \in Request /\ q1.pc = "findAll" /\ q1.op = "reuse" /\ q1.user = req[r].user
      BY <2>1 DEF RequestOK, Request, Steps, Kinds
    <3>2. req[r].user \in Users
      BY <2>1 DEF RequestOK
    <3> HIDE DEF q1
    <3>3. RequestOK(q1)
      BY <3>1, <3>2 DEF RequestOK
    <3> QED
      BY <2>3, <3>3, RequestUpdate
  <2>4. CASE req' = [req EXCEPT ![r] = q2]
    <3>1. RequestOK(q2)
      BY <2>1 DEF RequestOK, Request, Steps
    <3> QED
      BY <2>4, <3>1, RequestUpdate
  <2> QED
    BY <2>2, <2>3, <2>4 DEF FindUser
<1> QED
  BY <1>1, OnlyRequest DEF FindUser

\* Handing out a pair of tokens keeps the token stores in range.
LEMMA GiveTokensType ==
  ASSUME StoresOK, \A x \in issued : tok[x].user \in Users,
         NEW u \in Users, NEW s \in Sids, NEW t \in Tokens, NEW at \in Nat,
         NEW parent \in Tokens \cup {None}, GiveTokens(u, s, t, at, parent)
  PROVE  /\ issued' \subseteq Tokens
         /\ tok' \in [Tokens -> Claims]
         /\ access' \subseteq Access
         /\ \A x \in issued' : tok'[x].user \in Users
PROOF
<1>1. at + RefreshTTL \in Nat /\ at + AccessTTL \in Nat
  BY TimeAssumption
<1> DEFINE c == [user |-> u, sid |-> s, parent |-> parent, exp |-> at + RefreshTTL]
           a == [user |-> u, sid |-> s, exp |-> at + AccessTTL]
<1>2. c \in Claims /\ a \in Access /\ c.user = u
  BY <1>1 DEF Claims, Access
<1>3. tok' = [tok EXCEPT ![t] = c] /\ access' = access \cup {a} /\ issued' = issued \cup {t}
  BY DEF GiveTokens
<1> HIDE DEF c, a
<1> QED
  BY <1>2, <1>3 DEF StoresOK

LEMMA CreateSessionType ==
  ASSUME TypeInv, NEW r \in Reqs, CreateSession(r)
  PROVE  TypeInv'
PROOF
<1> USE DEF TypeInv
<1>1. RequestOK(req[r]) /\ req[r].pc = "create" /\ req[r].op # "sweep"
  BY DEF ReqsOK, RequestOK, CreateSession, At
<1>2. req[r].user \in Users /\ req[r].at \in Nat /\ req[r].tok \in Tokens \cup {None}
  BY <1>1 DEF RequestOK, Request
<1>3. PICK s \in Sids, t \in Tokens \ issued :
        /\ docs' = docs \cup {s}
        /\ sess' = [sess EXCEPT ![s] =
              [user |-> req[r].user, hash |-> t, born |-> now, active |-> req[r].at,
               expires |-> req[r].at + RefreshTTL, revokedAt |-> 0]]
        /\ GiveTokens(req[r].user, s, t, req[r].at, req[r].tok)
  BY DEF CreateSession
<1> DEFINE d == [user |-> req[r].user, hash |-> t, born |-> now, active |-> req[r].at,
                 expires |-> req[r].at + RefreshTTL, revokedAt |-> 0]
<1>4. d \in Session /\ d.user \in Users
  <2>1. now \in Nat /\ req[r].at + RefreshTTL \in Nat
    BY <1>2, TimeAssumption DEF StoresOK
  <2> QED
    BY <1>2, <2>1 DEF Session
<1>5. sess' = [sess EXCEPT ![s] = d]
  BY <1>3
<1>6. ReqsOK'
  BY FinishOK DEF CreateSession
<1>7. /\ issued' \subseteq Tokens /\ tok' \in [Tokens -> Claims] /\ access' \subseteq Access
      /\ \A x \in issued' : tok'[x].user \in Users
  BY <1>2, <1>3, GiveTokensType DEF OwnersOK
<1> HIDE DEF d
<1>8. StoresOK'
  BY <1>3, <1>4, <1>5, <1>7 DEF StoresOK, CreateSession, redis, logs
<1>9. OwnersOK'
  BY <1>3, <1>4, <1>5, <1>7 DEF StoresOK, OwnersOK
<1> QED
  BY <1>6, <1>8, <1>9

LEMMA RotateType ==
  ASSUME TypeInv, NEW r \in Reqs, Rotate(r)
  PROVE  TypeInv'
PROOF
<1> USE DEF TypeInv
<1> DEFINE s == req[r].sid
<1>1. RequestOK(req[r]) /\ req[r].pc = "rotate" /\ req[r].op # "sweep"
  BY DEF ReqsOK, RequestOK, Rotate, At
<1>2. req[r].user \in Users /\ req[r].at \in Nat /\ req[r].tok \in Tokens \cup {None}
  BY <1>1 DEF RequestOK, Request
<1>3. ReqsOK'
  BY FinishOK DEF Rotate
<1>4. CASE RotateMatches(s, req[r].tok)
  <2>1. s \in docs /\ s \in Sids
    BY <1>4 DEF RotateMatches, StoresOK
  <2>2. PICK t \in Tokens \ issued :
          /\ sess' = [sess EXCEPT ![s].hash = t, ![s].active = req[r].at,
                                  ![s].expires = req[r].at + RefreshTTL]
          /\ GiveTokens(req[r].user, s, t, req[r].at, req[r].tok)
    BY <1>4 DEF Rotate
  <2> DEFINE d == [sess[s] EXCEPT !.hash = t, !.active = req[r].at,
                                  !.expires = req[r].at + RefreshTTL]
  <2>3. d \in Session /\ d.user \in Users
    <3>1. req[r].at + RefreshTTL \in Nat /\ sess[s] \in Session /\ sess[s].user \in Users
      BY <1>2, <2>1, TimeAssumption DEF StoresOK, OwnersOK
    <3> QED
      BY <1>2, <3>1 DEF Session
  <2>4. sess' = [sess EXCEPT ![s] = d]
    BY <2>2
  <2>5. /\ issued' \subseteq Tokens /\ tok' \in [Tokens -> Claims] /\ access' \subseteq Access
        /\ \A x \in issued' : tok'[x].user \in Users
    BY <1>2, <2>1, <2>2, GiveTokensType DEF OwnersOK
  <2> HIDE DEF d
  <2>6. StoresOK'
    BY <2>1, <2>3, <2>4, <2>5 DEF StoresOK, Rotate, redis, logs
  <2>7. OwnersOK'
    BY <2>1, <2>3, <2>4, <2>5 DEF StoresOK, OwnersOK, Rotate
  <2> QED
    BY <1>3, <2>6, <2>7
<1>5. CASE ~RotateMatches(s, req[r].tok)
  BY <1>3, <1>5, OnlyRequest DEF Rotate, mongo, tokens
<1> QED
  BY <1>4, <1>5

LEMMA LegacyGetType ==
  ASSUME TypeInv, NEW r \in Reqs, LegacyGet(r)
  PROVE  TypeInv'
PROOF
<1> USE DEF TypeInv
<1>1. RequestOK(req[r]) /\ req[r].pc = "legacyGet" /\ req[r].op # "sweep"
  BY DEF ReqsOK, RequestOK, LegacyGet, At
<1>2. ReqsOK'
  BY <1>1, FinishOK, GotoOK DEF LegacyGet, Steps
<1> QED
  BY <1>2, OnlyRequest DEF LegacyGet

LEMMA DeleteLookupType ==
  ASSUME TypeInv, NEW r \in Reqs, DeleteLookup(r)
  PROVE  TypeInv'
PROOF
<1> USE DEF TypeInv
<1>1. RequestOK(req[r]) /\ req[r].pc = "delete" /\ req[r].op # "sweep"
  BY DEF ReqsOK, RequestOK, DeleteLookup, At
<1>2. ReqsOK'
  BY <1>1, FinishOK, GotoOK DEF DeleteLookup, Steps
<1> QED
  BY <1>2, OnlyRequest DEF DeleteLookup

LEMMA LookupType ==
  ASSUME TypeInv, NEW r \in Reqs, Lookup(r)
  PROVE  TypeInv'
PROOF
<1> USE DEF TypeInv
<1>1. RequestOK(req[r]) /\ req[r].pc = "lookup" /\ req[r].op # "sweep"
  BY DEF ReqsOK, RequestOK, Lookup, At
<1>2. ReqsOK'
  BY <1>1, FinishOK, GotoOK DEF Lookup, Steps, StoresOK
<1> QED
  BY <1>2, OnlyRequest DEF Lookup

LEMMA BlacklistAccessType ==
  ASSUME TypeInv, NEW r \in Reqs, BlacklistAccess(r)
  PROVE  TypeInv'
PROOF
<1> USE DEF TypeInv
<1>1. RequestOK(req[r]) /\ req[r].pc = "blacklist" /\ req[r].acc \in Access /\ req[r].op # "sweep"
  BY DEF ReqsOK, RequestOK, BlacklistAccess, At
<1>2. ReqsOK'
  BY <1>1, FinishOK, GotoOK DEF BlacklistAccess, Steps
<1>3. blacklist' \subseteq Access
  BY <1>1 DEF BlacklistAccess, StoresOK
<1>4. StoresOK' /\ OwnersOK'
  BY <1>3 DEF StoresOK, OwnersOK, BlacklistAccess, mongo, tokens, logs
<1> QED
  BY <1>2, <1>4

LEMMA AuditReuseType ==
  ASSUME TypeInv, NEW r \in Reqs, AuditReuse(r)
  PROVE  TypeInv'
PROOF
<1> USE DEF TypeInv
<1>1. RequestOK(req[r]) /\ req[r].pc = "audit" /\ req[r].op # "sweep"
  BY DEF ReqsOK, RequestOK, AuditReuse, At
<1>2. ReqsOK'
  BY <1>1, FinishOK, GotoOK DEF AuditReuse, Steps
<1>3. req[r].user \in Users
  BY <1>1 DEF RequestOK
<1>4. StoresOK' /\ OwnersOK'
  BY <1>3 DEF StoresOK, OwnersOK, AuditReuse, mongo, tokens, redis
<1> QED
  BY <1>2, <1>4

LEMMA EraseUserType ==
  ASSUME TypeInv, NEW r \in Reqs, EraseUser(r)
  PROVE  TypeInv'
PROOF
<1> USE DEF TypeInv
<1>1. RequestOK(req[r]) /\ req[r].pc = "erase" /\ req[r].op # "sweep"
  BY DEF ReqsOK, RequestOK, EraseUser, At
<1>2. ReqsOK'
  BY <1>1, FinishOK, GotoOK DEF EraseUser, Steps
<1>3. StoresOK' /\ OwnersOK'
  BY DEF StoresOK, OwnersOK, EraseUser, tokens, redis, logs
<1> QED
  BY <1>2, <1>3

LEMMA LegacyDelType ==
  ASSUME TypeInv, NEW r \in Reqs, LegacyDel(r)
  PROVE  TypeInv'
PROOF
<1> USE DEF TypeInv
<1> DEFINE q == [req[r] EXCEPT !.pc = "create", !.at = now]
<1>1. RequestOK(req[r]) /\ now \in Nat
  BY DEF ReqsOK, StoresOK
<1>2. CASE Finish(r)
  BY <1>2, FinishOK DEF StoresOK, OwnersOK, LegacyDel, mongo, tokens, logs
<1>3. CASE At(r, "legacyTake") /\ req' = [req EXCEPT ![r] = q]
  <2>1. RequestOK(q)
    BY <1>1, <1>3 DEF RequestOK, Request, Steps, At
  <2>2. ReqsOK'
    BY <1>3, <2>1, RequestUpdate
  <2> QED
    BY <2>2 DEF StoresOK, OwnersOK, LegacyDel, mongo, tokens, logs
<1> QED
  BY <1>2, <1>3 DEF LegacyDel

LEMMA LogoutRequestType ==
  ASSUME TypeInv, NEW r \in Reqs, NEW a \in access, NEW t \in issued, LogoutRequest(r, a, t)
  PROVE  TypeInv'
PROOF
<1>1. tok[t].sid \in Sids \cup {None} /\ t \in Tokens
  BY DEF TypeInv, StoresOK, Claims
<1> QED
  BY <1>1, AuthRequestType DEF LogoutRequest

LEMMA CheckMarkerType ==
  ASSUME TypeInv, NEW r \in Reqs, CheckMarker(r)
  PROVE  TypeInv'
PROOF
<1> USE DEF TypeInv
<1> DEFINE q == [req[r] EXCEPT !.pc = "account"]
<1>1. RequestOK(req[r]) /\ req[r].pc = "marker"
  BY DEF ReqsOK, CheckMarker, At
<1>2. RequestOK(q)
  BY <1>1 DEF RequestOK, Request, Steps
<1>3. Goto(r, "account") => req' = [req EXCEPT ![r] = q]
  BY DEF Goto
<1>4. ReqsOK'
  BY <1>2, <1>3, FinishOK, RequestUpdate DEF CheckMarker
<1> QED
  BY <1>4, OnlyRequest DEF CheckMarker

LEMMA LoadUserType ==
  ASSUME TypeInv, NEW r \in Reqs, LoadUser(r)
  PROVE  TypeInv'
PROOF
<1> USE DEF TypeInv
<1> DEFINE u == req[r].acc.user
           step == HandlerStep(req[r].op)
           q == [req[r] EXCEPT !.user = u, !.pc = step]
<1>1. /\ RequestOK(req[r]) /\ req[r].pc = "account"
      /\ req[r].op \in {"revoke", "logout", "delete"} /\ req[r].acc \in Access
  BY DEF ReqsOK, RequestOK, LoadUser, At
<1>2. step \in {"lookup", "blacklist", "delete"} /\ u \in Users
  BY <1>1 DEF HandlerStep, Access
<1>3. RequestOK(q)
  <2> HIDE DEF step, u
  <2>1. /\ q \in Request /\ q.pc = step /\ q.op = req[r].op
        /\ q.user = u /\ q.acc = req[r].acc
    BY <1>1, <1>2 DEF RequestOK, Request, Steps
  <2> QED
    BY <1>1, <1>2, <2>1 DEF RequestOK
<1>4. u \in users => req' = [req EXCEPT ![r] = q]
  BY DEF LoadUser
<1>5. ReqsOK'
  BY <1>3, <1>4, FinishOK, RequestUpdate DEF LoadUser
<1> QED
  BY <1>5, OnlyRequest DEF LoadUser

LEMMA RevokeType ==
  ASSUME TypeInv, NEW r \in Reqs, Revoke(r)
  PROVE  TypeInv'
PROOF
<1> USE DEF TypeInv
<1> DEFINE s == req[r].sid
           q == [req[r] EXCEPT !.pc = "mark", !.ids = {s}]
           d == [sess[s] EXCEPT !.revokedAt = now]
<1>1. RequestOK(req[r]) /\ req[r].pc = "revoke" /\ req[r].op # "sweep"
  BY DEF ReqsOK, RequestOK, Revoke, At
<1>2. req' = [req EXCEPT ![r] = q]
      /\ sess' = IF s \in docs THEN [sess EXCEPT ![s] = d] ELSE sess
  BY DEF Revoke
<1>3. s \in docs => s \in Sids /\ d \in Session /\ d.user = sess[s].user
  BY DEF StoresOK, Session
<1> HIDE DEF d
<1>4. StoresOK' /\ OwnersOK'
  BY <1>2, <1>3 DEF StoresOK, OwnersOK, Revoke, tokens, redis, logs
<1>5. s \in Sids
  BY <1>1 DEF RequestOK
<1>6. RequestOK(q)
  BY <1>1, <1>5 DEF RequestOK, Request, Steps
<1> QED
  BY <1>2, <1>4, <1>6, RequestUpdate

LEMMA FindAllType ==
  ASSUME TypeInv, NEW r \in Reqs, FindAll(r)
  PROVE  TypeInv'
PROOF
<1> USE DEF TypeInv
<1> DEFINE q == [req[r] EXCEPT !.pc = "revokeMany", !.ids = ToRevoke(r)]
<1>1. RequestOK(req[r]) /\ req[r].pc = "findAll" /\ ToRevoke(r) \in SUBSET Sids
  BY DEF ReqsOK, StoresOK, FindAll, At, ToRevoke
<1>2. RequestOK(q)
  BY <1>1 DEF RequestOK, Request, Steps
<1>3. RequestOK(Marking(req[r], {}))
  BY <1>1, MarkingOK
<1>4. req' = [req EXCEPT ![r] = q] \/ req' = [req EXCEPT ![r] = Marking(req[r], {})]
  BY DEF FindAll
<1>5. ReqsOK'
  BY <1>2, <1>3, <1>4, RequestUpdate
<1> QED
  BY <1>5, OnlyRequest DEF FindAll

LEMMA SweepRequestType ==
  ASSUME TypeInv, NEW r \in Reqs, SweepRequest(r)
  PROVE  TypeInv'
PROOF
<1> USE DEF TypeInv
<1> DEFINE found == {s \in docs : ~Revoked(s) /\ IdleSince(s, now)}
           step == IF found = {} THEN "purge" ELSE "revokeMany"
           q == [Idle EXCEPT !.op = "sweep", !.at = now, !.ids = found, !.pc = step]
<1>1. found \in SUBSET Sids /\ now \in Nat /\ step \in {"purge", "revokeMany"}
  BY DEF StoresOK
<1>2. req' = [req EXCEPT ![r] = q]
  BY DEF SweepRequest, Begin
<1> HIDE DEF found, step
<1>3. RequestOK(q)
  BY <1>1 DEF RequestOK, Request, Steps, Kinds, Idle
<1> QED
  BY <1>2, <1>3, RequestUpdate, OnlyRequest DEF SweepRequest

LEMMA RevokeManyType ==
  ASSUME TypeInv, NEW r \in Reqs, RevokeMany(r)
  PROVE  TypeInv'
PROOF
<1> USE DEF TypeInv
<1>1. RequestOK(req[r]) /\ req[r].pc = "revokeMany"
  BY DEF ReqsOK, RevokeMany, At
<1>2. ReqsOK'
  BY <1>1, GotoOK DEF RevokeMany, Steps
<1>3. \A s \in Sids : [sess[s] EXCEPT !.revokedAt = now] \in Session
                      /\ [sess[s] EXCEPT !.revokedAt = now].user = sess[s].user
  BY DEF StoresOK, Session
<1>4. sess' \in [Sids -> Session] /\ \A s \in Sids : sess'[s].user = sess[s].user
  BY <1>3 DEF RevokeMany, StoresOK
<1> QED
  BY <1>2, <1>4 DEF StoresOK, OwnersOK, RevokeMany, tokens, redis, logs

LEMMA MarkType ==
  ASSUME TypeInv, NEW r \in Reqs, Mark(r)
  PROVE  TypeInv'
PROOF
<1> USE DEF TypeInv
<1>1. RequestOK(req[r]) /\ req[r].pc = "mark" /\ req[r].ids \in SUBSET Sids
  BY DEF ReqsOK, RequestOK, Request, Mark, At
<1>2. PICK s \in req[r].ids :
        /\ req' = [req EXCEPT ![r] = Marking(req[r], req[r].ids \ {s})]
        /\ \/ /\ marker' = [marker EXCEPT ![s] = MarkerExpiry]
              /\ lost' = lost \ {s}
           \/ /\ lost' = lost \cup {s}
              /\ UNCHANGED marker
  BY DEF Mark
<1>3. ReqsOK'
  BY <1>1, <1>2, MarkingOK, RequestUpdate
<1>4. MarkerExpiry \in Nat /\ s \in Sids
  BY <1>1, <1>2, TimeAssumption DEF MarkerExpiry, StoresOK
<1> QED
  BY <1>2, <1>3, <1>4 DEF StoresOK, OwnersOK, Mark, mongo, tokens

LEMMA PurgeType ==
  ASSUME TypeInv, NEW r \in Reqs, Purge(r)
  PROVE  TypeInv'
PROOF
<1> USE DEF TypeInv
<1>1. ReqsOK'
  BY FinishOK DEF Purge
<1>2. NoSession \in Session
  BY DEF NoSession, Session
<1>3. /\ sess' \in [Sids -> Session] /\ docs' \subseteq docs
      /\ \A s \in docs' : sess'[s] = sess[s]
  BY <1>2 DEF Purge, StoresOK
<1> QED
  BY <1>1, <1>3 DEF StoresOK, OwnersOK, Purge, tokens, redis, logs

LEMMA FailType ==
  ASSUME TypeInv, NEW r \in Reqs, Fail(r)
  PROVE  TypeInv'
PROOF
<1> USE DEF TypeInv
<1>1. ReqsOK'
  BY FinishOK DEF Fail
<1>2. req[r].ids \subseteq Sids
  BY DEF ReqsOK, RequestOK, Request
<1> QED
  BY <1>1, <1>2 DEF StoresOK, OwnersOK, Fail, mongo, tokens, redis

LEMMA TickType ==
  ASSUME TypeInv, Tick
  PROVE  TypeInv'
PROOF
  BY DEF TypeInv, StoresOK, OwnersOK, ReqsOK, Tick, mongo, tokens, redis, logs

LEMMA NextTypeInv == TypeInv /\ [Next]_vars => TypeInv'
PROOF
<1> SUFFICES ASSUME TypeInv, [Next]_vars PROVE TypeInv'
  OBVIOUS
<1>1. CASE UNCHANGED vars
  BY <1>1 DEF vars, mongo, tokens, redis, logs, TypeInv, StoresOK, OwnersOK, ReqsOK
<1>2. ASSUME NEW r \in Reqs, Start(r) PROVE TypeInv'
  <2>1. CASE \E a \in access, s \in Sids : AuthRequest(r, a, "revoke", s, None)
    BY <2>1, AuthRequestType
  <2>2. CASE \E a \in access : AuthRequest(r, a, "delete", None, None)
    BY <2>2, AuthRequestType
  <2> QED
    BY <1>2, <2>1, <2>2, LoginRequestType, RefreshRequestType, LogoutRequestType,
       SweepRequestType DEF Start
<1>3. ASSUME NEW r \in Reqs, Continue(r) PROVE TypeInv'
  BY <1>3, CreateSessionType, FindSessionType, FindUserType, RotateType, LegacyGetType,
     LegacyDelType, CheckMarkerType, LoadUserType, BlacklistAccessType, LookupType, RevokeType,
     DeleteLookupType, FindAllType, RevokeManyType, MarkType, AuditReuseType, EraseUserType,
     PurgeType DEF Continue
<1> QED
  BY <1>1, <1>2, <1>3, FailType, TickType DEF Next

\* Type correctness: whatever races or fails, every store keeps its shape and
\* every request stays within its handler.
THEOREM TypeCorrect == Spec => []TypeOK
PROOF
<1>1. TypeInv => TypeOK
  BY DEF TypeInv, StoresOK, ReqsOK, TypeOK
<1> QED
  BY <1>1, InitTypeInv, NextTypeInv, PTL DEF Spec

-----------------------------------------------------------------------------
(* A token is redeemed once.                                               *)

\* The current token of a stored session is bound to it and has never been
\* exchanged; this is what the comparison of hashes tests.
CurrentUnspent ==
    \A s \in docs :
        /\ sess[s].hash \in issued
        /\ tok[sess[s].hash].sid = s
        /\ \A t \in issued : tok[t].parent # sess[s].hash

LegacyUnbound == LegacyTokens \subseteq issued /\ \A t \in LegacyTokens : tok[t].sid = None

ParentsIssued == \A t \in issued : tok[t].parent \in issued \cup {None}

\* Only a legacy token is ever migrated, and a login exchanges none.
TokenHeld(q) ==
    /\ q.pc \in {"find", "legacyGet"} => q.tok # None
    /\ q.pc = "legacyTake" => q.tok \in LegacyTokens
    /\ q.pc = "create" => q.tok \in LegacyTokens \cup {None}

RedeemInv ==
    /\ CurrentUnspent
    /\ LegacyUnbound
    /\ ParentsIssued
    /\ \A r \in Reqs : TokenHeld(req[r])
    /\ OneRedemption

LEMMA InitRedeemInv == Init => RedeemInv
PROOF
<1> SUFFICES ASSUME Init PROVE RedeemInv
  OBVIOUS
<1>1. docs = {} /\ issued = LegacyTokens /\ req = [r \in Reqs |-> Idle]
  BY DEF Init
<1>2. \A t \in Tokens : tok[t] = NoClaims \/ \E u \in Users : tok[t] = LegacyClaims(u)
  BY DEF Init
<1>3. ASSUME NEW t \in Tokens PROVE tok[t].sid = None /\ tok[t].parent = None
  <2>1. CASE tok[t] = NoClaims
    BY <2>1 DEF NoClaims
  <2>2. CASE \E u \in Users : tok[t] = LegacyClaims(u)
    <3>1. PICK u \in Users : tok[t] = LegacyClaims(u)
      BY <2>2
    <3> QED
      BY <3>1 DEF LegacyClaims
  <2> QED
    BY <1>2, <2>1, <2>2
<1>4. LegacyTokens \subseteq Tokens
  BY LegacyAssumption
<1>5. \A r \in Reqs : TokenHeld(req[r])
  BY <1>1 DEF TokenHeld, Idle
<1>6. CurrentUnspent
  BY <1>1 DEF CurrentUnspent
<1>7. LegacyUnbound /\ ParentsIssued
  BY <1>1, <1>3, <1>4 DEF LegacyUnbound, ParentsIssued
<1>8. OneRedemption
  BY <1>1, <1>3, <1>4 DEF OneRedemption
<1> QED
  BY <1>5, <1>6, <1>7, <1>8 DEF RedeemInv

\* A step belongs to one request and leaves the others alone.
LEMMA OthersUntouched ==
  ASSUME TypeInv, NEW r \in Reqs, Start(r) \/ Continue(r) \/ Fail(r)
  PROVE  \A x \in Reqs \ {r} : req'[x] = req[x]
PROOF
  BY DEF TypeInv, ReqsOK, Start, Continue, Fail, Finish, Goto, Begin, LoginRequest, RefreshRequest,
     AuthRequest, LogoutRequest, SweepRequest, CreateSession, FindSession, FindUser, Rotate,
     LegacyGet, LegacyDel, CheckMarker, LoadUser, BlacklistAccess, Lookup, Revoke, DeleteLookup,
     FindAll, RevokeMany, Mark, AuditReuse, EraseUser, Purge

LEMMA NextTokenHeld ==
  ASSUME TypeInv, \A r \in Reqs : TokenHeld(req[r]), Next
  PROVE  \A r \in Reqs : TokenHeld(req'[r])
PROOF
<1> USE DEF TypeInv
<1> SUFFICES ASSUME NEW r \in Reqs,
                    \A x \in Reqs \ {r} : req'[x] = req[x],
                    Start(r) \/ Continue(r) \/ Fail(r)
             PROVE  TokenHeld(req'[r])
  <2>1. CASE Tick
    BY <2>1 DEF Tick
  <2> QED
    BY <2>1, OthersUntouched DEF Next
<1>1. req[r] \in Request /\ req \in [Reqs -> Request]
  BY DEF ReqsOK, RequestOK
<1>2. TokenHeld(Idle)
  BY DEF TokenHeld, Idle
<1>3. CASE \E u \in Users : LoginRequest(r, u)
  BY <1>1, <1>3 DEF LoginRequest, Begin, TokenHeld, Idle
<1>4. CASE \E t \in issued : RefreshRequest(r, t)
  BY <1>1, <1>4, NullAssumption DEF RefreshRequest, Begin, TokenHeld, Idle, StoresOK
<1>5. CASE FindSession(r)
  BY <1>1, <1>2, <1>5 DEF FindSession, Goto, Finish, At, TokenHeld, Request
<1>6. CASE LegacyGet(r)
  <2>1. legacy[req[r].user] \in LegacyTokens \cup {None}
    BY <1>6 DEF ReqsOK, RequestOK, StoresOK, LegacyGet, At
  <2> QED
    BY <1>1, <1>2, <1>6, <2>1 DEF LegacyGet, Goto, Finish, At, TokenHeld, Request
<1>7. CASE LegacyDel(r)
  BY <1>1, <1>2, <1>7 DEF LegacyDel, Finish, At, TokenHeld, Request
<1>8. ASSUME NEW op \in {"revoke", "logout", "delete"}, NEW a, NEW s, NEW t, AuthRequest(r, a, op, s, t)
      PROVE  TokenHeld(req'[r])
  <2> DEFINE q == [Idle EXCEPT !.pc = "marker", !.op = op, !.acc = a,
                   !.sid = s, !.tok = t, !.at = now]
  <2>1. req'[r] = q
    BY <1>1, <1>8 DEF AuthRequest, Begin
  <2> QED
    BY <2>1 DEF TokenHeld, Idle
<1>18. CASE SweepRequest(r)
  BY <1>1, <1>18 DEF SweepRequest, Begin, TokenHeld, Idle
<1>9. CASE CreateSession(r) \/ Rotate(r) \/ AuditReuse(r) \/ EraseUser(r) \/ Purge(r) \/ Fail(r)
  BY <1>1, <1>2, <1>9 DEF CreateSession, Rotate, AuditReuse, EraseUser, Purge, Fail, Finish
<1>10. ASSUME NEW step \in {"lookup", "account", "revoke", "findAll", "mark"}, Goto(r, step)
       PROVE  TokenHeld(req'[r])
  BY <1>1, <1>10 DEF Goto, TokenHeld, Request
<1>13. CASE FindUser(r)
  BY <1>1, <1>10, <1>13 DEF FindUser, TokenHeld, Request
<1>14. CASE CheckMarker(r) \/ BlacklistAccess(r) \/ Lookup(r) \/ DeleteLookup(r)
  BY <1>1, <1>2, <1>10, <1>14 DEF CheckMarker, BlacklistAccess, Lookup, DeleteLookup, Finish
<1>15. CASE Revoke(r) \/ RevokeMany(r)
  BY <1>1, <1>10, <1>15 DEF Revoke, RevokeMany, TokenHeld, Request
<1>11. CASE LoadUser(r)
  <2>1. HandlerStep(req[r].op) \in {"lookup", "blacklist", "delete"}
    BY <1>11 DEF ReqsOK, RequestOK, LoadUser, At, HandlerStep
  <2> QED
    BY <1>1, <1>2, <1>11, <2>1 DEF LoadUser, Finish, TokenHeld, Request
<1>12. CASE FindAll(r) \/ Mark(r)
  <2>1. ASSUME NEW rest PROVE TokenHeld(Marking(req[r], rest))
    <3>1. AfterMarks(req[r].op) \in {"idle", "audit", "erase", "purge"}
      BY <1>1, AfterMarksOK DEF Request
    <3>2. ASSUME NEW step \in {"mark", "audit", "erase", "purge"}, NEW ids
          PROVE  TokenHeld([req[r] EXCEPT !.pc = step, !.ids = ids])
      BY <1>1 DEF TokenHeld, Request
    <3> QED
      BY <1>2, <3>1, <3>2 DEF Marking
  <2> QED
    <3>1. CASE FindAll(r)
      BY <1>1, <2>1, <3>1 DEF FindAll, TokenHeld, Request
    <3>2. CASE Mark(r)
      <4>1. \E rest : req' = [req EXCEPT ![r] = Marking(req[r], rest)]
        BY <3>2 DEF Mark
      <4> QED
        BY <1>1, <2>1, <4>1
    <3> QED
      BY <1>12, <3>1, <3>2
<1>16. CASE Start(r)
  <2>1. CASE \E a \in access, s \in Sids : AuthRequest(r, a, "revoke", s, None)
    BY <1>8, <2>1
  <2>2. CASE \E a \in access, t \in issued : LogoutRequest(r, a, t)
    BY <1>8, <2>2 DEF LogoutRequest
  <2>3. CASE \E a \in access : AuthRequest(r, a, "delete", None, None)
    BY <1>8, <2>3
  <2> QED
    BY <1>3, <1>4, <1>16, <1>18, <2>1, <2>2, <2>3 DEF Start
<1>17. CASE Continue(r)
  BY <1>5, <1>6, <1>7, <1>9, <1>11, <1>12, <1>13, <1>14, <1>15, <1>17 DEF Continue
<1> QED
  BY <1>9, <1>16, <1>17

\* A step that hands out nothing, changes no current token and revives nothing.
Quiet ==
    /\ UNCHANGED tokens
    /\ docs' \subseteq docs
    /\ \A s \in docs' : /\ sess'[s].hash = sess[s].hash
                        /\ sess[s].revokedAt # 0 => sess'[s].revokedAt # 0

Hands(r) == CreateSession(r) \/ (Rotate(r) /\ RotateMatches(req[r].sid, req[r].tok))

LEMMA StepCases ==
  ASSUME [Next]_vars
  PROVE  \/ UNCHANGED <<docs, sess, tokens>>
         \/ \E r \in Reqs : Hands(r) \/ Revoke(r) \/ RevokeMany(r) \/ Purge(r)
PROOF
<1> DEFINE Still == UNCHANGED <<docs, sess, tokens>>
<1>1. CASE UNCHANGED vars \/ Tick
  BY <1>1 DEF vars, mongo, Tick
<1>2. ASSUME NEW r \in Reqs, Start(r) PROVE Still
  BY <1>2 DEF Start, LoginRequest, RefreshRequest, AuthRequest, LogoutRequest, SweepRequest, mongo
<1>3. ASSUME NEW r \in Reqs, FindSession(r) \/ FindUser(r) \/ LegacyGet(r) \/ CheckMarker(r)
             \/ LoadUser(r) \/ Lookup(r) \/ DeleteLookup(r) \/ FindAll(r) \/ Mark(r)
             \/ AuditReuse(r) \/ EraseUser(r) \/ Fail(r) \/ LegacyDel(r) \/ BlacklistAccess(r)
      PROVE  Still
  BY <1>3 DEF FindSession, FindUser, LegacyGet, CheckMarker, LoadUser, Lookup, DeleteLookup,
     FindAll, Mark, AuditReuse, EraseUser, Fail, LegacyDel, BlacklistAccess, mongo
<1>4. ASSUME NEW r \in Reqs, Rotate(r), ~Hands(r) PROVE Still
  BY <1>4 DEF Hands, Rotate
<1>5. ASSUME NEW r \in Reqs, Continue(r) PROVE Still \/ Hands(r) \/ Revoke(r) \/ RevokeMany(r) \/ Purge(r)
  BY <1>3, <1>4, <1>5 DEF Continue, Hands
<1> HIDE DEF Still
<1>6. Still \/ \E r \in Reqs : Hands(r) \/ Revoke(r) \/ RevokeMany(r) \/ Purge(r)
  BY <1>1, <1>2, <1>3, <1>5 DEF Next, Still
<1> QED
  BY <1>6 DEF Still

LEMMA QuietSteps ==
  ASSUME TypeInv, [Next]_vars, ~\E r \in Reqs : Hands(r)
  PROVE  Quiet
PROOF
<1> USE DEF TypeInv
<1>1. CASE UNCHANGED <<docs, sess, tokens>>
  BY <1>1 DEF Quiet
<1>2. ASSUME NEW r \in Reqs, Revoke(r) PROVE Quiet
  BY <1>2 DEF Revoke, Quiet, StoresOK, Session
<1>3. ASSUME NEW r \in Reqs, RevokeMany(r) PROVE Quiet
  BY <1>3 DEF RevokeMany, Quiet, StoresOK, Session
<1>4. ASSUME NEW r \in Reqs, Purge(r) PROVE Quiet
  BY <1>4 DEF Purge, Quiet, StoresOK
<1> QED
  BY <1>1, <1>2, <1>3, <1>4, StepCases

\* What the two actions that hand out tokens do to the token stores.
Handed(s, t, parent) ==
    /\ s \in Sids /\ t \in Tokens \ issued
    /\ issued' = issued \cup {t}
    /\ tok'[t].sid = s /\ tok'[t].parent = parent
    /\ \A x \in Tokens \ {t} : tok'[x] = tok[x]
    /\ \A a \in access' \ access : a.sid = s
    /\ docs' = docs \cup {s}
    /\ sess'[s].hash = t
    /\ sess'[s].revokedAt = IF s \in docs THEN sess[s].revokedAt ELSE 0
    /\ \A x \in Sids \ {s} : sess'[x] = sess[x]

LEMMA HandsOut ==
  ASSUME TypeInv, NEW r \in Reqs, Hands(r)
  PROVE  \E s \in Sids, t \in Tokens \ issued :
            /\ Handed(s, t, req[r].tok)
            /\ \/ CreateSession(r) /\ Unused(s)
               \/ Rotate(r) /\ s = req[r].sid /\ s \in docs /\ sess[s].hash = req[r].tok
PROOF
<1> USE DEF TypeInv
<1>1. CASE CreateSession(r)
  <2>1. PICK s \in Sids, t \in Tokens \ issued :
          /\ Unused(s)
          /\ docs' = docs \cup {s}
          /\ sess' = [sess EXCEPT ![s] =
                [user |-> req[r].user, hash |-> t, born |-> now, active |-> req[r].at,
                 expires |-> req[r].at + RefreshTTL, revokedAt |-> 0]]
          /\ GiveTokens(req[r].user, s, t, req[r].at, req[r].tok)
    BY <1>1 DEF CreateSession
  <2>2. Handed(s, t, req[r].tok)
    BY <2>1 DEF Handed, GiveTokens, StoresOK, Unused
  <2> QED
    BY <1>1, <2>1, <2>2
<1>2. CASE Rotate(r) /\ RotateMatches(req[r].sid, req[r].tok)
  <2> DEFINE s == req[r].sid
  <2>1. s \in docs /\ s \in Sids /\ sess[s].hash = req[r].tok /\ sess[s] \in Session
    BY <1>2 DEF RotateMatches, StoresOK
  <2>2. PICK t \in Tokens \ issued :
          /\ sess' = [sess EXCEPT ![s].hash = t, ![s].active = req[r].at,
                                  ![s].expires = req[r].at + RefreshTTL]
          /\ GiveTokens(req[r].user, s, t, req[r].at, req[r].tok)
    BY <1>2 DEF Rotate
  <2>3. /\ sess'[s].hash = t /\ sess'[s].revokedAt = sess[s].revokedAt
        /\ \A x \in Sids \ {s} : sess'[x] = sess[x]
    BY <2>1, <2>2 DEF StoresOK, Session
  <2>4. docs' = docs
    BY <1>2 DEF Rotate
  <2>5. /\ issued' = issued \cup {t}
        /\ tok'[t].sid = s /\ tok'[t].parent = req[r].tok
        /\ \A x \in Tokens \ {t} : tok'[x] = tok[x]
    BY <2>1, <2>2 DEF GiveTokens, StoresOK
  <2>6. \A a \in access' \ access : a.sid = s
    BY <2>2 DEF GiveTokens
  <2>7. Handed(s, t, req[r].tok)
    <3> HIDE DEF s
    <3> QED BY <2>1, <2>3, <2>4, <2>5, <2>6 DEF Handed
  <2> QED
    BY <1>2, <2>1, <2>7
<1> QED
  BY <1>1, <1>2 DEF Hands

LEMMA NextRedeemInv == TypeInv /\ RedeemInv /\ [Next]_vars => RedeemInv'
PROOF
<1> SUFFICES ASSUME TypeInv, RedeemInv, [Next]_vars PROVE RedeemInv'
  OBVIOUS
<1>1. \A r \in Reqs : TokenHeld(req'[r])
  <2>1. CASE UNCHANGED vars
    BY <2>1 DEF vars, RedeemInv
  <2> QED
    BY <2>1, NextTokenHeld DEF RedeemInv
<1>2. CASE Quiet
  BY <1>1, <1>2 DEF Quiet, tokens, RedeemInv, CurrentUnspent, LegacyUnbound, ParentsIssued,
     OneRedemption
<1>3. ASSUME NEW r \in Reqs, Hands(r) PROVE RedeemInv'
  <2> DEFINE p == req[r].tok
  <2>1. PICK s \in Sids, t \in Tokens \ issued :
          /\ Handed(s, t, p)
          /\ \/ CreateSession(r) /\ Unused(s)
             \/ Rotate(r) /\ s = req[r].sid /\ s \in docs /\ sess[s].hash = p
    BY <1>3, HandsOut
  <2>2. /\ issued \subseteq Tokens /\ docs \subseteq Sids /\ LegacyTokens \subseteq Tokens
        /\ None \notin Tokens
    BY LegacyAssumption, NullAssumption DEF TypeInv, StoresOK
  <2>3. /\ p \in LegacyTokens \cup {None}
           \/ (p \in issued \ LegacyTokens /\ \A x \in issued : tok[x].parent # p)
        /\ \A x \in docs \ {s} : sess[x].hash # p
    <3>1. CASE CreateSession(r)
      <4>1. p \in LegacyTokens \cup {None}
        BY <3>1 DEF RedeemInv, TokenHeld, CreateSession, At
      <4> QED
        BY <2>2, <4>1, NullAssumption DEF RedeemInv, CurrentUnspent, LegacyUnbound
    <3>2. CASE s \in docs /\ sess[s].hash = p
      BY <2>2, <3>2, NullAssumption DEF RedeemInv, CurrentUnspent, LegacyUnbound
    <3> QED
      BY <2>1, <3>1, <3>2
  <2>4. \A x \in issued : tok'[x] = tok[x] /\ x # t
    BY <2>1, <2>2 DEF Handed
  <2>5. CurrentUnspent'
    <3> SUFFICES ASSUME NEW x \in docs'
                 PROVE  /\ sess'[x].hash \in issued'
                        /\ tok'[sess'[x].hash].sid = x
                        /\ \A y \in issued' : tok'[y].parent # sess'[x].hash
      BY DEF CurrentUnspent
    <3>1. CASE x = s
      BY <2>1, <2>2, <2>3, <2>4, <3>1 DEF Handed, RedeemInv, ParentsIssued, LegacyUnbound
    <3>2. CASE x \in docs \ {s}
      BY <2>1, <2>2, <2>3, <2>4, <3>2 DEF Handed, RedeemInv, CurrentUnspent
    <3> QED
      BY <2>1, <3>1, <3>2 DEF Handed
  <2>6. LegacyUnbound'
    BY <2>1, <2>4 DEF Handed, RedeemInv, LegacyUnbound
  <2>7. ParentsIssued'
    BY <2>1, <2>3, <2>4 DEF Handed, RedeemInv, ParentsIssued, LegacyUnbound
  <2>8. OneRedemption'
    BY <2>1, <2>3, <2>4 DEF Handed, RedeemInv, OneRedemption
  <2> QED
    BY <1>1, <2>5, <2>6, <2>7, <2>8 DEF RedeemInv
<1> QED
  BY <1>2, <1>3, QuietSteps

\* Two concurrent refreshes cannot both succeed: no refresh token of a session
\* is ever exchanged twice (session.repository.js:33-39).
THEOREM RedeemedOnce == Spec => []OneRedemption
PROOF
<1>1. RedeemInv => OneRedemption
  BY DEF RedeemInv
<1> QED
  BY <1>1, InitTypeInv, NextTypeInv, InitRedeemInv, NextRedeemInv, PTL DEF Spec

-----------------------------------------------------------------------------
(* The end of a session is final.                                          *)

\* A refresh gets past the lookup only for a session it found alive.
LEMMA SealedRequests ==
  ASSUME TypeInv, NEW s \in Sids, Sealed(s), NEW r \in Reqs, Start(r) \/ Continue(r) \/ Fail(r),
         RedeemInv, req'[r].sid = s
  PROVE  req'[r].pc \notin {"user", "rotate"}
PROOF
<1> USE DEF TypeInv
<1>1. req[r] \in Request /\ req \in [Reqs -> Request]
  BY DEF ReqsOK, RequestOK
<1>2. req[r].sid = s => req[r].pc \notin {"user", "rotate"}
  BY DEF Sealed
<1>3. ASSUME req'[r] = Idle PROVE req'[r].pc \notin {"user", "rotate"}
  BY <1>3 DEF Idle
<1>4. CASE \/ \E u \in Users : LoginRequest(r, u)
           \/ \E t \in issued : RefreshRequest(r, t)
           \/ SweepRequest(r)
  BY ZenonT(60), <1>1, <1>4 DEF LoginRequest, RefreshRequest, SweepRequest, Begin, Idle
<1>5. ASSUME NEW op, NEW a, NEW x, NEW t, AuthRequest(r, a, op, x, t)
      PROVE  req'[r].pc \notin {"user", "rotate"}
  BY <1>1, <1>5 DEF AuthRequest, Begin, Idle
<1>6. CASE FindSession(r)
  <2>1. req'[r].pc = "user" => s \in docs /\ ~Revoked(s)
    BY <1>1, <1>6 DEF FindSession, Goto, Finish, Idle, Request
  <2>2. CASE req'[r].pc = "user"
    <3>1. Revoked(s) \/ s \notin docs
      BY DEF Sealed
    <3> QED
      BY <2>1, <2>2, <3>1
  <2>3. req'[r].pc # "rotate"
    BY <1>1, <1>6 DEF FindSession, Goto, Finish, Idle, Request
  <2> QED
    BY <2>2, <2>3
<1>7. CASE FindUser(r)
  <2>1. req'[r].sid = req[r].sid
    BY <1>1, <1>7 DEF FindUser, Goto, Request
  <2> QED
    BY <1>2, <1>7, <2>1 DEF FindUser, At
<1>8. ASSUME NEW step \in Steps \ {"user", "rotate"}, Goto(r, step)
      PROVE  req'[r].pc \notin {"user", "rotate"}
  BY <1>1, <1>8 DEF Goto
<1>9. CASE CreateSession(r) \/ Rotate(r) \/ AuditReuse(r) \/ EraseUser(r) \/ Purge(r) \/ Fail(r)
  BY <1>1, <1>3, <1>9 DEF CreateSession, Rotate, AuditReuse, EraseUser, Purge, Fail, Finish
<1>10. CASE CheckMarker(r) \/ BlacklistAccess(r) \/ Lookup(r) \/ DeleteLookup(r) \/ LegacyGet(r)
  BY <1>1, <1>3, <1>8, <1>10 DEF CheckMarker, BlacklistAccess, Lookup, DeleteLookup, LegacyGet,
     Finish, Steps
<1>11. CASE Revoke(r) \/ RevokeMany(r) \/ LegacyDel(r)
  <2>1. CASE Revoke(r)
    BY <1>1, <2>1 DEF Revoke, Request
  <2>2. CASE RevokeMany(r)
    BY <1>8, <2>2 DEF RevokeMany, Steps
  <2>3. CASE LegacyDel(r)
    BY <1>1, <1>3, <2>3 DEF LegacyDel, Finish, Request
  <2> QED
    BY <1>11, <2>1, <2>2, <2>3
<1>12. CASE LoadUser(r)
  <2>1. HandlerStep(req[r].op) \in {"lookup", "blacklist", "delete"}
    BY <1>12 DEF ReqsOK, RequestOK, LoadUser, At, HandlerStep
  <2>2. req'[r] = Idle \/ req'[r].pc = HandlerStep(req[r].op)
    BY <1>1, <1>12 DEF LoadUser, Finish, Request
  <2> QED
    BY <1>3, <2>1, <2>2
<1>13. ASSUME NEW rest PROVE Marking(req[r], rest).pc \notin {"user", "rotate"}
  <2>1. AfterMarks(req[r].op) \in {"idle", "audit", "erase", "purge"}
    BY <1>1, AfterMarksOK DEF Request
  <2> QED
    BY <1>1, <2>1 DEF Marking, Idle, Request
<1>14. CASE FindAll(r)
  BY <1>1, <1>13, <1>14 DEF FindAll
<1>15. CASE Mark(r)
  <2>1. \E rest : req' = [req EXCEPT ![r] = Marking(req[r], rest)]
    BY <1>15 DEF Mark
  <2> QED
    BY <1>1, <1>13, <2>1
<1>16. CASE Start(r)
  BY <1>4, <1>5, <1>16 DEF Start, LogoutRequest
<1>17. CASE Continue(r)
  BY <1>6, <1>7, <1>9, <1>10, <1>11, <1>12, <1>14, <1>15, <1>17 DEF Continue
<1> QED
  BY <1>9, <1>16, <1>17

LEMMA SealedStep ==
  ASSUME TypeInv, RedeemInv, [Next]_vars, NEW s \in Sids, Sealed(s)
  PROVE  /\ Sealed(s)'
         /\ \A t \in issued' \ issued : tok'[t].sid # s
         /\ \A a \in access' \ access : a.sid # s
PROOF
<1> USE DEF TypeInv
<1>1. \A r \in Reqs : req'[r].sid = s => req'[r].pc \notin {"user", "rotate"}
  <2>1. CASE UNCHANGED <<req>>
    BY <2>1 DEF Sealed
  <2>2. ASSUME NEW r \in Reqs, Start(r) \/ Continue(r) \/ Fail(r)
        PROVE  \A x \in Reqs : req'[x].sid = s => req'[x].pc \notin {"user", "rotate"}
    <3>1. \A x \in Reqs \ {r} : req'[x] = req[x]
      BY <2>2, OthersUntouched
    <3> QED
      BY <2>2, <3>1, SealedRequests DEF Sealed
  <2> QED
    BY <2>1, <2>2 DEF Next, Tick, vars
<1>2. s \in docs => s \in docs /\ sess[s].hash \in issued /\ tok[sess[s].hash].sid = s
  BY DEF RedeemInv, CurrentUnspent
<1>3. CASE Quiet
  <2>1. Revoked(s)' \/ (s \notin docs' /\ \E t \in issued' : tok'[t].sid = s)
    BY <1>2, <1>3 DEF Quiet, tokens, Sealed, Revoked
  <2> QED
    BY <1>1, <1>3, <2>1 DEF Quiet, tokens, Sealed
<1>4. ASSUME NEW r \in Reqs, Hands(r)
      PROVE  /\ Sealed(s)'
             /\ \A t \in issued' \ issued : tok'[t].sid # s
             /\ \A a \in access' \ access : a.sid # s
  <2>1. PICK x \in Sids, t \in Tokens \ issued :
          /\ Handed(x, t, req[r].tok)
          /\ \/ CreateSession(r) /\ Unused(x)
             \/ Rotate(r) /\ x = req[r].sid /\ x \in docs /\ sess[x].hash = req[r].tok
    BY <1>4, HandsOut
  <2>2. x # s
    <3>1. CASE Unused(x)
      BY <1>2, <3>1 DEF Unused, Sealed, Revoked
    <3>2. CASE Rotate(r) /\ x = req[r].sid
      BY <3>2 DEF Rotate, At, Sealed
    <3> QED
      BY <2>1, <3>1, <3>2
  <2>3. /\ s \in docs' <=> s \in docs
        /\ sess'[s] = sess[s]
        /\ \A y \in issued : y \in issued' /\ tok'[y] = tok[y]
    BY <2>1, <2>2 DEF Handed, StoresOK
  <2>4. Revoked(s)' \/ (s \notin docs' /\ \E y \in issued' : tok'[y].sid = s)
    BY <2>3 DEF Sealed, Revoked
  <2> QED
    BY <1>1, <2>1, <2>2, <2>4 DEF Handed, Sealed
<1> QED
  BY <1>3, <1>4, QuietSteps

\* Once a session is revoked or removed and no refresh is past its lookup, it
\* stays so and nobody obtains a token for it (session.model.js:9-10).
THEOREM EndIsFinal == Spec => SealedForGood
PROOF
<1>1. TypeInv /\ RedeemInv /\ [Next]_vars =>
        [\A s \in Sids : Sealed(s) =>
          /\ Sealed(s)'
          /\ \A t \in issued' \ issued : tok'[t].sid # s
          /\ \A a \in access' \ access : a.sid # s]_vars
  BY SealedStep
<1> QED
  BY <1>1, InitTypeInv, NextTypeInv, InitRedeemInv, NextRedeemInv, PTL DEF Spec, SealedForGood

-----------------------------------------------------------------------------
(* What a step may make of its request.                                    *)

\* Which operation a handler's step belongs to.
RouteOK(q) ==
    /\ q.pc \in {"find", "user", "rotate"} => q.op = "refresh"
    /\ q.pc = "blacklist" => q.op = "logout"
    /\ q.pc \in {"lookup", "revoke"} => q.op \notin {"reuse", "delete"}

RoutesOK == \A r \in Reqs : RouteOK(req[r])

\* The time and the token a request carries, and how it comes to the steps the
\* invariants below look at.
Carried(r) ==
    /\ req'[r].at \in {0, req[r].at, now}
    /\ req'[r].tok \in issued \cup {None, req[r].tok}
    /\ req'[r].pc = "rotate" => req'[r].at = now

Migrates(r) ==
    /\ req'[r].pc = "legacyTake" =>
          LegacyGet(r) /\ req'[r].user = req[r].user /\ legacy[req[r].user] = req[r].tok
    /\ req'[r].pc = "create" =>
          req'[r].tok = None \/ (req[r].pc = "legacyTake" /\ req'[r].user = req[r].user)

Bulk(q) == q.op \in {"reuse", "delete"}

Retires(r) ==
    Bulk(req'[r]) /\ req'[r].pc \in {"revokeMany", "mark", "audit", "erase"} =>
      /\ req'[r].user = req[r].user /\ req'[r].at = req[r].at /\ req'[r].op = req[r].op
      /\ \/ FindAll(r) /\ req'[r].pc = "revokeMany" /\ req'[r].ids = ToRevoke(r)
         \/ FindAll(r) /\ ToRevoke(r) = {}
         \/ RevokeMany(r)
         \/ Mark(r)

Moved(r) == RouteOK(req'[r]) /\ Carried(r) /\ Migrates(r) /\ Retires(r)

LEMMA MovedToIdle ==
  ASSUME NEW r \in Reqs, req'[r] = Idle
  PROVE  Moved(r)
PROOF
  BY DEF Moved, RouteOK, Carried, Migrates, Bulk, Retires, Idle

LEMMA MovedByStart ==
  ASSUME TypeInv, NEW r \in Reqs, Start(r)
  PROVE  Moved(r)
PROOF
<1> USE DEF TypeInv, ReqsOK, Idle, Begin
<1>1. ASSUME NEW u \in Users, LoginRequest(r, u) PROVE Moved(r)
  <2>1. req'[r] = [Idle EXCEPT !.pc = "create", !.op = "login", !.user = u, !.at = now]
    BY <1>1 DEF LoginRequest
  <2> QED
    BY <2>1 DEF Moved, RouteOK, Carried, Migrates, Bulk, Retires
<1>2. ASSUME NEW t \in issued, RefreshRequest(r, t) PROVE Moved(r)
  <2>1. req'[r] = [Idle EXCEPT !.pc = "find", !.op = "refresh", !.tok = t,
                   !.sid = tok[t].sid, !.user = tok[t].user, !.at = now]
    BY <1>2 DEF RefreshRequest
  <2> QED
    BY <2>1 DEF Moved, RouteOK, Carried, Migrates, Bulk, Retires
<1>3. ASSUME NEW op \in {"revoke", "logout", "delete"}, NEW a, NEW s, NEW t \in issued \cup {None},
             AuthRequest(r, a, op, s, t)
      PROVE  Moved(r)
  <2>1. req'[r] = [Idle EXCEPT !.pc = "marker", !.op = op, !.acc = a,
                   !.sid = s, !.tok = t, !.at = now]
    BY <1>3 DEF AuthRequest
  <2> QED
    BY <2>1 DEF Moved, RouteOK, Carried, Migrates, Bulk, Retires
<1>4. ASSUME SweepRequest(r) PROVE Moved(r)
  <2> DEFINE found == {s \in docs : ~Revoked(s) /\ IdleSince(s, now)}
             step == IF found = {} THEN "purge" ELSE "revokeMany"
  <2>1. req'[r] = [Idle EXCEPT !.op = "sweep", !.at = now, !.ids = found, !.pc = step]
    BY <1>4 DEF SweepRequest
  <2>2. step \in {"purge", "revokeMany"}
    OBVIOUS
  <2> HIDE DEF found, step
  <2> QED
    BY <2>1, <2>2 DEF Moved, RouteOK, Carried, Migrates, Bulk, Retires
<1>5. CASE \E a \in access, s \in Sids : AuthRequest(r, a, "revoke", s, None)
  BY <1>3, <1>5
<1>6. CASE \E a \in access, t \in issued : LogoutRequest(r, a, t)
  BY <1>3, <1>6 DEF LogoutRequest
<1>7. CASE \E a \in access : AuthRequest(r, a, "delete", None, None)
  BY <1>3, <1>7
<1> QED
  BY <1>1, <1>2, <1>4, <1>5, <1>6, <1>7 DEF Start

\* Steps that only move on to the next one.
LEMMA MovedByGoto ==
  ASSUME TypeInv, RoutesOK, NEW r \in Reqs,
         NEW step \in {"legacyGet", "legacyDrop", "account", "lookup", "revoke", "findAll", "mark"},
         Goto(r, step),
         step = "lookup" => req[r].op \notin {"reuse", "delete"},
         step = "revoke" => req[r].pc = "lookup",
         step = "mark" => RevokeMany(r)
  PROVE  Moved(r)
PROOF
<1>1. req'[r] = [req[r] EXCEPT !.pc = step]
  BY DEF Goto, TypeInv, ReqsOK
<1>2. req[r] \in Request /\ RouteOK(req[r])
  BY DEF TypeInv, ReqsOK, RoutesOK
<1> QED
  BY <1>1, <1>2 DEF Moved, RouteOK, Carried, Migrates, Bulk, Retires, Request

LEMMA MovedByContinue ==
  ASSUME TypeInv, RoutesOK, NEW r \in Reqs, Continue(r)
  PROVE  Moved(r)
PROOF
<1>1. req[r] \in Request /\ req \in [Reqs -> Request] /\ RouteOK(req[r]) /\ RequestOK(req[r])
  BY DEF TypeInv, ReqsOK, RoutesOK
<1>2. Finish(r) => req'[r] = Idle
  BY <1>1 DEF Finish
<1>3. CASE CreateSession(r) \/ Rotate(r) \/ AuditReuse(r) \/ EraseUser(r) \/ Purge(r)
  BY <1>2, <1>3, MovedToIdle DEF CreateSession, Rotate, AuditReuse, EraseUser, Purge
<1>4. CASE FindSession(r)
  <2>1. CASE req'[r] = [req[r] EXCEPT !.pc = "user", !.hash = sess[req[r].sid].hash,
                                      !.user = sess[req[r].sid].user]
    BY <1>1, <1>4, <2>1 DEF FindSession, At, Moved, RouteOK, Carried, Migrates, Bulk, Retires, Request
  <2> QED
    BY <1>1, <1>2, <1>4, <2>1, MovedToIdle, MovedByGoto DEF FindSession
<1>5. CASE FindUser(r)
  <2>1. CASE Goto(r, "lookup")
    BY <1>1, <1>5, <2>1, MovedByGoto DEF FindUser, At, RouteOK
  <2>2. CASE req'[r] = [req[r] EXCEPT !.pc = "findAll", !.op = "reuse"]
    BY <1>1, <2>2 DEF Moved, RouteOK, Carried, Migrates, Bulk, Retires, Request
  <2>3. CASE req'[r] = [req[r] EXCEPT !.pc = "rotate", !.at = now]
    BY <1>1, <1>5, <2>3 DEF FindUser, At, Moved, RouteOK, Carried, Migrates, Bulk, Retires, Request
  <2> QED
    BY <1>1, <1>5, <2>1, <2>2, <2>3 DEF FindUser
<1>6. CASE LegacyGet(r)
  <2>1. CASE legacy[req[r].user] = req[r].tok /\ Goto(r, "legacyTake")
    <3>1. req'[r] = [req[r] EXCEPT !.pc = "legacyTake"]
      BY <1>1, <2>1 DEF Goto
    <3> QED
      BY <1>1, <1>6, <2>1, <3>1 DEF Moved, RouteOK, Carried, Migrates, Bulk, Retires, Request
  <2> QED
    BY <1>1, <1>2, <1>6, <2>1, MovedToIdle, MovedByGoto DEF LegacyGet
<1>7. CASE LegacyDel(r)
  <2>1. CASE At(r, "legacyTake") /\ req'[r] = [req[r] EXCEPT !.pc = "create", !.at = now]
    BY <1>1, <2>1 DEF At, Moved, RouteOK, Carried, Migrates, Bulk, Retires, Request
  <2> QED
    BY <1>1, <1>2, <1>7, <2>1, MovedToIdle DEF LegacyDel
<1>8. CASE CheckMarker(r) \/ BlacklistAccess(r) \/ Lookup(r) \/ DeleteLookup(r)
  <2>1. CASE BlacklistAccess(r)
    BY <1>1, <1>2, <2>1, MovedToIdle, MovedByGoto DEF BlacklistAccess, At, RouteOK
  <2> QED
    BY <1>2, <1>8, <2>1, MovedToIdle, MovedByGoto DEF CheckMarker, Lookup, DeleteLookup, At
<1>9. CASE LoadUser(r)
  <2>1. CASE req'[r] = [req[r] EXCEPT !.user = req[r].acc.user, !.pc = HandlerStep(req[r].op)]
    <3>1. req[r].op \in {"revoke", "logout", "delete"}
      BY <1>1, <1>9 DEF LoadUser, At, RequestOK
    <3>2. /\ HandlerStep("revoke") = "lookup" /\ HandlerStep("logout") = "blacklist"
          /\ HandlerStep("delete") = "delete"
      BY DEF HandlerStep
    <3> QED
      BY <1>1, <2>1, <3>1, <3>2 DEF Moved, RouteOK, Carried, Migrates, Bulk, Retires, Request
  <2> QED
    BY <1>1, <1>2, <1>9, <2>1, MovedToIdle DEF LoadUser
<1>10. CASE Revoke(r)
  <2>1. req'[r] = [req[r] EXCEPT !.pc = "mark", !.ids = {req[r].sid}] /\ req[r].pc = "revoke"
    BY <1>1, <1>10 DEF Revoke, At
  <2> QED
    BY <1>1, <2>1 DEF Moved, RouteOK, Carried, Migrates, Bulk, Retires, Request
<1>11. CASE RevokeMany(r)
  BY <1>11, MovedByGoto DEF RevokeMany
<1>12. ASSUME NEW rest, Mark(r) \/ (FindAll(r) /\ ToRevoke(r) = {}), req'[r] = Marking(req[r], rest)
       PROVE  Moved(r)
  <2>1. AfterMarks(req[r].op) \in {"idle", "audit", "erase", "purge"}
    BY <1>1, AfterMarksOK DEF Request
  <2>2. CASE req'[r] = Idle
    BY <2>2, MovedToIdle
  <2>3. ASSUME NEW step \in {"mark", "audit", "erase", "purge"}, NEW ids,
               req'[r] = [req[r] EXCEPT !.pc = step, !.ids = ids]
        PROVE  Moved(r)
    BY <1>1, <1>12, <2>3 DEF Moved, RouteOK, Carried, Migrates, Bulk, Retires, Request
  <2> QED
    BY <1>12, <2>1, <2>2, <2>3 DEF Marking
<1>13. CASE Mark(r)
  <2>1. \E rest : req' = [req EXCEPT ![r] = Marking(req[r], rest)]
    BY <1>13 DEF Mark
  <2> QED
    BY <1>1, <1>12, <1>13, <2>1
<1>14. CASE FindAll(r)
  <2>1. CASE ToRevoke(r) = {}
    BY <1>1, <1>12, <1>14, <2>1 DEF FindAll
  <2>2. CASE ToRevoke(r) # {}
    <3>1. req'[r] = [req[r] EXCEPT !.pc = "revokeMany", !.ids = ToRevoke(r)]
      BY <1>1, <1>14, <2>2 DEF FindAll
    <3> HIDE DEF ToRevoke
    <3> QED
      BY <1>1, <1>14, <3>1 DEF Moved, RouteOK, Carried, Migrates, Bulk, Retires, Request
  <2> QED
    BY <2>1, <2>2
<1> QED
  BY <1>3, <1>4, <1>5, <1>6, <1>7, <1>8, <1>9, <1>10, <1>11, <1>13, <1>14 DEF Continue

LEMMA MovedByStep ==
  ASSUME TypeInv, RoutesOK, NEW r \in Reqs, Start(r) \/ Continue(r) \/ Fail(r)
  PROVE  Moved(r)
PROOF
<1>1. CASE Fail(r)
  BY <1>1, MovedToIdle DEF Fail, Finish, TypeInv, ReqsOK
<1> QED
  BY <1>1, MovedByStart, MovedByContinue

LEMMA NextRoutesOK == TypeInv /\ RoutesOK /\ [Next]_vars => RoutesOK'
PROOF
<1> SUFFICES ASSUME TypeInv, RoutesOK, [Next]_vars PROVE RoutesOK'
  OBVIOUS
<1>1. CASE UNCHANGED req
  BY <1>1 DEF RoutesOK
<1>2. ASSUME NEW r \in Reqs, Start(r) \/ Continue(r) \/ Fail(r) PROVE RoutesOK'
  BY <1>2, MovedByStep, OthersUntouched DEF RoutesOK, Moved
<1> QED
  BY <1>1, <1>2 DEF Next, Tick, vars

-----------------------------------------------------------------------------
(* The migration of a legacy token ends.                                   *)

\* A legacy token is bound to no session, so no rotation exchanges one.
LEMMA MigratedStep ==
  ASSUME TypeInv, RedeemInv, RoutesOK, [Next]_vars, NEW u \in Users, Migrated(u)
  PROVE  /\ Migrated(u)'
         /\ \A t \in issued' \ issued : tok'[t].user = u => tok'[t].parent \notin LegacyTokens
PROOF
<1>1. LegacyTokens \subseteq issued /\ None \notin LegacyTokens
  BY NullAssumption, LegacyAssumption DEF RedeemInv, LegacyUnbound
<1>2. legacy' = legacy \/ \E r \in Reqs : LegacyDel(r)
  <2>1. ASSUME NEW r \in Reqs, Start(r) \/ Fail(r) PROVE legacy' = legacy
    BY <2>1 DEF Start, Fail, redis, LoginRequest, RefreshRequest, AuthRequest, LogoutRequest,
       SweepRequest
  <2>2. ASSUME NEW r \in Reqs, Continue(r) PROVE legacy' = legacy \/ LegacyDel(r)
    BY <2>2 DEF Continue, redis, CreateSession, FindSession, FindUser, Rotate, LegacyGet,
       CheckMarker, LoadUser, BlacklistAccess, Lookup, Revoke, DeleteLookup, FindAll, RevokeMany,
       Mark, AuditReuse, EraseUser, Purge
  <2>3. CASE Tick \/ UNCHANGED vars
    BY <2>3 DEF Tick, vars, redis
  <2> QED
    BY <2>1, <2>2, <2>3 DEF Next
<1>3. legacy'[u] = None
  BY <1>2 DEF Migrated, LegacyDel, TypeInv, StoresOK
<1>4. ASSUME NEW x \in Reqs, req'[x].user = u
      PROVE  req'[x].pc # "legacyTake" /\ (req'[x].pc = "create" => req'[x].tok = None)
  <2>1. CASE req'[x] = req[x]
    BY <1>4, <2>1 DEF Migrated
  <2>2. ASSUME Start(x) \/ Continue(x) \/ Fail(x) PROVE Migrates(x)
    BY <2>2, MovedByStep DEF Moved
  <2>3. ASSUME LegacyGet(x), req'[x].user = req[x].user, legacy[req[x].user] = req[x].tok
        PROVE  FALSE
    BY <1>4, <2>3 DEF Migrated, RedeemInv, TokenHeld, LegacyGet, At
  <2>4. CASE Migrates(x)
    BY <1>4, <2>3, <2>4 DEF Migrates, Migrated
  <2> QED
    BY <2>1, <2>2, <2>4, OthersUntouched DEF Next, Tick, vars
<1>5. ASSUME NEW t \in issued' \ issued, tok'[t].user = u PROVE tok'[t].parent \notin LegacyTokens
  <2>1. PICK r \in Reqs : Hands(r)
    BY <1>5, QuietSteps DEF Quiet, tokens
  <2>2. PICK s \in Sids, y \in Tokens \ issued :
          /\ Handed(s, y, req[r].tok)
          /\ \/ CreateSession(r) /\ Unused(s)
             \/ Rotate(r) /\ s = req[r].sid /\ s \in docs /\ sess[s].hash = req[r].tok
    BY <2>1, HandsOut
  <2>3. t = y /\ tok'[t].parent = req[r].tok
    BY <1>5, <2>2 DEF Handed
  <2>4. CASE CreateSession(r)
    <3>1. tok'[t].user = req[r].user /\ At(r, "create")
      BY <1>5, <2>4, <2>3 DEF CreateSession, GiveTokens, TypeInv, StoresOK
    <3>2. req[r].tok = None
      BY <1>5, <3>1 DEF Migrated, At
    <3> QED
      BY <1>1, <2>3, <3>2
  <2>5. CASE s \in docs /\ sess[s].hash = req[r].tok
    <3>1. tok[req[r].tok].sid = s /\ s # None
      BY <2>5, NullAssumption DEF RedeemInv, CurrentUnspent
    <3> QED
      BY <2>3, <3>1 DEF RedeemInv, LegacyUnbound
  <2> QED
    BY <2>2, <2>4, <2>5
<1> QED
  BY <1>3, <1>4, <1>5 DEF Migrated

LEMMA InitRoutesOK == Init => RoutesOK
PROOF
  BY DEF Init, RoutesOK, RouteOK, Idle

\* A legacy entry, once dropped or migrated, is gone for good: no later request
\* obtains a session from an old token of that user (auth.service.js:69-74).
THEOREM MigrationIsFinal == Spec => MigrationEnds
PROOF
<1>1. TypeInv /\ RedeemInv /\ RoutesOK /\ [Next]_vars =>
        [\A u \in Users : Migrated(u) =>
          /\ Migrated(u)'
          /\ \A t \in issued' \ issued :
                tok'[t].user = u => tok'[t].parent \notin LegacyTokens]_vars
  BY MigratedStep
<1> QED
  BY <1>1, InitTypeInv, NextTypeInv, InitRedeemInv, NextRedeemInv, InitRoutesOK, NextRoutesOK, PTL
  DEF Spec, MigrationEnds

-----------------------------------------------------------------------------
(* Time: what is stamped lies in the past, and nothing outlives its session. *)

\* The clock never runs behind a time a request or a session was stamped with.
Stamped ==
    /\ \A r \in Reqs : req[r].at <= now /\ req[r].tok \in issued \cup {None}
    /\ \A s \in Sids : sess[s].revokedAt <= now
    /\ \A s \in docs : sess[s].expires <= now + RefreshTTL

\* A rotation that still finds the hash it compares prolongs the session.
Prolongs(q) ==
    q.pc = "rotate" /\ q.sid \in docs /\ sess[q.sid].hash = q.tok
    => sess[q.sid].expires <= q.at + RefreshTTL

\* A token lives no longer than its session's document, and a session whose
\* document is gone has only expired tokens.
Outlived(t) ==
    LET s == tok[t].sid IN
    s # None => IF s \in docs THEN tok[t].exp <= sess[s].expires ELSE tok[t].exp <= now

ClockInv ==
    /\ Stamped
    /\ \A r \in Reqs : Prolongs(req[r])
    /\ \A t \in issued : Outlived(t)

LEMMA InitClockInv == Init => ClockInv
PROOF
<1> SUFFICES ASSUME Init PROVE ClockInv
  OBVIOUS
<1>1. Stamped
  BY DEF Init, Stamped, NoSession, Idle
<1>2. \A r \in Reqs : Prolongs(req[r])
  BY DEF Init, Prolongs, Idle
<1>3. \A t \in issued : Outlived(t)
  BY InitRedeemInv DEF Init, RedeemInv, LegacyUnbound, Outlived
<1> QED
  BY <1>1, <1>2, <1>3 DEF ClockInv

\* Only the clock's own action moves it, and only forward.
LEMMA ClockGrows ==
  ASSUME TypeInv, [Next]_vars
  PROVE  /\ now' \in Nat /\ now' >= now
         /\ \A r \in Reqs : Start(r) \/ Continue(r) \/ Fail(r) => now' = now
PROOF
<1>1. ASSUME NEW r \in Reqs, Start(r) \/ Continue(r) \/ Fail(r) PROVE now' = now
  BY <1>1 DEF Start, Continue, Fail, LoginRequest, RefreshRequest, AuthRequest,
     LogoutRequest, SweepRequest, CreateSession, FindSession, FindUser, Rotate, LegacyGet, LegacyDel,
     CheckMarker, LoadUser, BlacklistAccess, Lookup, Revoke, DeleteLookup, FindAll, RevokeMany,
     Mark, AuditReuse, EraseUser, Purge
<1>2. now \in Nat
  BY DEF TypeInv, StoresOK
<1>4. CASE \E r \in Reqs : Start(r) \/ Continue(r) \/ Fail(r)
  <2>1. now' = now
    BY <1>1, <1>4
  <2> QED
    BY <1>1, <1>2, <2>1
<1>5. CASE Tick \/ UNCHANGED vars
  <2>1. now' = now \/ now' = now + 1
    BY <1>5 DEF Tick, vars
  <2> QED
    BY <1>1, <1>2, <2>1
<1> QED
  BY <1>4, <1>5 DEF Next

\* A step that hands out nothing leaves the owner and the times of a session
\* alone but for the revocation, and the cleanup waits for the session's end.
LEMMA QuietSessions ==
  ASSUME TypeInv, Stamped, [Next]_vars, ~\E r \in Reqs : Hands(r)
  PROVE  /\ \A s \in docs' : /\ sess'[s].expires = sess[s].expires
                             /\ sess'[s].user = sess[s].user
                             /\ sess'[s].born = sess[s].born
         /\ \A s \in Sids : sess'[s].revokedAt \in {0, sess[s].revokedAt, now}
         /\ \A s \in docs \ docs' : sess[s].expires <= now
PROOF
<1> USE DEF TypeInv, StoresOK
<1>1. \A s \in Sids : sess[s] \in Session
  OBVIOUS
<1>2. CASE UNCHANGED <<docs, sess, tokens>>
  BY <1>2
<1>3. CASE \E r \in Reqs : Revoke(r)
  <2>1. PICK r \in Reqs : Revoke(r)
    BY <1>3
  <2>2. docs' = docs /\ sess' = IF req[r].sid \in docs
                                THEN [sess EXCEPT ![req[r].sid].revokedAt = now] ELSE sess
    BY <2>1 DEF Revoke
  <2> QED
    BY <1>1, <2>2 DEF Session
<1>4. CASE \E r \in Reqs : RevokeMany(r)
  <2>1. PICK r \in Reqs : RevokeMany(r)
    BY <1>4
  <2>2. docs' = docs
    BY <2>1 DEF RevokeMany
  <2>3. \A s \in Sids : sess'[s] \in {sess[s], [sess[s] EXCEPT !.revokedAt = now]}
    BY <2>1 DEF RevokeMany
  <2> QED
    BY <1>1, <2>2, <2>3 DEF Session
<1>5. CASE \E r \in Reqs : Purge(r)
  <2>1. PICK r \in Reqs : Purge(r)
    BY <1>5
  <2> DEFINE gone == {s \in docs : Purgeable(s, req[r].at)}
  <2>2. docs' = docs \ gone /\ sess' = [s \in Sids |-> IF s \in gone THEN NoSession ELSE sess[s]]
    BY <2>1 DEF Purge
  <2>3. \A s \in gone : sess[s].expires <= now
    <3>1. req[r].at \in Nat /\ req[r].at <= now /\ IdleTTL \in Nat
      BY TimeAssumption DEF ReqsOK, Request, Stamped
    <3>2. \A s \in docs : sess[s].expires \in Nat
      BY <1>1 DEF Session
    <3> QED
      BY <3>1, <3>2 DEF Purgeable
  <2>4. NoSession.revokedAt = 0
    BY DEF NoSession
  <2> HIDE DEF gone
  <2> QED
    BY <2>2, <2>3, <2>4
<1> QED
  BY <1>2, <1>3, <1>4, <1>5, StepCases

Giver(r, s, t) ==
    /\ Handed(s, t, req[r].tok)
    /\ \/ CreateSession(r) /\ Unused(s)
       \/ Rotate(r) /\ s = req[r].sid /\ s \in docs /\ sess[s].hash = req[r].tok

\* The new refresh token and its session expire together; a new session is
\* born now, and a rotation keeps the owner and the birth of the old one.
LEMMA HandedTimes ==
  ASSUME TypeInv, NEW r \in Reqs, NEW s \in Sids, NEW t \in Tokens \ issued, Giver(r, s, t)
  PROVE  /\ tok'[t].exp = req[r].at + RefreshTTL
         /\ sess'[s].expires = req[r].at + RefreshTTL
         /\ s \in docs => sess'[s].user = sess[s].user /\ sess'[s].born = sess[s].born
         /\ s \notin docs => sess'[s].born = now
PROOF
<1>1. /\ issued' = issued \cup {t} /\ docs' = docs \cup {s} /\ docs \subseteq Sids
      /\ issued \subseteq Tokens /\ tok \in [Tokens -> Claims] /\ sess \in [Sids -> Session]
  BY DEF Giver, Handed, TypeInv, StoresOK
<1>2. CASE CreateSession(r) /\ Unused(s)
  <2>1. PICK s0 \in Sids, t0 \in Tokens \ issued :
          /\ Unused(s0)
          /\ docs' = docs \cup {s0}
          /\ sess' = [sess EXCEPT ![s0] =
                [user |-> req[r].user, hash |-> t0, born |-> now, active |-> req[r].at,
                 expires |-> req[r].at + RefreshTTL, revokedAt |-> 0]]
          /\ GiveTokens(req[r].user, s0, t0, req[r].at, req[r].tok)
    BY <1>2 DEF CreateSession
  <2>2. s0 = s /\ t0 = t /\ s \notin docs
    BY <1>1, <1>2, <2>1 DEF GiveTokens, Unused
  <2>3. tok'[t].exp = req[r].at + RefreshTTL
    BY <1>1, <2>1, <2>2 DEF GiveTokens
  <2>4. sess'[s].expires = req[r].at + RefreshTTL /\ sess'[s].born = now
    BY <1>1, <2>1, <2>2
  <2> QED
    BY <2>2, <2>3, <2>4
<1>3. CASE Rotate(r) /\ s = req[r].sid /\ s \in docs /\ sess[s].hash = req[r].tok
  <2>1. PICK t0 \in Tokens \ issued :
          /\ sess' = [sess EXCEPT ![s].hash = t0, ![s].active = req[r].at,
                                  ![s].expires = req[r].at + RefreshTTL]
          /\ GiveTokens(req[r].user, s, t0, req[r].at, req[r].tok)
    BY <1>3 DEF Rotate, RotateMatches
  <2>2. t0 = t
    BY <1>1, <2>1 DEF GiveTokens
  <2>3. tok'[t].exp = req[r].at + RefreshTTL
    BY <1>1, <2>1, <2>2 DEF GiveTokens
  <2>4. /\ sess'[s].expires = req[r].at + RefreshTTL
        /\ sess'[s].user = sess[s].user /\ sess'[s].born = sess[s].born
    BY <1>1, <2>1 DEF Session
  <2> QED
    BY <1>3, <2>3, <2>4
<1> QED
  BY <1>2, <1>3 DEF Giver

LEMMA NextStamped ==
  ASSUME TypeInv, RoutesOK, Stamped, [Next]_vars
  PROVE  Stamped'
PROOF
<1> USE DEF TypeInv, StoresOK
<1>1. /\ now \in Nat /\ now' \in Nat /\ now' >= now /\ RefreshTTL \in Nat
      /\ \A r \in Reqs : Start(r) \/ Continue(r) \/ Fail(r) => now' = now
      /\ \A r \in Reqs : req[r].at \in Nat
      /\ \A s \in Sids : sess[s].revokedAt \in Nat /\ sess[s].expires \in Nat
  BY ClockGrows, TimeAssumption DEF ReqsOK, Request, Session
<1>2. ASSUME ~\E r \in Reqs : Hands(r)
      PROVE  /\ issued \subseteq issued'
             /\ \A s \in Sids : sess'[s].revokedAt <= now'
             /\ \A s \in docs' : sess'[s].expires <= now' + RefreshTTL
  <2>1. /\ docs' \subseteq docs /\ issued' = issued
        /\ \A s \in docs' : sess'[s].expires = sess[s].expires
        /\ \A s \in Sids : sess'[s].revokedAt \in {0, sess[s].revokedAt, now}
    BY <1>2, QuietSteps, QuietSessions DEF Quiet, tokens
  <2>2. /\ \A s \in Sids : sess'[s].revokedAt <= now'
        /\ \A s \in docs' : sess'[s].expires <= now' + RefreshTTL
    BY <1>1, <2>1 DEF Stamped
  <2> QED
    BY <2>1, <2>2
<1>3. ASSUME NEW r \in Reqs, Hands(r)
      PROVE  /\ issued \subseteq issued'
             /\ \A s \in Sids : sess'[s].revokedAt <= now'
             /\ \A s \in docs' : sess'[s].expires <= now' + RefreshTTL
  <2>1. PICK s \in Sids, t \in Tokens \ issued : Giver(r, s, t)
    BY <1>3, HandsOut DEF Giver
  <2>2. /\ sess'[s].expires = req[r].at + RefreshTTL
        /\ sess'[s].revokedAt \in {0, sess[s].revokedAt}
        /\ \A x \in Sids \ {s} : sess'[x] = sess[x]
        /\ issued' = issued \cup {t} /\ docs' = docs \cup {s}
    BY <2>1, HandedTimes DEF Giver, Handed
  <2> QED
    BY <1>1, <2>2 DEF Stamped
<1>4. ASSUME NEW r \in Reqs
      PROVE  req'[r].at <= now' /\ req'[r].tok \in issued \cup {None}
  <2>1. CASE req'[r] = req[r]
    BY <1>1, <2>1 DEF Stamped
  <2>2. CASE Start(r) \/ Continue(r) \/ Fail(r)
    BY <1>1, <2>2, MovedByStep DEF Moved, Carried, Stamped
  <2> QED
    BY <2>1, <2>2, OthersUntouched DEF Next, Tick, vars
<1>5. /\ issued \subseteq issued'
      /\ \A s \in Sids : sess'[s].revokedAt <= now'
      /\ \A s \in docs' : sess'[s].expires <= now' + RefreshTTL
  BY <1>2, <1>3
<1> QED
  BY <1>4, <1>5 DEF Stamped

LEMMA NextProlongs ==
  ASSUME TypeInv, RoutesOK, Stamped, Stamped', \A r \in Reqs : Prolongs(req[r]), [Next]_vars,
         NEW x \in Reqs
  PROVE  Prolongs(req[x])'
PROOF
<1>1. CASE Start(x) \/ Continue(x) \/ Fail(x)
  <2>1. req'[x].pc = "rotate" => req'[x].at = now' /\ \A s \in docs' : sess'[s].expires <= now' + RefreshTTL
    BY <1>1, MovedByStep, ClockGrows DEF Moved, Carried, Stamped
  <2> QED
    BY <2>1 DEF Prolongs
<1>2. CASE req'[x] = req[x]
  <2>1. CASE ~\E r \in Reqs : Hands(r)
    BY <1>2, <2>1, QuietSteps, QuietSessions DEF Quiet, Prolongs
  <2>2. ASSUME NEW r \in Reqs, Hands(r) PROVE Prolongs(req[x])'
    <3>1. PICK s \in Sids, t \in Tokens \ issued : Giver(r, s, t)
      BY <2>2, HandsOut DEF Giver
    <3>2. t # req[x].tok
      BY NullAssumption DEF Stamped
    <3> QED
      BY <1>2, <3>1, <3>2 DEF Giver, Handed, Prolongs, TypeInv, StoresOK
  <2> QED
    BY <2>1, <2>2
<1> QED
  BY <1>1, <1>2, OthersUntouched DEF Next, Tick, vars

LEMMA NextOutlived ==
  ASSUME TypeInv, RedeemInv, RoutesOK, ClockInv, [Next]_vars, NEW x \in issued'
  PROVE  Outlived(x)'
PROOF
<1> USE DEF TypeInv, StoresOK
<1>1. /\ now \in Nat /\ now' \in Nat /\ now' >= now /\ RefreshTTL \in Nat /\ None \notin Sids
      /\ \A y \in Tokens : tok[y].exp \in Nat /\ tok[y].sid \in Sids \cup {None}
      /\ \A s \in Sids : sess[s].expires \in Nat
  BY ClockGrows, TimeAssumption, NullAssumption DEF Session, Claims
<1>2. CASE ~\E r \in Reqs : Hands(r)
  <2>1. /\ docs' \subseteq docs /\ issued' = issued /\ tok' = tok
        /\ \A s \in docs' : sess'[s].expires = sess[s].expires
        /\ \A s \in docs \ docs' : sess[s].expires <= now
    BY <1>2, QuietSteps, QuietSessions DEF Quiet, tokens, ClockInv
  <2>2. Outlived(x) /\ x \in Tokens
    BY <2>1 DEF ClockInv
  <2> QED
    BY <1>1, <2>1, <2>2 DEF Outlived
<1>3. ASSUME NEW r \in Reqs, Hands(r) PROVE Outlived(x)'
  <2>1. PICK s \in Sids, t \in Tokens \ issued : Giver(r, s, t)
    BY <1>3, HandsOut DEF Giver
  <2>2. /\ tok'[t].exp = req[r].at + RefreshTTL /\ sess'[s].expires = req[r].at + RefreshTTL
        /\ tok'[t].sid = s /\ issued' = issued \cup {t} /\ docs' = docs \cup {s}
        /\ \A y \in issued : tok'[y] = tok[y]
        /\ \A y \in Sids \ {s} : sess'[y] = sess[y]
    BY <2>1, HandedTimes DEF Giver, Handed
  <2>3. req[r].at \in Nat
    BY DEF ReqsOK, Request
  <2>4. CASE x = t
    BY <1>1, <2>2, <2>3, <2>4 DEF Outlived
  <2>5. CASE x \in issued /\ tok[x].sid # s
    <3>1. Outlived(x) /\ x \in Tokens
      BY <2>5 DEF ClockInv
    <3> QED
      BY <1>1, <2>2, <2>5, <3>1 DEF Outlived
  <2>6. CASE x \in issued /\ tok[x].sid = s
    <3>1. Rotate(r) /\ s = req[r].sid /\ s \in docs /\ sess[s].hash = req[r].tok
      BY <2>1, <2>6 DEF Giver, Unused
    <3>2. sess[s].expires <= req[r].at + RefreshTTL
      BY <3>1 DEF ClockInv, Prolongs, Rotate, At
    <3>3. tok[x].exp <= sess[s].expires /\ x \in Tokens
      BY <1>1, <2>6, <3>1 DEF ClockInv, Outlived
    <3> QED
      BY <1>1, <2>2, <2>3, <2>6, <3>2, <3>3 DEF Outlived
  <2> QED
    BY <2>2, <2>4, <2>5, <2>6
<1> QED
  BY <1>2, <1>3

LEMMA NextClockInv == TypeInv /\ RedeemInv /\ RoutesOK /\ ClockInv /\ [Next]_vars => ClockInv'
PROOF
<1> SUFFICES ASSUME TypeInv, RedeemInv, RoutesOK, ClockInv, [Next]_vars PROVE ClockInv'
  OBVIOUS
<1>1. Stamped'
  BY NextStamped DEF ClockInv
<1>2. \A r \in Reqs : Prolongs(req[r])'
  BY <1>1, NextProlongs DEF ClockInv
<1>3. \A t \in issued' : Outlived(t)'
  BY NextOutlived
<1> QED
  BY <1>1, <1>2, <1>3 DEF ClockInv

\* The cleanup never drops a session one of whose refresh tokens is still
\* valid (deleteExpired against auth.service.js:118-123).
THEOREM CleanupWaits == Spec => []TokenHasSession
PROOF
<1>1. TypeInv /\ ClockInv => TokenHasSession
  BY DEF TypeInv, StoresOK, Claims, ClockInv, Outlived, TokenHasSession
<1> QED
  BY <1>1, InitTypeInv, NextTypeInv, InitRedeemInv, NextRedeemInv, InitRoutesOK, NextRoutesOK,
     InitClockInv, NextClockInv, PTL DEF Spec

-----------------------------------------------------------------------------
(* Revocation: the marker outlasts the tokens, and it leaves no session out. *)

\* The marker of a revoked session was written after the revocation, unless
\* that is still to be done or has failed.
Marked(s) ==
    Revoked(s) /\ ~Pending(s) /\ s \notin lost
    => marker[s] >= sess[s].revokedAt + MarkerTTL

MarkerInv == \A s \in Sids : Marked(s)

\* A marker write is owed until it is made or has failed.
LEMMA MarkersOwed ==
  ASSUME TypeInv, NEW r \in Reqs, Start(r) \/ Continue(r) \/ Fail(r), NEW s \in Sids
  PROVE  \/ marker'[s] = now + MarkerTTL
         \/ /\ marker'[s] = marker[s]
            /\ s \in lost => s \in lost'
            /\ Pending(s) => Pending(s)' \/ s \in lost'
PROOF
<1> USE DEF TypeInv, StoresOK
<1>1. \A x \in Reqs \ {r} : req'[x] = req[x]
  BY OthersUntouched
<1>2. req \in [Reqs -> Request] /\ req[r] \in Request
  BY DEF ReqsOK
<1>3. CASE Mark(r)
  <2>1. PICK x \in req[r].ids :
          /\ req' = [req EXCEPT ![r] = Marking(req[r], req[r].ids \ {x})]
          /\ \/ marker' = [marker EXCEPT ![x] = now + MarkerTTL] /\ lost' = lost \ {x}
             \/ marker' = marker /\ lost' = lost \cup {x}
    BY <1>3 DEF Mark, MarkerExpiry
  <2>2. CASE s = x
    BY <2>1, <2>2
  <2>3. CASE s # x
    <3>1. marker'[s] = marker[s] /\ (s \in lost => s \in lost')
      BY <2>1, <2>3
    <3>2. s \in req[r].ids => At(r, "mark")' /\ s \in req'[r].ids
      <4>1. ASSUME s \in req[r].ids
            PROVE  req'[r] = [req[r] EXCEPT !.pc = "mark", !.ids = req[r].ids \ {x}]
        BY <1>2, <2>1, <2>3, <4>1 DEF Marking
      <4> QED
        BY <1>2, <2>3, <4>1 DEF At, Request
    <3> QED
      BY <1>1, <3>1, <3>2 DEF Pending, At
  <2> QED
    BY <2>2, <2>3
<1>4. CASE Fail(r)
  BY <1>1, <1>4 DEF Fail, Pending, At, redis
<1>5. CASE (Start(r) \/ Continue(r)) /\ ~Mark(r)
  <2>1. UNCHANGED <<marker, lost>> /\ ~At(r, "mark")
    BY <1>5 DEF Start, Continue, LoginRequest, RefreshRequest, AuthRequest, LogoutRequest,
       SweepRequest, Begin, CreateSession, FindSession, FindUser, Rotate, LegacyGet, LegacyDel,
       CheckMarker, LoadUser, BlacklistAccess, Lookup, Revoke, DeleteLookup, FindAll, RevokeMany,
       AuditReuse, EraseUser, Purge, redis, logs, At
  <2> QED
    BY <1>1, <2>1 DEF Pending, At
<1> QED
  BY <1>3, <1>4, <1>5

\* Whoever stamps a revocation then owes its marker.
LEMMA RevocationOwed ==
  ASSUME TypeInv, [Next]_vars, NEW s \in Sids, Revoked(s)'
  PROVE  \/ Revoked(s) /\ sess'[s].revokedAt = sess[s].revokedAt
         \/ Pending(s)'
PROOF
<1> USE DEF TypeInv, StoresOK
<1>1. \A r \in Reqs : req[r] \in Request /\ req \in [Reqs -> Request]
  BY DEF ReqsOK
<1>2. CASE UNCHANGED <<docs, sess, tokens>>
  BY <1>2 DEF Revoked
<1>3. ASSUME NEW r \in Reqs, Hands(r) PROVE Revoked(s) /\ sess'[s].revokedAt = sess[s].revokedAt
  <2>1. PICK x \in Sids, t \in Tokens \ issued : Handed(x, t, req[r].tok)
    BY <1>3, HandsOut
  <2> QED
    BY <2>1 DEF Handed, Revoked
<1>4. ASSUME NEW r \in Reqs, Revoke(r)
      PROVE  (Revoked(s) /\ sess'[s].revokedAt = sess[s].revokedAt) \/ Pending(s)'
  <2>1. /\ sess' = IF req[r].sid \in docs THEN [sess EXCEPT ![req[r].sid].revokedAt = now] ELSE sess
        /\ req'[r].pc = "mark" /\ req'[r].ids = {req[r].sid} /\ docs' = docs
    BY <1>1, <1>4 DEF Revoke, Request
  <2>2. CASE s = req[r].sid
    BY <2>1, <2>2 DEF Pending, At
  <2>3. CASE s # req[r].sid
    BY <2>1, <2>3 DEF Revoked
  <2> QED
    BY <2>2, <2>3
<1>5. ASSUME NEW r \in Reqs, RevokeMany(r)
      PROVE  (Revoked(s) /\ sess'[s].revokedAt = sess[s].revokedAt) \/ Pending(s)'
  <2>1. /\ s \notin req[r].ids => sess'[s] = sess[s]
        /\ req'[r].pc = "mark" /\ req'[r].ids = req[r].ids /\ docs' = docs
    BY <1>1, <1>5 DEF RevokeMany, Goto, Request
  <2> QED
    BY <2>1 DEF Pending, At, Revoked
<1>6. ASSUME NEW r \in Reqs, Purge(r) PROVE Revoked(s) /\ sess'[s].revokedAt = sess[s].revokedAt
  BY <1>6 DEF Purge, Revoked
<1> QED
  BY <1>2, <1>3, <1>4, <1>5, <1>6, StepCases

LEMMA NextMarkerInv ==
  TypeInv /\ Stamped /\ Stamped' /\ MarkerInv /\ [Next]_vars => MarkerInv'
PROOF
<1> SUFFICES ASSUME TypeInv, Stamped', MarkerInv, [Next]_vars, NEW s \in Sids,
                    Revoked(s)', ~Pending(s)', s \notin lost'
             PROVE  marker'[s] >= sess'[s].revokedAt + MarkerTTL
  BY DEF MarkerInv, Marked
<1>1. Revoked(s) /\ sess'[s].revokedAt = sess[s].revokedAt
  BY RevocationOwed
<1>2. /\ sess'[s].revokedAt \in Nat /\ now \in Nat /\ MarkerTTL \in Nat
      /\ sess'[s].revokedAt <= now'
  BY NextTypeInv, TimeAssumption DEF TypeInv, StoresOK, Session, Stamped
<1>3. CASE Tick \/ UNCHANGED vars
  <2>1. UNCHANGED <<docs, sess, req, lost, marker>>
    BY <1>3 DEF Tick, vars, mongo, redis, logs
  <2>2. ~Pending(s)
    BY <2>1 DEF Pending, At
  <2> QED
    BY <1>1, <2>1, <2>2 DEF MarkerInv, Marked
<1>4. ASSUME NEW r \in Reqs, Start(r) \/ Continue(r) \/ Fail(r)
      PROVE  marker'[s] >= sess'[s].revokedAt + MarkerTTL
  <2>1. CASE marker'[s] = now + MarkerTTL
    <3>1. now' = now
      BY <1>4, ClockGrows
    <3> QED
      BY <1>2, <2>1, <3>1
  <2>2. CASE marker'[s] = marker[s] /\ s \notin lost /\ ~Pending(s)
    BY <1>1, <2>2 DEF MarkerInv, Marked
  <2> QED
    BY <1>4, <2>1, <2>2, MarkersOwed
<1> QED
  BY <1>3, <1>4 DEF Next

LEMMA InitMarkerInv == Init => MarkerInv
PROOF
  BY DEF Init, MarkerInv, Marked, Revoked

\* A revoked session's access tokens are rejected for their whole life, unless
\* the marker's write failed (session.service.js:15-21).
THEOREM RevocationRespected == Spec => []RevocationHolds
PROOF
<1>1. TypeInv /\ MarkerInv => RevocationHolds
  <2> SUFFICES ASSUME TypeInv, MarkerInv, NEW a \in access, Revoked(a.sid),
                      a.exp <= sess[a.sid].revokedAt + AccessTTL, ~Pending(a.sid), a.sid \notin lost
               PROVE  ~PassesMarker(a)
    BY DEF RevocationHolds, Accepts
  <2>1. a.sid \in Sids /\ a.exp \in Nat
    BY DEF TypeInv, StoresOK, Access
  <2>2. /\ sess[a.sid].revokedAt \in Nat /\ marker[a.sid] \in Nat /\ now \in Nat
        /\ AccessTTL \in Nat /\ MarkerTTL \in Nat /\ AccessTTL <= MarkerTTL
    BY <2>1, TimeAssumption DEF TypeInv, StoresOK, Session
  <2>3. marker[a.sid] >= sess[a.sid].revokedAt + MarkerTTL
    BY <2>1 DEF MarkerInv, Marked
  <2> QED
    BY <2>1, <2>2, <2>3 DEF PassesMarker
<1>2. ClockInv => Stamped
  BY DEF ClockInv
<1> QED
  BY <1>1, <1>2, InitTypeInv, NextTypeInv, InitRedeemInv, NextRedeemInv, InitRoutesOK, NextRoutesOK,
     InitClockInv, NextClockInv, InitMarkerInv, NextMarkerInv, PTL DEF Spec

\* Session s needs no revocation on behalf of user u for a request made at t.
Settled(s, u, t) == sess[s].user = u /\ sess[s].born < t => Revoked(s)

\* What a bulk revocation has found covers whatever was there at its arrival.
BulkInv ==
    \A r \in Reqs : Bulk(req[r]) =>
      /\ req[r].pc = "revokeMany" =>
            \A s \in docs \ req[r].ids : Settled(s, req[r].user, req[r].at)
      /\ req[r].pc \in {"mark", "audit", "erase"} =>
            \A s \in docs : Settled(s, req[r].user, req[r].at)

\* A revoked session stays revoked, and a new one is younger than the request.
LEMMA SettledStays ==
  ASSUME TypeInv, Stamped, [Next]_vars, NEW s \in docs', NEW u, NEW t \in Nat, t <= now,
         s \in docs => Settled(s, u, t)
  PROVE  Settled(s, u, t)'
PROOF
<1> USE DEF TypeInv, StoresOK
<1>1. CASE ~\E r \in Reqs : Hands(r)
  BY <1>1, QuietSteps, QuietSessions DEF Quiet, Settled, Revoked
<1>2. ASSUME NEW r \in Reqs, Hands(r) PROVE Settled(s, u, t)'
  <2>1. PICK x \in Sids, y \in Tokens \ issued : Giver(r, x, y)
    BY <1>2, HandsOut DEF Giver
  <2>2. CASE s # x
    <3>1. s \in docs /\ sess'[s] = sess[s]
      BY <2>1, <2>2 DEF Giver, Handed
    <3> QED
      BY <3>1 DEF Settled, Revoked
  <2>3. CASE s = x /\ s \in docs
    BY <2>1, <2>3, HandedTimes DEF Giver, Handed, Settled, Revoked
  <2>4. CASE s = x /\ s \notin docs
    <3>1. sess'[s].born = now /\ now \in Nat
      BY <2>1, <2>4, HandedTimes
    <3> QED
      BY <3>1 DEF Settled
  <2> QED
    BY <2>2, <2>3, <2>4
<1> QED
  BY <1>1, <1>2

LEMMA NextBulkInv == TypeInv /\ RoutesOK /\ Stamped /\ BulkInv /\ [Next]_vars => BulkInv'
PROOF
<1> SUFFICES ASSUME TypeInv, RoutesOK, Stamped, BulkInv, [Next]_vars, NEW r \in Reqs, Bulk(req'[r])
             PROVE  /\ req'[r].pc = "revokeMany" =>
                          \A s \in docs' \ req'[r].ids : Settled(s, req[r].user, req[r].at)'
                    /\ req'[r].pc \in {"mark", "audit", "erase"} =>
                          \A s \in docs' : Settled(s, req[r].user, req[r].at)'
  BY DEF BulkInv
<1>1. docs' \subseteq Sids /\ req[r].at \in Nat /\ req[r].at <= now
  BY NextTypeInv DEF TypeInv, StoresOK, ReqsOK, Request, Stamped
<1>2. CASE req'[r] = req[r]
  BY <1>1, <1>2, SettledStays DEF BulkInv
<1>3. CASE (Start(r) \/ Continue(r) \/ Fail(r)) /\ req'[r].pc \in {"revokeMany", "mark", "audit", "erase"}
  <2>1. /\ req'[r].user = req[r].user /\ req'[r].at = req[r].at /\ Bulk(req[r])
        /\ \/ FindAll(r) /\ req'[r].pc = "revokeMany" /\ req'[r].ids = ToRevoke(r)
           \/ FindAll(r) /\ ToRevoke(r) = {}
           \/ RevokeMany(r)
           \/ Mark(r)
    BY <1>3, MovedByStep DEF Moved, Retires, Bulk
  <2>2. CASE FindAll(r) /\ req'[r].pc = "revokeMany" /\ req'[r].ids = ToRevoke(r)
    BY <1>1, <2>1, <2>2, SettledStays DEF ToRevoke, Settled
  <2>3. CASE FindAll(r) /\ ToRevoke(r) = {}
    BY <1>1, <2>1, <2>3, SettledStays DEF ToRevoke, Settled
  <2>4. CASE RevokeMany(r)
    <3>1. req[r].pc = "revokeMany" /\ req'[r].pc = "mark" /\ docs' = docs
      BY <2>4 DEF RevokeMany, Goto, At, TypeInv, ReqsOK, Request
    <3>2. \A s \in docs \cap req[r].ids : Revoked(s)'
      BY <2>4 DEF RevokeMany, Revoked, TypeInv, StoresOK, Session
    <3>3. \A s \in docs \ req[r].ids : Settled(s, req[r].user, req[r].at)
      BY <2>1, <3>1 DEF BulkInv
    <3>4. \A s \in docs \ req[r].ids : Settled(s, req[r].user, req[r].at)'
      BY <1>1, <2>1, <3>1, <3>3, SettledStays DEF Settled
    <3> QED
      BY <3>1, <3>2, <3>4 DEF Settled
  <2>5. CASE Mark(r)
    <3>1. \A s \in docs : Settled(s, req[r].user, req[r].at)
      BY <2>1, <2>5 DEF BulkInv, Mark, At
    <3>2. docs' = docs
      BY <2>5 DEF Mark, mongo
    <3> QED
      BY <1>1, <2>1, <3>1, <3>2, SettledStays DEF Settled
  <2> QED
    BY <2>1, <2>2, <2>3, <2>4, <2>5
<1> QED
  BY <1>2, <1>3, OthersUntouched DEF Next, Tick, vars

LEMMA InitBulkInv == Init => BulkInv
PROOF
  BY DEF Init, BulkInv, Idle

\* Reuse detection and account deletion are global: once their bulk revocation
\* is done, every session of the user that existed when the request arrived is
\* revoked or removed (auth.service.js:97-100, user.service.js:133).
THEOREM RevocationIsGlobal == Spec => []GlobalRevocationComplete
PROOF
<1>1. BulkInv => GlobalRevocationComplete
  BY DEF BulkInv, Bulk, Settled, GlobalRevocationComplete
<1>2. ClockInv => Stamped
  BY DEF ClockInv
<1> QED
  BY <1>1, <1>2, InitTypeInv, NextTypeInv, InitRedeemInv, NextRedeemInv, InitRoutesOK, NextRoutesOK,
     InitClockInv, NextClockInv, InitBulkInv, NextBulkInv, PTL DEF Spec

-----------------------------------------------------------------------------
(* Sessions implements TokenChain.                                         *)

LEMMA ChainInit == Init => Chain!Init
PROOF
<1> SUFFICES ASSUME Init PROVE Chain!Init
  OBVIOUS
<1>1. docs = {} /\ issued = LegacyTokens /\ sess = [s \in Sids |-> NoSession]
  BY DEF Init
<1>2. \A t \in LegacyTokens : tok[t].sid = None
  BY InitRedeemInv DEF RedeemInv, LegacyUnbound
<1>3. None \notin Sids
  BY NullAssumption
<1>4. life = [s \in Sids |-> "unborn"]
  BY <1>1, <1>2, <1>3 DEF life, Life
<1>5. current = [s \in Sids |-> None]
  BY <1>1 DEF current, NoSession
<1>6. minted = {} /\ spent = {}
  BY <1>1, <1>2 DEF minted, spent
<1> QED
  BY <1>4, <1>5, <1>6 DEF Chain!Init

\* Handing out a pair of tokens opens a chain or swaps its current token.
LEMMA ChainHands ==
  ASSUME TypeInv, RedeemInv, NEW r \in Reqs, Hands(r)
  PROVE  Chain!Next
PROOF
<1> DEFINE p == req[r].tok
<1>1. PICK s \in Sids, t \in Tokens \ issued :
        /\ Handed(s, t, p)
        /\ \/ CreateSession(r) /\ Unused(s)
           \/ Rotate(r) /\ s = req[r].sid /\ s \in docs /\ sess[s].hash = p
  BY HandsOut
<1>2. /\ issued \subseteq Tokens /\ docs \subseteq Sids /\ LegacyTokens \subseteq issued
      /\ None \notin Tokens /\ None \notin Sids
  BY NullAssumption DEF TypeInv, StoresOK, RedeemInv, LegacyUnbound
<1>3. t \in (Tokens \ LegacyTokens) \ minted
  BY <1>2 DEF minted
<1>4. \A x \in issued : tok'[x] = tok[x] /\ x # t
  BY <1>1, <1>2 DEF Handed
<1>5. minted' = minted \cup {t}
  BY <1>1, <1>2, <1>4 DEF minted, Handed
<1>6. current' = [current EXCEPT ![s] = t]
  BY <1>1 DEF current, Handed
<1>7. \A x \in Sids \ {s} : Life(x)' = Life(x)
  BY <1>1, <1>4 DEF Life, Revoked, Handed
<1>8. \A x \in issued : tok[x].parent # t
  BY <1>2 DEF RedeemInv, ParentsIssued
<1>9. CASE CreateSession(r) /\ Unused(s)
  <2>1. p \in LegacyTokens \cup {None}
    BY <1>9 DEF RedeemInv, TokenHeld, CreateSession, At
  <2>2. \A x \in minted : x # p
    BY <1>2, <2>1 DEF minted, RedeemInv, LegacyUnbound
  <2>3. spent' = spent
    <3>1. t \notin spent'
      BY <1>1, <1>2, <1>4, <1>8, <2>1 DEF spent, Handed
    <3>2. \A x \in minted : x \in spent' <=> x \in spent
      BY <1>1, <1>4, <1>5, <2>2 DEF spent, Handed
    <3> QED
      BY <1>5, <3>1, <3>2 DEF spent
  <2>4. Life(s) = "unborn" /\ Life(s)' = "live"
    BY <1>1, <1>9 DEF Life, Revoked, Unused, Handed
  <2>5. life[s] = "unborn" /\ life' = [life EXCEPT ![s] = "live"]
    BY <1>7, <2>4 DEF life
  <2>6. Chain!Open(s, t)
    BY <1>5, <1>6, <2>3, <2>5 DEF Chain!Open
  <2> QED
    BY <1>3, <2>6 DEF Chain!Next
<1>10. CASE Rotate(r) /\ s \in docs /\ sess[s].hash = p
  <2>1. p \in minted /\ p = current[s] /\ p # t
    BY <1>2, <1>4, <1>10 DEF RedeemInv, CurrentUnspent, minted, current
  <2>2. spent' = spent \cup {p}
    <3>1. t \notin spent'
      BY <1>1, <1>2, <1>4, <1>8, <2>1 DEF spent, Handed
    <3>2. \A x \in minted : x \in spent' <=> x \in spent \/ x = p
      BY <1>1, <1>4, <1>5 DEF spent, Handed
    <3> QED
      BY <1>5, <2>1, <3>1, <3>2 DEF spent
  <2>3. Life(s)' = Life(s) /\ Life(s) \in {"live", "revoked"}
    BY <1>1, <1>10 DEF Life, Revoked, Handed
  <2>4. life[s] \in {"live", "revoked"} /\ life' = life
    BY <1>7, <2>3 DEF life
  <2>5. Chain!Swap(s, t)
    BY <1>5, <1>6, <2>1, <2>2, <2>4 DEF Chain!Swap
  <2> QED
    BY <1>3, <2>5 DEF Chain!Next
<1> QED
  BY <1>1, <1>9, <1>10

\* Revoking, one or many, is one step of the abstract store, however the find
\* that chose the sessions is outdated.
LEMMA ChainRetire ==
  ASSUME TypeInv, NEW S \in SUBSET docs, UNCHANGED <<docs, tokens>>,
         \A s \in S : ~Revoked(s),
         sess' = [s \in Sids |-> IF s \in S THEN [sess[s] EXCEPT !.revokedAt = now] ELSE sess[s]]
  PROVE  Chain!Next
PROOF
<1>1. now # 0 /\ docs \subseteq Sids /\ \A s \in Sids : sess[s] \in Session
  BY DEF TypeInv, StoresOK
<1>2. /\ \A s \in Sids : sess'[s].hash = sess[s].hash
      /\ \A s \in S : sess'[s].revokedAt = now
      /\ \A s \in Sids \ S : sess'[s] = sess[s]
  BY <1>1 DEF Session
<1>3. UNCHANGED <<current, minted, spent>>
  BY <1>2 DEF current, minted, spent, tokens
<1>4. \A s \in S : Life(s) = "live" /\ Life(s)' = "revoked"
  BY <1>1, <1>2 DEF Life, Revoked
<1>5. \A s \in Sids \ S : Life(s)' = Life(s)
  BY <1>2 DEF Life, Revoked, tokens
<1>6. life' = [s \in Sids |-> IF s \in S THEN "revoked" ELSE life[s]]
  BY <1>4, <1>5 DEF life
<1>7. \A s \in S : life[s] = "live"
  BY <1>1, <1>4 DEF life
<1>8. Chain!Retire(S)
  BY <1>3, <1>6, <1>7 DEF Chain!Retire
<1> QED
  BY <1>1, <1>8 DEF Chain!Next

LEMMA ChainRemove ==
  ASSUME TypeInv, RedeemInv, NEW r \in Reqs, Purge(r)
  PROVE  Chain!Next
PROOF
<1> DEFINE S == {s \in docs : Purgeable(s, req[r].at)}
<1>1. /\ docs' = docs \ S /\ UNCHANGED tokens
      /\ sess' = [s \in Sids |-> IF s \in S THEN NoSession ELSE sess[s]]
  BY DEF Purge
<1>2. S \subseteq docs /\ docs \subseteq Sids /\ \A s \in S : Revoked(s)
  BY DEF TypeInv, StoresOK, Purgeable
<1>3. \A s \in S : \E t \in issued : tok[t].sid = s
  BY <1>2 DEF RedeemInv, CurrentUnspent
<1> HIDE DEF S
<1>4. UNCHANGED <<minted, spent>>
  BY <1>1 DEF minted, spent, tokens
<1>5. current' = [s \in Sids |-> IF s \in S THEN None ELSE current[s]]
  BY <1>1 DEF current, NoSession
<1>6. \A s \in S : Life(s) = "revoked" /\ Life(s)' = "removed"
  BY <1>1, <1>2, <1>3 DEF Life, tokens
<1>7. \A s \in Sids \ S : Life(s)' = Life(s)
  BY <1>1 DEF Life, Revoked, tokens
<1>8. life' = [s \in Sids |-> IF s \in S THEN "removed" ELSE life[s]]
  BY <1>6, <1>7 DEF life
<1>9. \A s \in S : life[s] = "revoked"
  BY <1>2, <1>6 DEF life
<1>10. Chain!Remove(S)
  BY <1>4, <1>5, <1>8, <1>9 DEF Chain!Remove
<1> QED
  BY <1>2, <1>10 DEF Chain!Next

LEMMA ChainStep == TypeInv /\ RedeemInv /\ [Next]_vars => [Chain!Next]_(Chain!chain)
PROOF
<1> SUFFICES ASSUME TypeInv, RedeemInv, [Next]_vars PROVE [Chain!Next]_(Chain!chain)
  OBVIOUS
<1>1. CASE UNCHANGED <<docs, sess, tokens>>
  <2>1. \A s \in Sids : Life(s)' = Life(s)
    BY <1>1 DEF Life, Revoked, tokens
  <2> QED
    BY <1>1, <2>1 DEF Chain!chain, life, current, minted, spent, tokens
<1>2. ASSUME NEW r \in Reqs, Revoke(r) PROVE [Chain!Next]_(Chain!chain)
  <2> DEFINE s == req[r].sid
  <2>1. /\ UNCHANGED <<docs, tokens>>
        /\ sess' = IF s \in docs THEN [sess EXCEPT ![s].revokedAt = now] ELSE sess
    BY <1>2 DEF Revoke
  <2>2. CASE s \in docs /\ ~Revoked(s)
    <3>1. sess' = [x \in Sids |-> IF x \in {s} THEN [sess[x] EXCEPT !.revokedAt = now] ELSE sess[x]]
      BY <2>1, <2>2 DEF TypeInv, StoresOK
    <3> QED
      BY <2>1, <2>2, <3>1, ChainRetire
  <2>3. CASE s \notin docs
    BY <1>1, <2>1, <2>3
  <2>4. CASE Revoked(s)
    <3>1. /\ \A x \in Sids : sess'[x].hash = sess[x].hash
          /\ \A x \in docs : sess'[x].revokedAt # 0 <=> sess[x].revokedAt # 0
      BY <2>1, <2>4 DEF TypeInv, StoresOK, Session, Revoked
    <3>2. \A x \in Sids : Life(x)' = Life(x)
      BY <2>1, <3>1 DEF Life, Revoked, tokens
    <3> QED
      BY <2>1, <3>1, <3>2 DEF Chain!chain, life, current, minted, spent, tokens
  <2> QED
    BY <2>2, <2>3, <2>4
<1>3. ASSUME NEW r \in Reqs, RevokeMany(r) PROVE [Chain!Next]_(Chain!chain)
  <2> DEFINE S == {s \in req[r].ids : s \in docs /\ ~Revoked(s)}
  <2>1. UNCHANGED <<docs, tokens>>
    BY <1>3 DEF RevokeMany
  <2>2. sess' = [s \in Sids |-> IF s \in S THEN [sess[s] EXCEPT !.revokedAt = now] ELSE sess[s]]
    BY <1>3 DEF RevokeMany
  <2>3. S \in SUBSET docs /\ \A s \in S : ~Revoked(s)
    OBVIOUS
  <2> HIDE DEF S
  <2> QED
    BY <2>1, <2>2, <2>3, ChainRetire
<1> QED
  BY <1>1, <1>2, <1>3, ChainHands, ChainRemove, StepCases

\* The services implement the abstract store, for all instances.
THEOREM ImplementsChain == Spec => ChainSpec
PROOF
  BY ChainInit, ChainStep, InitTypeInv, NextTypeInv, InitRedeemInv, NextRedeemInv, PTL
  DEF Spec, ChainSpec, Chain!Spec

=============================================================================
