------------------------------ MODULE Sessions ------------------------------
(***************************************************************************)
(* Sessions and refresh tokens: service/auth.service.js,                   *)
(* service/session.service.js, the session repository, the auth middleware *)
(* and the session part of account deletion.                               *)
(*                                                                         *)
(* Several requests run at once.  A request is a program counter and the   *)
(* values its handler holds across awaits; every action below is the code  *)
(* between two awaits, so any other request may run between two of them.   *)
(* A refresh token is known by its nonce (crypto.randomUUID) and its hash  *)
(* stands for it; an access token carries no nonce, so it is exactly its   *)
(* claims.                                                                 *)
(***************************************************************************)
EXTENDS Naturals, FiniteSets

CONSTANTS
    Users,          \* accounts present at start
    Sids,           \* session ids (ObjectIds); never reused
    Tokens,         \* refresh tokens
    LegacyTokens,   \* those issued by the store that preceded sessions
    Reqs,           \* requests in flight at once
    Ops,            \* the operations clients and the timer may start
    Faults,         \* may Redis reject a write, and the process crash?
    AccessTTL,      \* JWT_ACCESS_EXPIRES_IN
    MarkerTTL,      \* REVOCATION_TTL_SECONDS, the former rounded up
    RefreshTTL,     \* JWT_REFRESH_EXPIRES_IN
    IdleTTL,        \* SESSION_IDLE_TTL_SECONDS
    MaxTime,        \* bound on the clock
    None            \* null

ASSUME NullAssumption == None \notin Users \cup Sids \cup Tokens
ASSUME LegacyAssumption == LegacyTokens \subseteq Tokens
ASSUME FaultsAssumption == Faults \in BOOLEAN
ASSUME TimeAssumption ==
    /\ AccessTTL \in Nat \ {0}
    /\ MarkerTTL \in Nat
    /\ MarkerTTL >= AccessTTL
    /\ RefreshTTL \in Nat
    /\ IdleTTL \in Nat
    /\ MaxTime \in Nat

\* The severities the audit log schema admits.
AuditSeverities == {"info", "warning", "error"}

VARIABLES
    now,        \* the clock; 0 stands for a null date, so it starts at 1
    users,      \* accounts that exist
    docs,       \* ids of the stored session documents
    sess,       \* their contents
    issued,     \* refresh tokens a client has been given
    tok,        \* their claims, and the token each was exchanged for
    access,     \* access tokens a client has been given
    marker,     \* session:revoked:<sid>: when it expires, 0 if absent
    blacklist,  \* auth:blacklist:<token>
    legacy,     \* auth:refresh:<user>
    req,        \* the requests in flight
    lost,       \* sessions whose last marker write failed or never ran
    audited     \* users with a token.reuse_detected entry in the audit log

mongo == <<users, docs, sess>>
tokens == <<issued, tok, access>>
redis == <<marker, blacklist, legacy>>
logs == <<lost, audited>>
vars == <<now, mongo, tokens, redis, req, logs>>

Session == [user: Users \cup {None}, hash: Tokens \cup {None}, born: Nat,
            active: Nat, expires: Nat, revokedAt: Nat]
Claims == [user: Users \cup {None}, sid: Sids \cup {None}, exp: Nat,
           parent: Tokens \cup {None}]
Access == [user: Users, sid: Sids, exp: Nat]

Steps == {"idle", "create", "find", "user", "rotate", "legacyGet",
          "legacyDrop", "legacyTake", "marker", "account", "blacklist",
          "lookup", "revoke", "delete", "findAll", "revokeMany", "mark",
          "audit", "erase", "purge"}
Kinds == {"login", "refresh", "reuse", "revoke", "logout", "delete", "sweep"}

Request == [pc: Steps, op: Kinds, user: Users \cup {None},
            sid: Sids \cup {None}, tok: Tokens \cup {None},
            hash: Tokens \cup {None}, acc: Access \cup {None},
            at: Nat, ids: SUBSET Sids]

NoSession == [user |-> None, hash |-> None, born |-> 0, active |-> 0,
              expires |-> 0, revokedAt |-> 0]
NoClaims == [user |-> None, sid |-> None, exp |-> 0, parent |-> None]
LegacyClaims(u) == [user |-> u, sid |-> None, exp |-> 1 + RefreshTTL,
                    parent |-> None]
Idle == [pc |-> "idle", op |-> "login", user |-> None, sid |-> None,
         tok |-> None, hash |-> None, acc |-> None, at |-> 0, ids |-> {}]

At(r, step) == req[r].pc = step
Finish(r) == req' = [req EXCEPT ![r] = Idle]
Goto(r, step) == req' = [req EXCEPT ![r].pc = step]
Begin(r, changes) == At(r, "idle") /\ req' = [req EXCEPT ![r] = changes]

Revoked(s) == s \in docs /\ sess[s].revokedAt # 0

\* Mutant: the id of a removed session is handed out again.
UnusedNow(s) == s \notin docs

Unused(s) == s \notin docs /\ \A t \in issued : tok[t].sid # s

Init ==
    /\ now = 1
    /\ users = Users
    /\ docs = {}
    /\ sess = [s \in Sids |-> NoSession]
    /\ issued = LegacyTokens
    /\ tok \in {f \in [Tokens -> {NoClaims} \cup {LegacyClaims(u) : u \in Users}]
                : \A t \in Tokens : f[t].user = None <=> t \notin LegacyTokens}
    /\ legacy \in {f \in [Users -> LegacyTokens \cup {None}]
                   : \A u \in Users : f[u] # None => tok[f[u]].user = u}
    /\ access = {}
    /\ marker = [s \in Sids |-> 0]
    /\ blacklist = {}
    /\ req = [r \in Reqs |-> Idle]
    /\ lost = {} /\ audited = {}

-----------------------------------------------------------------------------
(* Handing out tokens.                                                     *)

\* Both tokens of a pair carry the session id and are signed at time at.
GiveTokens(u, s, t, at, parent) ==
    /\ issued' = issued \cup {t}
    /\ tok' = [tok EXCEPT ![t] = [user |-> u, sid |-> s, parent |-> parent,
                                  exp |-> at + RefreshTTL]]
    /\ access' = access \cup {[user |-> u, sid |-> s, exp |-> at + AccessTTL]}

LoginRequest(r, u) ==
    /\ "login" \in Ops
    /\ u \in users
    /\ Begin(r, [Idle EXCEPT !.pc = "create", !.op = "login", !.user = u,
                 !.at = now])
    /\ UNCHANGED <<now, mongo, tokens, redis, logs>>

\* Ends a login, and the migration of a legacy token.  Everything is stamped
\* when the tokens are signed; born records when the document is stored.
CreateSession(r) ==
    /\ At(r, "create")
    /\ \E s \in Sids, t \in Tokens \ issued :
          /\ Unused(s)
          /\ docs' = docs \cup {s}
          /\ sess' = [sess EXCEPT ![s] =
                [user |-> req[r].user, hash |-> t, born |-> now, active |-> req[r].at,
                 expires |-> req[r].at + RefreshTTL, revokedAt |-> 0]]
          /\ GiveTokens(req[r].user, s, t, req[r].at, req[r].tok)
    /\ Finish(r)
    /\ UNCHANGED <<now, users, redis, logs>>

-----------------------------------------------------------------------------
(* Refresh: rotation, reuse detection, legacy migration.                   *)

RefreshRequest(r, t) ==
    /\ "refresh" \in Ops
    /\ now < tok[t].exp
    /\ Begin(r, [Idle EXCEPT !.pc = "find", !.op = "refresh", !.tok = t,
                 !.sid = tok[t].sid, !.user = tok[t].user, !.at = now])
    /\ UNCHANGED <<now, mongo, tokens, redis, logs>>

\* Mutant: the two fields of the document are swapped.
FindSessionSwapped(r) ==
    /\ At(r, "find")
    /\ LET s == req[r].sid IN
       IF s \notin docs THEN Goto(r, "legacyGet")
       ELSE req' = [req EXCEPT ![r].pc = "user", ![r].hash = sess[s].user,
                               ![r].user = sess[s].hash]
    /\ UNCHANGED <<now, mongo, tokens, redis, logs>>

FindSession(r) ==
    /\ At(r, "find")
    /\ LET s == req[r].sid IN
       \/ s \notin docs /\ Goto(r, "legacyGet")
       \/ Revoked(s) /\ Finish(r)
       \/ /\ s \in docs /\ ~Revoked(s)
          /\ req' = [req EXCEPT ![r].pc = "user", ![r].hash = sess[s].hash,
                                ![r].user = sess[s].user]
    /\ UNCHANGED <<now, mongo, tokens, redis, logs>>

\* A vanished owner retires the session, a superseded token retires every
\* session of the owner, and otherwise the next pair of tokens is signed.
FindUser(r) ==
    /\ At(r, "user")
    /\ \/ req[r].user \notin users /\ Goto(r, "lookup")
       \/ /\ req[r].user \in users /\ req[r].hash # req[r].tok
          /\ req' = [req EXCEPT ![r].pc = "findAll", ![r].op = "reuse"]
       \/ /\ req[r].user \in users /\ req[r].hash = req[r].tok
          /\ req' = [req EXCEPT ![r].pc = "rotate", ![r].at = now]
    /\ UNCHANGED <<now, mongo, tokens, redis, logs>>

\* Mutant: the rotation does not compare the hash.
RotateMatchesAnyHash(s, t) == s \in docs

\* The filter of rotateIfCurrent: the id and the current hash, nothing else.
RotateMatches(s, t) == s \in docs /\ sess[s].hash = t

Rotate(r) ==
    /\ At(r, "rotate")
    /\ LET s == req[r].sid IN
       IF RotateMatches(s, req[r].tok)
       THEN \E t \in Tokens \ issued :
               /\ sess' = [sess EXCEPT ![s].hash = t, ![s].active = req[r].at,
                                       ![s].expires = req[r].at + RefreshTTL]
               /\ GiveTokens(req[r].user, s, t, req[r].at, req[r].tok)
       ELSE UNCHANGED <<sess, tokens>>
    /\ Finish(r)
    /\ UNCHANGED <<now, users, docs, redis, logs>>

\* Mutant: only an entry with another token turns the client away.
LegacyGetUnlessOther(r) ==
    /\ At(r, "legacyGet")
    /\ IF legacy[req[r].user] \in {None, req[r].tok}
       THEN Goto(r, "legacyTake") ELSE Goto(r, "legacyDrop")
    /\ UNCHANGED <<now, mongo, tokens, redis, logs>>

LegacyGet(r) ==
    /\ At(r, "legacyGet")
    /\ LET stored == legacy[req[r].user] IN
       \/ stored = None /\ Finish(r)
       \/ stored \notin {None, req[r].tok} /\ Goto(r, "legacyDrop")
       \/ stored = req[r].tok /\ Goto(r, "legacyTake")
    /\ UNCHANGED <<now, mongo, tokens, redis, logs>>

LegacyDel(r) ==
    /\ legacy' = [legacy EXCEPT ![req[r].user] = None]
    /\ \/ At(r, "legacyDrop") /\ Finish(r)
       \/ /\ At(r, "legacyTake")
          /\ req' = [req EXCEPT ![r].pc = "create", ![r].at = now]
    /\ UNCHANGED <<now, mongo, tokens, marker, blacklist, logs>>

-----------------------------------------------------------------------------
(* The auth middleware, in front of revoke, logout and delete.             *)

\* The blacklist read of a request for op, on session s where it names one.
AuthRequest(r, a, op, s, t) ==
    /\ op \in Ops
    /\ a \notin blacklist
    /\ Begin(r, [Idle EXCEPT !.pc = "marker", !.op = op, !.acc = a,
                 !.sid = s, !.tok = t, !.at = now])
    /\ UNCHANGED <<now, mongo, tokens, redis, logs>>

\* Logout also brings a refresh cookie, whichever it is.
LogoutRequest(r, a, t) == AuthRequest(r, a, "logout", tok[t].sid, t)

\* The signature check and the marker read.
PassesMarker(a) == now < a.exp /\ marker[a.sid] <= now

CheckMarker(r) ==
    /\ At(r, "marker")
    /\ IF PassesMarker(req[r].acc) THEN Goto(r, "account") ELSE Finish(r)
    /\ UNCHANGED <<now, mongo, tokens, redis, logs>>

HandlerStep(op) == [revoke |-> "lookup", logout |-> "blacklist",
                    delete |-> "delete"][op]

LoadUser(r) ==
    /\ At(r, "account")
    /\ LET u == req[r].acc.user IN
       IF u \in users
       THEN req' = [req EXCEPT ![r].user = u, ![r].pc = HandlerStep(req[r].op)]
       ELSE Finish(r)
    /\ UNCHANGED <<now, mongo, tokens, redis, logs>>

\* What the middleware decides about token a in the present state.
Accepts(a) == a \notin blacklist /\ PassesMarker(a) /\ a.user \in users

-----------------------------------------------------------------------------
(* Revocation of one session: DELETE /sessions/:id, logout, orphans.       *)

\* Logout: the access token is blacklisted until it expires; a failing write
\* and an invalid refresh cookie are both ignored.
BlacklistAccess(r) ==
    /\ At(r, "blacklist")
    /\ \/ blacklist' = IF now < req[r].acc.exp
                       THEN blacklist \cup {req[r].acc} ELSE blacklist
       \/ Faults /\ UNCHANGED blacklist
    /\ IF now < tok[req[r].tok].exp THEN Goto(r, "lookup") ELSE Finish(r)
    /\ UNCHANGED <<now, mongo, tokens, marker, legacy, logs>>

Lookup(r) ==
    /\ At(r, "lookup")
    /\ LET s == req[r].sid
           found == s \in docs /\ (req[r].op = "logout"
                                   \/ sess[s].user = req[r].user)
       IN IF found /\ ~Revoked(s) THEN Goto(r, "revoke") ELSE Finish(r)
    /\ UNCHANGED <<now, mongo, tokens, redis, logs>>

Revoke(r) ==
    /\ At(r, "revoke")
    /\ LET s == req[r].sid IN
       /\ sess' = IF s \in docs THEN [sess EXCEPT ![s].revokedAt = now] ELSE sess
       /\ req' = [req EXCEPT ![r].pc = "mark", ![r].ids = {s}]
    /\ UNCHANGED <<now, users, docs, tokens, redis, logs>>

-----------------------------------------------------------------------------
(* Revocation of many: reuse, account deletion, the idle sweep.            *)

\* Where a handler goes once its markers are written.
AfterMarks(op) == IF op \in {"reuse", "delete", "sweep"}
                  THEN [reuse |-> "audit", delete |-> "erase",
                        sweep |-> "purge"][op]
                  ELSE "idle"

\* What is left of a request once only the ids in rest still need a marker.
Marking(q, rest) ==
    IF rest # {} THEN [q EXCEPT !.pc = "mark", !.ids = rest]
    ELSE IF AfterMarks(q.op) = "idle" THEN Idle
    ELSE [q EXCEPT !.pc = AfterMarks(q.op), !.ids = {}]

DeleteLookup(r) ==
    /\ At(r, "delete")
    /\ IF req[r].user \in users THEN Goto(r, "findAll") ELSE Finish(r)
    /\ UNCHANGED <<now, mongo, tokens, redis, logs>>

\* Mutants: expired sessions, or the presented one, are left out.
ToRevokeListed(r) == {s \in docs : sess[s].user = req[r].user /\ ~Revoked(s)
                                   /\ now < sess[s].expires}
ToRevokeOthers(r) == {s \in docs \ {req[r].sid} :
                        sess[s].user = req[r].user /\ ~Revoked(s)}

\* The find of revokeAllByUser.
ToRevoke(r) == {s \in docs : sess[s].user = req[r].user /\ ~Revoked(s)}

FindAll(r) ==
    /\ At(r, "findAll")
    /\ LET found == ToRevoke(r) IN
       req' = [req EXCEPT ![r] = IF found = {} THEN Marking(@, {})
                                 ELSE [@ EXCEPT !.pc = "revokeMany", !.ids = found]]
    /\ UNCHANGED <<now, mongo, tokens, redis, logs>>

IdleSince(s, t) == sess[s].active + IdleTTL < t

SweepRequest(r) ==
    /\ "sweep" \in Ops
    /\ LET found == {s \in docs : ~Revoked(s) /\ IdleSince(s, now)} IN
       Begin(r, [Idle EXCEPT !.op = "sweep", !.at = now, !.ids = found,
                 !.pc = IF found = {} THEN "purge" ELSE "revokeMany"])
    /\ UNCHANGED <<now, mongo, tokens, redis, logs>>

RevokeMany(r) ==
    /\ At(r, "revokeMany")
    /\ sess' = [s \in Sids |-> IF s \in req[r].ids /\ s \in docs /\ ~Revoked(s)
                               THEN [sess[s] EXCEPT !.revokedAt = now]
                               ELSE sess[s]]
    /\ Goto(r, "mark")
    /\ UNCHANGED <<now, users, docs, tokens, redis, logs>>

\* Mutant: the life of the marker is rounded down.
MarkerExpiryFloor == now + MarkerTTL - 1
MarkerExpiry == now + MarkerTTL

\* One marker write; it may fail.  For a single session the failure is the
\* answer (logout swallows it), for many it is only logged.
Mark(r) ==
    /\ At(r, "mark")
    /\ \E s \in req[r].ids :
          /\ req' = [req EXCEPT ![r] = Marking(@, @.ids \ {s})]
          /\ \/ /\ marker' = [marker EXCEPT ![s] = MarkerExpiry]
                /\ lost' = lost \ {s}
             \/ /\ Faults
                /\ lost' = lost \cup {s}
                /\ UNCHANGED marker
    /\ UNCHANGED <<now, mongo, tokens, blacklist, legacy, audited>>

\* revokeAllForReuse records the event with severity "critical"; an entry the
\* schema rejects is logged and dropped by the audit service.
AuditReuse(r) ==
    /\ At(r, "audit")
    /\ audited' = IF "critical" \in AuditSeverities
                  THEN audited \cup {req[r].user} ELSE audited
    /\ Finish(r)
    /\ UNCHANGED <<now, mongo, tokens, redis, lost>>

EraseUser(r) ==
    /\ At(r, "erase")
    /\ users' = users \ {req[r].user}
    /\ Finish(r)
    /\ UNCHANGED <<now, docs, sess, tokens, redis, logs>>

\* Mutant: revoked sessions are removed at once.
PurgeableAtOnce(s, at) == Revoked(s)
Purgeable(s, at) == Revoked(s) /\ sess[s].expires + IdleTTL < at

\* deleteExpired, with the cutoff computed when the sweep began.
Purge(r) ==
    /\ At(r, "purge")
    /\ LET gone == {s \in docs : Purgeable(s, req[r].at)} IN
       /\ docs' = docs \ gone
       /\ sess' = [s \in Sids |-> IF s \in gone THEN NoSession ELSE sess[s]]
    /\ Finish(r)
    /\ UNCHANGED <<now, users, tokens, redis, logs>>

-----------------------------------------------------------------------------
\* A request dies between two awaits: Mongo rejects its next call, or the
\* process goes down, which is this step for each of its requests.
Fail(r) ==
    /\ Faults
    /\ ~At(r, "idle")
    /\ lost' = IF At(r, "mark") THEN lost \cup req[r].ids ELSE lost
    /\ Finish(r)
    /\ UNCHANGED <<now, mongo, tokens, redis, audited>>

Tick ==
    /\ now < MaxTime
    /\ now' = now + 1
    /\ UNCHANGED <<mongo, tokens, redis, req, logs>>

Start(r) ==
    \/ \E u \in Users : LoginRequest(r, u)
    \/ \E t \in issued : RefreshRequest(r, t)
    \/ \E a \in access :
          \/ \E s \in Sids : AuthRequest(r, a, "revoke", s, None)
          \/ \E t \in issued : LogoutRequest(r, a, t)
          \/ AuthRequest(r, a, "delete", None, None)
    \/ SweepRequest(r)

Continue(r) ==
    \/ CreateSession(r) \/ FindSession(r) \/ FindUser(r) \/ Rotate(r)
    \/ LegacyGet(r) \/ LegacyDel(r)
    \/ CheckMarker(r) \/ LoadUser(r) \/ BlacklistAccess(r)
    \/ Lookup(r) \/ Revoke(r)
    \/ DeleteLookup(r) \/ FindAll(r) \/ RevokeMany(r) \/ Mark(r)
    \/ AuditReuse(r) \/ EraseUser(r) \/ Purge(r)

Next ==
    \/ \E r \in Reqs : Start(r) \/ Continue(r) \/ Fail(r)
    \/ Tick

Spec == Init /\ [][Next]_vars
-----------------------------------------------------------------------------
(* Properties.                                                             *)

\* Every variable stays in its range; in particular a request never leaves
\* its handler's steps.
TypeOK ==
    /\ now \in Nat \ {0}
    /\ users \subseteq Users
    /\ docs \subseteq Sids
    /\ sess \in [Sids -> Session]
    /\ issued \subseteq Tokens
    /\ tok \in [Tokens -> Claims]
    /\ access \subseteq Access
    /\ marker \in [Sids -> Nat]
    /\ blacklist \subseteq Access
    /\ legacy \in [Users -> LegacyTokens \cup {None}]
    /\ req \in [Reqs -> Request]
    /\ lost \subseteq Sids
    /\ audited \subseteq Users

\* Two concurrent refreshes cannot both succeed: a refresh token bound to a
\* session is exchanged for at most one new pair, whatever races with it
\* (rotateIfCurrent, session.repository.js:33-39).
OneRedemption ==
    \A t, u \in issued :
        tok[t].parent = tok[u].parent /\ tok[t].parent \notin LegacyTokens \cup {None}
        => t = u

\* A request is about to write the marker of session s.
Pending(s) == \E r \in Reqs : At(r, "mark") /\ s \in req[r].ids

\* A revoked session's access tokens are rejected for their whole life: the
\* marker, which lives only REVOCATION_TTL_SECONDS, outlasts every token signed
\* before the revocation (session.service.js:15-21), unless its write failed.
RevocationHolds ==
    \A a \in access :
        Revoked(a.sid) /\ a.exp <= sess[a.sid].revokedAt + AccessTTL
        /\ ~Pending(a.sid) /\ a.sid \notin lost
        => ~Accepts(a)

\* The cleanup never drops a session one of whose refresh tokens is still
\* valid: the token would then pass for one of the pre-session store
\* (deleteExpired against auth.service.js:118-123).
TokenHasSession ==
    \A t \in issued :
        tok[t].sid # None /\ now < tok[t].exp => tok[t].sid \in docs

\* Reuse detection and account deletion are global: once their bulk revocation
\* is done, every session that existed when the request arrived is revoked or
\* removed (auth.service.js:97-100, user.service.js:133).
GlobalRevocationComplete ==
    \A r \in Reqs :
        req[r].op \in {"reuse", "delete"} /\ req[r].pc \in {"mark", "audit", "erase"}
        => \A s \in docs : sess[s].user = req[r].user /\ sess[s].born < req[r].at
                           => Revoked(s)

\* Session s is over, and no refresh that saw it alive is still under way.
Sealed(s) ==
    /\ Revoked(s) \/ (s \notin docs /\ \E t \in issued : tok[t].sid = s)
    /\ \A r \in Reqs : req[r].sid = s => req[r].pc \notin {"user", "rotate"}

\* The end of a session is final: no later request revives it or obtains a
\* token for it (revocation is a state transition, session.model.js:9-10).
SealedForGood ==
    [][\A s \in Sids : Sealed(s) =>
          /\ Sealed(s)'
          /\ \A t \in issued' \ issued : tok'[t].sid # s
          /\ \A a \in access' \ access : a.sid # s]_vars

\* No legacy entry of user u is left, nor a migration that has read it.
Migrated(u) ==
    /\ legacy[u] = None
    /\ \A r \in Reqs : req[r].user = u =>
          /\ req[r].pc # "legacyTake"
          /\ req[r].pc = "create" => req[r].tok = None

\* A legacy entry, once dropped or migrated, is gone for good: no later request
\* obtains a session from an old token of that user (auth.service.js:69-74).
MigrationEnds ==
    [][\A u \in Users : Migrated(u) =>
          /\ Migrated(u)'
          /\ \A t \in issued' \ issued :
                tok'[t].user = u => tok'[t].parent \notin LegacyTokens]_vars

-----------------------------------------------------------------------------
(* What the documents say and the code does not do.                        *)

\* auth.middleware.js:30-33: once a session is revoked, and its marker was
\* written, its access tokens are rejected.
RevokedSessionRejected ==
    \A a \in access :
        Revoked(a.sid) /\ ~Pending(a.sid) /\ a.sid \notin lost => ~Accepts(a)
=============================================================================
