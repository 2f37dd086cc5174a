------------------------------- MODULE Gateway -------------------------------
(***************************************************************************)
(* The way of a request as app.js composes it: the auth middleware, the    *)
(* quotas of the path, the permission gate, the handler; a registration    *)
(* passes the quota of its address only.  Components Roles and RateLimit.  *)
(***************************************************************************)
EXTENDS Roles, RateLimit, Sequences

CONSTANT Address                \* the client address of those without account

ASSUME ClientAssumption == Clients = Users \cup {Address} /\ Address \notin Users
ASSUME LimiterAssumption == Limiters = {"api", "social", "auth"}

VARIABLES
    asks,       \* what the clients of this behaviour ask for; never changes
    due         \* the quotas each request has yet to pass

vars == <<roleVars, quotaVars, asks, due>>

\* What each route mounts; every quota is asked for in turn.
Mounted == [route \in Routes \cup {"register"} |->
    CASE route = "posts" -> <<"api">>
      [] route = "likes" -> <<"api", "social">>
      [] route = "register" -> <<"auth">>
      [] OTHER -> << >>]

Client(r) == IF req[r].route = "register" THEN Address ELSE req[r].user

Init == RolesInit /\ QuotaInit /\ asks \in Mixes /\ due = [r \in Reqs |-> << >>]

\* A request starts with all its quotas to pass.
Begin(r) ==
    /\ \/ Register(r)
       \/ \E ask \in asks : Arrive(r, ask[1], ask[2])
    /\ due' = [due EXCEPT ![r] = Mounted[req'[r].route]]
    /\ UNCHANGED quotaVars

\* Behind the auth middleware, or for a registration at once.
AtLimiter(r) == (At(r, "gate") \/ At(r, "upsert")) /\ due[r] # << >>

\* The script of the next limiter runs; a request over the quota ends here.
PassQuota(r) ==
    /\ AtLimiter(r)
    /\ LET l == Head(due[r]) IN
       /\ Hit(Client(r), l)
       /\ IF Within(Client(r), l)
          THEN due' = [due EXCEPT ![r] = Tail(@)] /\ UNCHANGED req
          ELSE due' = [due EXCEPT ![r] = << >>] /\ Finish(r)
    /\ UNCHANGED <<stores, indexed, boot>>

\* The store's error ends the request, though the hit may have been counted.
QuotaFails(r) ==
    /\ AtLimiter(r) /\ "store" \in Faults
    /\ \/ HitUnanswered(Client(r), Head(due[r]))
       \/ UNCHANGED quotaVars
    /\ due' = [due EXCEPT ![r] = << >>]
    /\ Finish(r)
    /\ UNCHANGED <<stores, indexed, boot>>

\* Every other step of a request, once it has passed its quotas.
Proceed(r) ==
    /\ ~AtLimiter(r)
    /\ Authenticate(r) \/ RequirePermission(r) \/ Behind(r)
    /\ UNCHANGED <<quotaVars, due>>

Abort(r) ==
    /\ Fail(r)
    /\ due' = [due EXCEPT ![r] = << >>]
    /\ UNCHANGED quotaVars

Restart ==
    /\ Crash
    /\ due' = [r \in Reqs |-> << >>]
    /\ UNCHANGED quotaVars

Elsewhere ==
    /\ Startup \/ \E i \in RoleIds, codes \in Choices : OperatorEdits(i, codes)
    /\ UNCHANGED <<quotaVars, due>>

Time(c) == Tick(c) /\ UNCHANGED <<stores, indexed, boot, req, due>>

Next ==
    /\ \/ \E r \in Reqs : Begin(r) \/ PassQuota(r) \/ QuotaFails(r) \/ Proceed(r) \/ Abort(r)
       \/ Restart \/ Elsewhere
       \/ \E c \in Clients : Time(c)
    /\ Watch
    /\ UNCHANGED asks

Spec == Init /\ [][Next]_vars
-----------------------------------------------------------------------------
(* Properties.                                                             *)

TypeOK ==
    /\ RolesTypeOK /\ QuotaTypeOK
    /\ asks \in Mixes /\ due \in [Reqs -> Seq(Limiters)]
=============================================================================
