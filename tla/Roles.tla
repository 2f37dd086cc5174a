-------------------------------- MODULE Roles --------------------------------
(***************************************************************************)
(* Roles and permissions: configs/seed.js, controller/admin.controller.js, *)
(* middleware/role.middleware.js with the part of the auth middleware that *)
(* loads permissions, and the role of a new account (user.service.js).     *)
(*                                                                         *)
(* A permission never changes once stored, so it is its code.  Updating    *)
(* and deleting call repository methods that do not exist: those requests, *)
(* like reads, end behind the gate and change nothing.  What else changes  *)
(* a role is an operator's hand in the database.                           *)
(***************************************************************************)
EXTENDS Naturals

CONSTANTS
    MaxRoles,   \* bound on the roles ever stored
    NewNames,   \* names administrators give to roles
    Users,
    Root,       \* the account an operator made administrator
    Choices,    \* the sets of codes administrators and operators write
    Mixes,      \* what clients ask for: sets of pairs of a user and a route
    Reqs,       \* requests in flight at once
    Faults,     \* "fail", "crash", "edit", "store": see the uses
    None

DefaultCodes == {"posts:read", "posts:create"}
SeedCodes == DefaultCodes \cup {"likes:create"}
Codes == SeedCodes \cup {"roles:manage", "custom"}
Names == NewNames \cup {"user", "admin", "operators"}
Routes == {"posts", "likes", "admin", "createRole", "createPermission"}

RoleIds == 1..MaxRoles

ASSUME RootAssumption == Root \in Users /\ MaxRoles \in Nat \ {0}
ASSUME NoneAssumption == None \notin Users /\ None \notin RoleIds /\ None \notin Names
ASSUME ChoiceAssumption ==
    Choices \subseteq SUBSET Codes /\ \A mix \in Mixes : mix \subseteq Users \X Routes
ASSUME FaultAssumption == Faults \subseteq {"fail", "crash", "edit", "store"}

VARIABLES
    perms,      \* the stored permissions
    roles,      \* the stored roles
    granted,    \* the role of each account, None without an account
    indexed,    \* do the unique indexes exist?
    boot,       \* what startServer does next
    req,        \* the requests in flight
    seen        \* history: what the user of each request was entitled to, at the
                \* moments between its arrival and its decision

stores == <<perms, roles, granted>>
roleVars == <<perms, roles, granted, indexed, boot, req, seen>>

Needs == [route \in Routes |-> CASE route = "posts" -> "posts:read"
                                 [] route = "likes" -> "likes:create"
                                 [] OTHER -> "roles:manage"]

Role == [name : Names, codes : SUBSET Codes]
ASSUME RoleAssumption == None \notin Role
Request == [pc : {"idle", "user", "roles", "perms", "gate", "denied", "admitted",
                  "name", "codes", "code", "upsert", "role", "account"},
            route : Routes \cup {"register"}, user : Users \cup {None},
            again : BOOLEAN,                    \* is the auth middleware run again?
            role : RoleIds \cup {None}, can : SUBSET Codes,
            name : Names \cup {None}, codes : SUBSET Codes, left : SUBSET Codes]
Idle == [pc |-> "idle", route |-> "register", user |-> None, again |-> FALSE, role |-> None,
         can |-> {}, name |-> None, codes |-> {}, left |-> {}]

Named(n) == {i \in RoleIds : roles[i] # None /\ roles[i].name = n}
\* Ids are issued in order.
Fresh == {i \in RoleIds : roles[i] = None /\ \A j \in 1..(i - 1) : roles[j] # None}
\* The permissions of u, when G, R and P are granted, roles and perms.
Effective(u, G, R, P) == IF G[u] = None THEN {} ELSE R[G[u]].codes \cap P
\* Has the user of request q the permission it needs?
Standing(q, G, R, P) ==
    IF Needs[q.route] \in Effective(q.user, G, R, P) THEN "entitled" ELSE "not entitled"

At(r, pc) == req[r].pc = pc
Goto(r, pc) == req' = [req EXCEPT ![r].pc = pc]
Finish(r) == req' = [req EXCEPT ![r] = Idle]

\* Before the first start an operator stored the permission to manage roles, a
\* role with it and an account with that role: neither seed nor API can.
RolesInit ==
    /\ perms = {"roles:manage"}
    /\ roles = [i \in RoleIds |->
                  IF i = 1 THEN [name |-> "operators", codes |-> perms] ELSE None]
    /\ granted = [u \in Users |-> IF u = Root THEN 1 ELSE None]
    /\ indexed = FALSE
    /\ boot = "seed"
    /\ req = [r \in Reqs |-> Idle]
    /\ seen = [r \in Reqs |-> {}]

-----------------------------------------------------------------------------
(* What the database does with roles.                                      *)

\* findOneAndUpdate with upsert writes the role i of that name, or a new one.
Upsert(n, codes, i) ==
    /\ i \in IF Named(n) # {} THEN Named(n) ELSE Fresh
    /\ roles' = [roles EXCEPT ![i] = [name |-> n, codes |-> codes]]

\* The unique index on the name of a role, once it exists.
Accepts(n) == indexed => Named(n) = {}

-----------------------------------------------------------------------------
(* The startup: seedRolesAndPermissions, then ensureIndexes.               *)

\* The upserts of all permissions are under way at once.
SeedPermission(c) ==
    /\ boot = "seed"
    /\ c \in SeedCodes \ perms
    /\ perms' = perms \cup {c}
    /\ UNCHANGED <<roles, granted, indexed, boot, req>>

\* They are awaited; then the roles are written one after the other.
SeedUserRole ==
    /\ boot = "seed" /\ SeedCodes \subseteq perms
    /\ \E i \in RoleIds : Upsert("user", DefaultCodes, i)
    /\ boot' = "admin"
    /\ UNCHANGED <<perms, granted, indexed, req>>

SeedAdminRole ==
    /\ boot = "admin"
    /\ \E i \in RoleIds : Upsert("admin", SeedCodes, i)
    /\ boot' = "indexes"
    /\ UNCHANGED <<perms, granted, indexed, req>>

\* Mutant: the indexes are not built, as in production without this step.
ListenUnindexed ==
    /\ boot = "indexes"
    /\ boot' = "serving"
    /\ UNCHANGED <<stores, indexed, req>>

\* The server listens as soon as the indexes are there.
EnsureIndexes ==
    /\ boot = "indexes"
    /\ indexed' = TRUE
    /\ boot' = "serving"
    /\ UNCHANGED <<stores, req>>

\* The process dies, or Mongo rejects a call of the startup; it starts again.
Crash ==
    /\ "crash" \in Faults
    /\ boot' = "seed"
    /\ req' = [r \in Reqs |-> Idle]
    /\ UNCHANGED <<stores, indexed>>

\* An operator edits, in the database, the role of registered users.
OperatorEdits(i, codes) ==
    /\ "edit" \in Faults
    /\ i \in Named("user") /\ codes \subseteq perms
    /\ roles' = [roles EXCEPT ![i].codes = codes]
    /\ UNCHANGED <<perms, granted, indexed, boot, req>>

-----------------------------------------------------------------------------
(* A request of a signed-in user: the auth middleware, run twice on admin  *)
(* routes, then requirePermission.                                         *)

Arrive(r, u, route) ==
    /\ boot = "serving" /\ At(r, "idle")
    /\ granted[u] # None
    /\ req' = [req EXCEPT ![r] = [Idle EXCEPT !.pc = "user", !.route = route, !.user = u,
                                   !.again = Needs[route] = "roles:manage"]]
    /\ UNCHANGED <<stores, indexed, boot>>

FindUser(r) ==
    /\ At(r, "user")
    /\ req' = [req EXCEPT ![r].role = granted[req[r].user], ![r].pc = "roles"]
    /\ UNCHANGED <<stores, indexed, boot>>

PopulateRoles(r) ==
    /\ At(r, "roles")
    /\ req' = [req EXCEPT ![r].can = roles[req[r].role].codes, ![r].role = None,
                          ![r].pc = "perms"]
    /\ UNCHANGED <<stores, indexed, boot>>

PopulatePermissions(r) ==
    /\ At(r, "perms")
    /\ req' = [req EXCEPT ![r].can = @ \cap perms, ![r].again = FALSE,
                          ![r].pc = IF req[r].again THEN "user" ELSE "gate"]
    /\ UNCHANGED <<stores, indexed, boot>>

\* Mutant: a user with any permission passes.
GrantsAny(r) == req[r].can # {}

Grants(r) == Needs[req[r].route] \in req[r].can

RequirePermission(r) ==
    /\ At(r, "gate")
    /\ req' = [req EXCEPT ![r].can = {}, ![r].pc = IF Grants(r) THEN "admitted" ELSE "denied"]
    /\ UNCHANGED <<stores, indexed, boot>>

-----------------------------------------------------------------------------
(* The handlers behind the gate.                                           *)

\* A refusal; a read, update or deletion; a handler of another module.
Answer(r) ==
    /\ At(r, "denied") \/ (At(r, "admitted") /\ req[r].route \in {"posts", "likes", "admin"})
    /\ Finish(r)
    /\ UNCHANGED <<stores, indexed, boot>>

CreateRole(r, n, codes) ==
    /\ At(r, "admitted") /\ req[r].route = "createRole"
    /\ req' = [req EXCEPT ![r].pc = "name", ![r].name = n, ![r].codes = codes, ![r].left = codes]
    /\ UNCHANGED <<stores, indexed, boot>>

FindRoleName(r) ==
    /\ At(r, "name")
    /\ IF Named(req[r].name) # {} THEN Finish(r) ELSE Goto(r, "codes")
    /\ UNCHANGED <<stores, indexed, boot>>

\* Mutant: a code that is not stored is not noticed.
FindCodeUnchecked(r) ==
    /\ At(r, "codes")
    /\ \E c \in req[r].left : req' = [req EXCEPT ![r].left = @ \ {c}]
    /\ UNCHANGED <<stores, indexed, boot>>

\* One read per code, each awaited.
FindCode(r) ==
    /\ At(r, "codes")
    /\ \E c \in req[r].left :
          IF c \in perms THEN req' = [req EXCEPT ![r].left = @ \ {c}] ELSE Finish(r)
    /\ UNCHANGED <<stores, indexed, boot>>

\* The unique index decides between requests that all found the name free.  No
\* role is added to MaxRoles.
SaveRole(r) ==
    /\ At(r, "codes") /\ req[r].left = {}
    /\ IF Accepts(req[r].name)
       THEN \E i \in Fresh :
               roles' = [roles EXCEPT ![i] = [name |-> req[r].name, codes |-> req[r].codes]]
       ELSE UNCHANGED roles
    /\ Finish(r)
    /\ UNCHANGED <<perms, granted, indexed, boot>>

CreatePermission(r, c) ==
    /\ At(r, "admitted") /\ req[r].route = "createPermission"
    /\ IF c \in perms THEN Finish(r)
       ELSE req' = [req EXCEPT ![r].pc = "code", ![r].codes = {c}]
    /\ UNCHANGED <<stores, indexed, boot>>

\* Stored by another request in the meantime, the code is rejected.
SavePermission(r) ==
    /\ At(r, "code")
    /\ perms' = perms \cup req[r].codes
    /\ Finish(r)
    /\ UNCHANGED <<roles, granted, indexed, boot>>

-----------------------------------------------------------------------------
(* registerUser, once its lookups found email and name free (Accounts).    *)

Register(r) ==
    /\ boot = "serving" /\ At(r, "idle")
    /\ req' = [req EXCEPT ![r] = [Idle EXCEPT !.pc = "upsert", !.left = DefaultCodes]]
    /\ UNCHANGED <<stores, indexed, boot>>

UpsertPermission(r) ==
    /\ At(r, "upsert")
    /\ \E c \in req[r].left :
          /\ perms' = perms \cup {c}
          /\ req' = [req EXCEPT ![r].left = @ \ {c},
                                ![r].pc = IF req[r].left = {c} THEN "role" ELSE @]
    /\ UNCHANGED <<roles, granted, indexed, boot>>

\* Whatever the role "user" was changed to, a registration sets it back.
UpsertDefaultRole(r) ==
    /\ At(r, "role")
    /\ \E i \in RoleIds : /\ Upsert("user", DefaultCodes, i)
                          /\ req' = [req EXCEPT ![r].role = i, ![r].pc = "account"]
    /\ UNCHANGED <<perms, granted, indexed, boot>>

\* With every user registered the request waits: the bound, not the code.
CreateUser(r) ==
    /\ At(r, "account")
    /\ \E u \in {v \in Users : granted[v] = None} :
          granted' = [granted EXCEPT ![u] = req[r].role]
    /\ Finish(r)
    /\ UNCHANGED <<perms, roles, indexed, boot>>

\* Mongo rejects a call.
Fail(r) ==
    /\ "fail" \in Faults /\ ~At(r, "idle")
    /\ Finish(r)
    /\ UNCHANGED <<stores, indexed, boot>>

-----------------------------------------------------------------------------
Deciding(pc) == pc \in {"user", "roles", "perms", "gate"}

\* What the step adds to the history.
Watch ==
    seen' = [r \in Reqs |->
        IF Deciding(req'[r].pc)
        THEN (IF Deciding(req[r].pc) THEN seen[r] ELSE {})
                \cup {Standing(req'[r], granted', roles', perms')}
        ELSE IF req'[r].pc \in {"admitted", "denied"} THEN seen[r] ELSE {}]

Startup == \/ \E c \in SeedCodes : SeedPermission(c)
           \/ SeedUserRole \/ SeedAdminRole \/ EnsureIndexes

Authenticate(r) == FindUser(r) \/ PopulateRoles(r) \/ PopulatePermissions(r)

Behind(r) ==
    \/ Answer(r) \/ FindRoleName(r) \/ FindCode(r) \/ SaveRole(r) \/ SavePermission(r)
    \/ \E n \in Names, codes \in Choices : CreateRole(r, n, codes)
    \/ \E c \in Codes : CreatePermission(r, c)
    \/ UpsertPermission(r) \/ UpsertDefaultRole(r) \/ CreateUser(r)

\* The references between documents, which no database constraint checks, are
\* part of the type: a role has stored permissions, an account a stored role
\* (admin.controller.js:41-48, user.service.js:21-26).
RolesTypeOK ==
    /\ perms \subseteq Codes
    /\ roles \in [RoleIds -> Role \cup {None}]
    /\ granted \in [Users -> RoleIds \cup {None}]
    /\ indexed \in BOOLEAN
    /\ boot \in {"seed", "admin", "indexes", "serving"}
    /\ req \in [Reqs -> Request]
    /\ seen \in [Reqs -> SUBSET {"entitled", "not entitled"}]
    /\ \A i \in RoleIds : roles[i] # None => roles[i].codes \subseteq perms
    /\ \A u \in Users : granted[u] # None => roles[granted[u]] # None

\* Permissions are loaded in several reads while roles change, yet the decision
\* on a request is one that was right at some moment since it arrived: a change
\* of policy that came before applies (role.middleware.js:6-7).
DecisionSound == \A r \in Reqs :
    /\ At(r, "admitted") => "entitled" \in seen[r]
    /\ At(r, "denied") => "not entitled" \in seen[r]

\* A name denotes one role: whatever requests race to create it, and however
\* often the process starts again, the index that decides is there before the
\* first request (index.js:34-43, admin.controller.js:36-38).
NamesUnique == \A i, j \in RoleIds :
    roles[i] # None /\ roles[j] # None /\ roles[i].name = roles[j].name => i = j
=============================================================================
