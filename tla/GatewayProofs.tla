---------------------------- MODULE GatewayProofs ----------------------------
(***************************************************************************)
(* For any number of users, roles, requests and limiters: what the gate    *)
(* decides, the names of roles, and the quotas.                            *)
(***************************************************************************)
EXTENDS Gateway, TLAPS

-----------------------------------------------------------------------------
(* Roles: the invariant.                                                   *)

AtGate == {"user", "roles", "perms", "gate", "admitted", "denied"}

\* Requests are served only once the indexes are there.
Served(q) == q.pc # "idle" => indexed

\* What a request has read stays true: nothing is ever removed.
ReadsOK(q) ==
    /\ q.pc \in AtGate => q.route \in Routes /\ q.user \in Users /\ granted[q.user] # None
    /\ q.pc = "roles" => q.role = granted[q.user]
    /\ q.pc = "account" => q.role \in RoleIds /\ roles[q.role] # None
    /\ q.pc = "upsert" => /\ q.route = "register" /\ q.left \subseteq DefaultCodes
                          /\ DefaultCodes \ q.left \subseteq perms
    /\ q.pc = "role" => DefaultCodes \subseteq perms
    /\ q.pc \in {"name", "codes"} => q.name \in Names
    /\ q.pc = "name" => q.left = q.codes
    /\ q.pc = "codes" => q.codes \ q.left \subseteq perms

ReqOK(q) == Served(q) /\ ReadsOK(q)

StoresOK ==
    /\ perms \subseteq Codes
    /\ roles \in [RoleIds -> Role \cup {None}]
    /\ granted \in [Users -> RoleIds \cup {None}]
    /\ indexed \in BOOLEAN
    /\ boot \in {"seed", "admin", "indexes", "serving"}
    /\ \A i \in RoleIds : roles[i] # None => roles[i].codes \subseteq perms
    /\ \A u \in Users : granted[u] # None => roles[granted[u]] # None
    /\ boot # "seed" => SeedCodes \subseteq perms
    /\ boot = "serving" => indexed

ReqsOK == req \in [Reqs -> Request] /\ \A r \in Reqs : ReqOK(req[r])

RolesInv == StoresOK /\ ReqsOK /\ NamesUnique

Grows == /\ perms \subseteq perms' /\ (indexed => indexed')
         /\ \A i \in RoleIds : roles[i] # None => roles'[i] # None
         /\ \A u \in Users : granted[u] # None => granted'[u] = granted[u]

LEMMA Stable ==
    ASSUME NEW q \in Request, ReqOK(q), Grows, StoresOK PROVE ReqOK(q)'
<1>1. Served(q)'
  BY Zenon DEF Served, ReqOK, Grows
<1>2. ReadsOK(q)'
  BY DEF ReadsOK, ReqOK, Grows, StoresOK, AtGate
<1> QED BY <1>1, <1>2 DEF ReqOK

\* How a step of request r leaves the requests.
Outcome(r) == /\ req' \in [Reqs -> Request]
              /\ \A p \in Reqs \ {r} : req'[p] = req[p]
              /\ ReqOK(req[r])'

LEMMA OneRequest ==
    ASSUME RolesInv, NEW r \in Reqs, Outcome(r), Grows PROVE ReqsOK'
<1> SUFFICES ASSUME NEW p \in Reqs PROVE ReqOK(req[p])'
  BY DEF ReqsOK, Outcome
<1>1. CASE p = r
  BY <1>1 DEF Outcome
<1>2. CASE p # r
  <2>1. PICK q \in Request : q = req[p]
    BY DEF RolesInv, ReqsOK
  <2>2. ReqOK(q)
    BY <2>1 DEF RolesInv, ReqsOK
  <2>3. ReqOK(q)'
    BY <2>2, Stable DEF RolesInv
  <2>4. req'[p] = q
    BY <1>2, <2>1 DEF Outcome
  <2> QED BY <2>3, <2>4 DEF ReqOK, Served, ReadsOK
<1> QED BY <1>1, <1>2

LEMMA SameRequests == ASSUME RolesInv, req' = req, Grows PROVE ReqsOK'
<1> SUFFICES ASSUME NEW p \in Reqs PROVE ReqOK(req[p])'
  BY DEF ReqsOK, RolesInv
<1>1. PICK q \in Request : q = req[p]
  BY DEF RolesInv, ReqsOK
<1>2. ReqOK(q)
  BY <1>1 DEF RolesInv, ReqsOK
<1>3. ReqOK(q)'
  BY <1>2, Stable DEF RolesInv
<1> QED BY <1>1, <1>3 DEF ReqOK, Served, ReadsOK

LEMMA Quiet == ASSUME StoresOK, UNCHANGED <<perms, roles, granted, indexed>> PROVE Grows
  BY DEF Grows

LEMMA SameStores == ASSUME RolesInv, UNCHANGED <<stores, indexed, boot>>
                    PROVE  StoresOK' /\ NamesUnique' /\ Grows
  BY DEF RolesInv, StoresOK, NamesUnique, Grows, stores

LEMMA IdleFields ==
    /\ Idle \in Request /\ Idle.pc = "idle" /\ Idle.can = {} /\ Idle.left = {}
    /\ Idle.route = "register"
<1>1. PICK b \in BOOLEAN : b = FALSE
  OBVIOUS
<1>2. Idle = [pc |-> "idle", route |-> "register", user |-> None, again |-> b, role |-> None,
              can |-> {}, name |-> None, codes |-> {}, left |-> {}]
  BY <1>1, Zenon DEF Idle
<1>3. Idle \in Request
  BY <1>2 DEF Request
<1> QED BY <1>2, <1>3

LEMMA Finishes ==
    ASSUME RolesInv, NEW r \in Reqs, Finish(r) PROVE Outcome(r) /\ req'[r].pc = "idle"
<1>1. req'[r] = Idle
  BY DEF Finish, RolesInv, ReqsOK
<1>2. ReqOK(req[r])'
  BY <1>1, IdleFields DEF ReqOK, Served, ReadsOK, AtGate
<1> QED BY <1>1, <1>2, IdleFields DEF Finish, Outcome, RolesInv, ReqsOK

-----------------------------------------------------------------------------
(* The startup, and what happens beside the requests.                      *)

LEMMA NewRole ==
    ASSUME RolesInv, NEW n \in Names, NEW codes \in SUBSET perms, NEW i \in RoleIds,
           roles' = [roles EXCEPT ![i] = [name |-> n, codes |-> codes]],
           \A j \in RoleIds : roles[j] # None /\ roles[j].name = n => j = i,
           UNCHANGED <<perms, granted, indexed>>,
           boot' \in {"seed", "admin", "indexes", "serving"},
           boot' # "seed" => SeedCodes \subseteq perms, boot' = "serving" => indexed
    PROVE  StoresOK' /\ NamesUnique' /\ Grows
<1> USE DEF RolesInv, StoresOK
<1> DEFINE new == [name |-> n, codes |-> codes]
<1>1. new \in Role /\ new.name = n /\ new.codes = codes
  BY DEF Role
<1>2. roles'[i] = new /\ \A j \in RoleIds : j # i => roles'[j] = roles[j]
  OBVIOUS
<1>3. new # None
  BY <1>1, RoleAssumption
<1> HIDE DEF new
<1> QED BY <1>1, <1>2, <1>3 DEF NamesUnique, Grows

LEMMA UpsertsRole ==
    ASSUME RolesInv, NEW n \in Names, NEW codes \in SUBSET perms, NEW i \in RoleIds,
           Upsert(n, codes, i), UNCHANGED <<perms, granted, indexed>>,
           boot' \in {"seed", "admin", "indexes", "serving"},
           boot' # "seed" => SeedCodes \subseteq perms, boot' = "serving" => indexed
    PROVE  StoresOK' /\ NamesUnique' /\ Grows
<1>1. \A j \in RoleIds : roles[j] # None /\ roles[j].name = n => j = i
  BY DEF Upsert, Named, RolesInv, NamesUnique
<1>2. roles' = [roles EXCEPT ![i] = [name |-> n, codes |-> codes]]
  BY DEF Upsert
<1> QED BY <1>1, <1>2, NewRole

LEMMA StartupKeeps == ASSUME RolesInv, Startup PROVE RolesInv' /\ Grows /\ req' = req
<1> USE DEF Startup
<1>1. CASE \E c \in SeedCodes : SeedPermission(c)
  <2>1. StoresOK' /\ NamesUnique' /\ Grows
    BY <1>1 DEF SeedPermission, RolesInv, StoresOK, NamesUnique, Grows, Codes
  <2>2. ReqsOK'
    BY <1>1, <2>1, SameRequests DEF SeedPermission
  <2> QED BY <1>1, <2>1, <2>2 DEF RolesInv, SeedPermission
<1>2. CASE SeedUserRole
  <2>1. PICK i \in RoleIds : Upsert("user", DefaultCodes, i)
    BY <1>2 DEF SeedUserRole
  <2>2. StoresOK' /\ NamesUnique' /\ Grows
    <3>1. DefaultCodes \in SUBSET perms /\ "user" \in Names
      BY <1>2 DEF SeedUserRole, SeedCodes, Names
    <3>2. SeedCodes \subseteq perms /\ boot' = "admin" /\ UNCHANGED <<perms, granted, indexed>>
      BY <1>2 DEF SeedUserRole
    <3> QED BY <2>1, <3>1, <3>2, UpsertsRole
  <2>3. ReqsOK'
    BY <1>2, <2>2, SameRequests DEF SeedUserRole
  <2> QED BY <1>2, <2>2, <2>3 DEF RolesInv, SeedUserRole
<1>3. CASE SeedAdminRole
  <2>1. PICK i \in RoleIds : Upsert("admin", SeedCodes, i)
    BY <1>3 DEF SeedAdminRole
  <2>2. StoresOK' /\ NamesUnique' /\ Grows
    <3>1. SeedCodes \in SUBSET perms /\ "admin" \in Names
      BY <1>3 DEF SeedAdminRole, Names, RolesInv, StoresOK
    <3>2. boot' = "indexes" /\ UNCHANGED <<perms, granted, indexed>>
      BY <1>3 DEF SeedAdminRole
    <3> QED BY <2>1, <3>1, <3>2, UpsertsRole
  <2>3. ReqsOK'
    BY <1>3, <2>2, SameRequests DEF SeedAdminRole
  <2> QED BY <1>3, <2>2, <2>3 DEF RolesInv, SeedAdminRole
<1>4. CASE EnsureIndexes
  <2>1. StoresOK' /\ NamesUnique' /\ Grows
    BY <1>4 DEF EnsureIndexes, stores, RolesInv, StoresOK, NamesUnique, Grows
  <2>2. ReqsOK'
    BY <1>4, <2>1, SameRequests DEF EnsureIndexes
  <2> QED BY <1>4, <2>1, <2>2 DEF RolesInv, EnsureIndexes
<1> QED BY <1>1, <1>2, <1>3, <1>4

LEMMA CrashKeeps ==
    ASSUME RolesInv, Crash
    PROVE  RolesInv' /\ Grows /\ \A r \in Reqs : req'[r].pc = "idle"
<1>1. StoresOK' /\ NamesUnique' /\ Grows
  BY DEF Crash, stores, RolesInv, StoresOK, NamesUnique, Grows
<1>2. \A r \in Reqs : req'[r] = Idle
  BY DEF Crash
<1>3. ReqsOK'
  <2> SUFFICES ASSUME NEW r \in Reqs PROVE ReqOK(req[r])'
    BY <1>2, IdleFields DEF ReqsOK, Crash
  <2> QED BY <1>2, IdleFields DEF ReqOK, Served, ReadsOK, AtGate
<1> QED BY <1>1, <1>2, <1>3, IdleFields DEF RolesInv

LEMMA OperatorKeeps ==
    ASSUME RolesInv, NEW i \in RoleIds, NEW codes \in Choices, OperatorEdits(i, codes)
    PROVE  RolesInv' /\ Grows /\ req' = req
<1>1. roles[i] # None /\ roles[i] \in Role /\ roles[i].name = "user" /\ codes \in SUBSET perms
  BY DEF OperatorEdits, Named, RolesInv, StoresOK
<1>2. roles' = [roles EXCEPT ![i] = [name |-> "user", codes |-> codes]]
  <2>1. [roles[i] EXCEPT !.codes = codes] = [name |-> "user", codes |-> codes]
    BY <1>1 DEF Role
  <2> QED BY <2>1 DEF OperatorEdits
<1>3. StoresOK' /\ NamesUnique' /\ Grows
  <2>1. \A j \in RoleIds : roles[j] # None /\ roles[j].name = "user" => j = i
    BY <1>1 DEF RolesInv, NamesUnique
  <2>2. "user" \in Names
    BY DEF Names
  <2>3. UNCHANGED <<perms, granted, indexed, boot>>
    BY DEF OperatorEdits
  <2> QED BY <1>1, <1>2, <2>1, <2>2, <2>3, NewRole DEF RolesInv, StoresOK
<1>4. ReqsOK'
  BY <1>3, SameRequests DEF OperatorEdits
<1> QED BY <1>3, <1>4 DEF RolesInv, OperatorEdits

-----------------------------------------------------------------------------
(* The requests.                                                           *)

\* What a step of r means for the decision on it.
Reads(r) ==
    /\ Deciding(req[r].pc) /\ UNCHANGED stores
    /\ req'[r].route = req[r].route /\ req'[r].user = req[r].user
    /\ \/ req'[r].pc \in {"user", "roles"}
       \/ req'[r].pc = "perms" /\ req'[r].can = roles[granted[req[r].user]].codes
       \/ /\ req[r].pc = "perms" /\ req'[r].pc = "gate"
          /\ req'[r].can = req[r].can \cap perms
       \/ /\ req[r].pc = "gate"
          /\ req'[r].pc = IF Needs[req[r].route] \in req[r].can THEN "admitted" ELSE "denied"

Decides(r) == \/ req'[r].pc \notin AtGate
              \/ req'[r].pc = "user" /\ ~Deciding(req[r].pc)
              \/ Reads(r)

Stepped(r) == /\ RolesInv' /\ Grows /\ Decides(r)
              /\ \A p \in Reqs \ {r} : req'[p] = req[p]

\* A step of r that writes nothing.
LEMMA ReadStep ==
    ASSUME RolesInv, NEW r \in Reqs, NEW q \in Request,
           req' = [req EXCEPT ![r] = q], UNCHANGED <<stores, indexed, boot>>,
           ReqOK(q), Decides(r)
    PROVE  Stepped(r)
<1>1. StoresOK' /\ NamesUnique' /\ Grows
  BY SameStores
<1>2. ReqOK(q)'
  BY <1>1, Stable DEF RolesInv
<1>3. req'[r] = q
  BY DEF RolesInv, ReqsOK
<1>4. Outcome(r)
  BY <1>2, <1>3 DEF Outcome, RolesInv, ReqsOK, ReqOK, Served, ReadsOK
<1> QED BY <1>1, <1>4, OneRequest DEF RolesInv, Stepped, Outcome

LEMMA FinishStep ==
    ASSUME RolesInv, NEW r \in Reqs, Finish(r), UNCHANGED <<stores, indexed, boot>>
    PROVE  Stepped(r)
<1>1. Outcome(r) /\ req'[r].pc = "idle"
  BY Finishes
<1>2. Decides(r)
  BY <1>1 DEF Decides, AtGate
<1> QED BY <1>1, <1>2, SameStores, OneRequest DEF RolesInv, Stepped, Outcome

\* A step of r that writes, and answers.
LEMMA WriteStep ==
    ASSUME RolesInv, NEW r \in Reqs, Finish(r), StoresOK', NamesUnique', Grows
    PROVE  Stepped(r)
<1>1. Outcome(r) /\ req'[r].pc = "idle"
  BY Finishes
<1>2. Decides(r)
  BY <1>1 DEF Decides, AtGate
<1> QED BY <1>1, <1>2, OneRequest DEF RolesInv, Stepped, Outcome

\* What is known of a request under way.
LEMMA Known ==
    ASSUME RolesInv, NEW r \in Reqs
    PROVE  /\ req[r] \in Request /\ ReadsOK(req[r])
           /\ req[r].pc # "idle" => indexed
           /\ req[r].pc \in AtGate => granted[req[r].user] \in RoleIds
           /\ \A q : req' = [req EXCEPT ![r] = q] => req'[r] = q
  BY DEF RolesInv, ReqsOK, ReqOK, Served, ReadsOK, StoresOK

LEMMA ArriveKeeps ==
    ASSUME RolesInv, NEW r \in Reqs, NEW u \in Users, NEW route \in Routes, Arrive(r, u, route)
    PROVE  Stepped(r)
<1>1. PICK b \in BOOLEAN : b = (Needs[route] = "roles:manage")
  OBVIOUS
<1>2. PICK q : q = [Idle EXCEPT !.pc = "user", !.route = route, !.user = u, !.again = b]
  OBVIOUS
<1>3. q \in Request /\ q.pc = "user" /\ q.route = route /\ q.user = u
  BY <1>2, IdleFields DEF Request
<1>4. req' = [req EXCEPT ![r] = q]
  BY <1>1, <1>2, Zenon DEF Arrive
<1>5. indexed /\ granted[u] # None
  BY DEF Arrive, RolesInv, StoresOK
<1>6. ReqOK(q)
  BY <1>3, <1>5 DEF ReqOK, Served, ReadsOK
<1>7. Decides(r)
  BY <1>3, <1>4, Known DEF Decides, Arrive, At, Deciding
<1> QED BY <1>3, <1>4, <1>6, <1>7, ReadStep DEF Arrive

LEMMA RegisterKeeps == ASSUME RolesInv, NEW r \in Reqs, Register(r) PROVE Stepped(r)
<1>1. PICK q : q = [Idle EXCEPT !.pc = "upsert", !.left = DefaultCodes]
  OBVIOUS
<1>2. q \in Request /\ q.pc = "upsert" /\ q.left = DefaultCodes /\ q.route = "register"
  BY <1>1, IdleFields DEF Request, Codes, SeedCodes
<1>3. req' = [req EXCEPT ![r] = q]
  BY <1>1 DEF Register
<1>4. ReqOK(q)
  BY <1>2 DEF ReqOK, Served, ReadsOK, AtGate, Register, RolesInv, StoresOK
<1>5. Decides(r)
  BY <1>2, <1>3, Known DEF Decides, AtGate
<1> QED BY <1>2, <1>3, <1>4, <1>5, ReadStep DEF Register

LEMMA FindUserKeeps == ASSUME RolesInv, NEW r \in Reqs, FindUser(r) PROVE Stepped(r)
<1>1. PICK q : q = [req[r] EXCEPT !.role = granted[req[r].user], !.pc = "roles"]
  OBVIOUS
<1>2. /\ q \in Request /\ q.pc = "roles" /\ q.role = granted[req[r].user]
      /\ q.user = req[r].user /\ q.route = req[r].route
  BY ZenonT(60), <1>1, Known DEF Request, FindUser, At, AtGate
<1>3. req' = [req EXCEPT ![r] = q]
  BY <1>1, Known DEF FindUser, Request, RolesInv, ReqsOK
<1>4. ReqOK(q)
  BY <1>2, Known DEF ReqOK, Served, ReadsOK, AtGate, FindUser, At
<1>5. Decides(r)
  BY <1>2, <1>3, Known DEF Decides, Reads, FindUser, At, Deciding
<1> QED BY <1>2, <1>3, <1>4, <1>5, ReadStep DEF FindUser

LEMMA PopulateRolesKeeps == ASSUME RolesInv, NEW r \in Reqs, PopulateRoles(r) PROVE Stepped(r)
<1>0. req[r].role = granted[req[r].user] /\ roles[req[r].role].codes \in SUBSET Codes
  BY Known DEF PopulateRoles, At, AtGate, ReadsOK, RolesInv, StoresOK, Role
<1>1. PICK q : q = [req[r] EXCEPT !.can = roles[req[r].role].codes, !.role = None, !.pc = "perms"]
  OBVIOUS
<1>2. /\ q \in Request /\ q.pc = "perms" /\ q.user = req[r].user /\ q.route = req[r].route
      /\ q.can = roles[req[r].role].codes
  BY <1>0, <1>1, Known DEF Request
<1>3. req' = [req EXCEPT ![r] = q]
  BY <1>1, Known DEF PopulateRoles, Request, RolesInv, ReqsOK
<1>4. ReqOK(q)
  BY <1>2, Known DEF ReqOK, Served, ReadsOK, AtGate, PopulateRoles, At
<1>5. Decides(r)
  BY <1>0, <1>2, <1>3, Known DEF Decides, Reads, PopulateRoles, At, Deciding
<1> QED BY <1>2, <1>3, <1>4, <1>5, ReadStep DEF PopulateRoles

LEMMA PopulatePermissionsKeeps ==
    ASSUME RolesInv, NEW r \in Reqs, PopulatePermissions(r) PROVE Stepped(r)
<1>0. PICK b \in BOOLEAN : b = FALSE
  OBVIOUS
<1>1. PICK pc \in {"user", "gate"} : pc = IF req[r].again THEN "user" ELSE "gate"
  OBVIOUS
<1>2. PICK q : q = [req[r] EXCEPT !.can = @ \cap perms, !.again = b, !.pc = pc]
  OBVIOUS
<1>3. /\ q \in Request /\ q.pc = pc /\ q.user = req[r].user /\ q.route = req[r].route
      /\ q.can = req[r].can \cap perms
  BY <1>2, Known DEF Request
<1>4. req' = [req EXCEPT ![r] = q]
  <2>1. req' = [req EXCEPT ![r].can = @ \cap perms, ![r].again = b, ![r].pc = pc]
    BY <1>0, <1>1, Zenon DEF PopulatePermissions
  <2> QED BY <1>2, <2>1, Known DEF Request, RolesInv, ReqsOK
<1>5. ReqOK(q)
  BY <1>3, Known DEF ReqOK, Served, ReadsOK, AtGate, PopulatePermissions, At
<1>6. Decides(r)
  BY <1>3, <1>4, Known DEF Decides, Reads, PopulatePermissions, At, Deciding
<1> QED BY <1>3, <1>4, <1>5, <1>6, ReadStep DEF PopulatePermissions

LEMMA RequirePermissionKeeps ==
    ASSUME RolesInv, NEW r \in Reqs, RequirePermission(r) PROVE Stepped(r)
<1>1. PICK pc \in {"admitted", "denied"} :
          pc = IF Needs[req[r].route] \in req[r].can THEN "admitted" ELSE "denied"
  OBVIOUS
<1>2. PICK q : q = [req[r] EXCEPT !.can = {}, !.pc = pc]
  OBVIOUS
<1>3. q \in Request /\ q.pc = pc /\ q.user = req[r].user /\ q.route = req[r].route
  BY <1>2, Known DEF Request
<1>4. req' = [req EXCEPT ![r] = q]
  BY <1>1, <1>2, Known DEF RequirePermission, Grants, Request, RolesInv, ReqsOK
<1>5. ReqOK(q)
  BY <1>3, Known DEF ReqOK, Served, ReadsOK, AtGate, RequirePermission, At
<1>6. Decides(r)
  BY <1>1, <1>3, <1>4, Known DEF Decides, Reads, RequirePermission, At, Deciding
<1> QED BY <1>3, <1>4, <1>5, <1>6, ReadStep DEF RequirePermission

LEMMA AnswerKeeps == ASSUME RolesInv, NEW r \in Reqs, Answer(r) PROVE Stepped(r)
  BY FinishStep DEF Answer

LEMMA CreateRoleKeeps ==
    ASSUME RolesInv, NEW r \in Reqs, NEW n \in Names, NEW codes \in Choices, CreateRole(r, n, codes)
    PROVE  Stepped(r)
<1>0. codes \in SUBSET Codes
  BY ChoiceAssumption
<1>1. PICK q : q = [req[r] EXCEPT !.pc = "name", !.name = n, !.codes = codes, !.left = codes]
  OBVIOUS
<1>2. q \in Request /\ q.pc = "name" /\ q.name = n /\ q.codes = codes /\ q.left = codes
  BY <1>0, <1>1, Known DEF Request
<1>3. req' = [req EXCEPT ![r] = q]
  BY <1>1, Known DEF CreateRole, Request, RolesInv, ReqsOK
<1>4. ReqOK(q)
  BY <1>2, Known DEF ReqOK, Served, ReadsOK, AtGate, CreateRole, At
<1>5. Decides(r)
  BY <1>2, <1>3, Known DEF Decides, AtGate
<1> QED BY <1>2, <1>3, <1>4, <1>5, ReadStep DEF CreateRole

LEMMA FindRoleNameKeeps == ASSUME RolesInv, NEW r \in Reqs, FindRoleName(r) PROVE Stepped(r)
<1> USE DEF FindRoleName
<1>1. CASE Named(req[r].name) # {}
  BY <1>1, FinishStep
<1>2. CASE Named(req[r].name) = {}
  <2>1. PICK q : q = [req[r] EXCEPT !.pc = "codes"]
    OBVIOUS
  <2>2. q \in Request /\ q.pc = "codes" /\ q.name = req[r].name /\ q.codes = req[r].codes
        /\ q.left = req[r].left
    BY <2>1, Known DEF Request
  <2>3. req' = [req EXCEPT ![r] = q]
    BY <1>2, <2>1, Known DEF Goto, Request, RolesInv, ReqsOK
  <2>4. ReqOK(q)
    BY <2>2, Known DEF ReqOK, Served, ReadsOK, AtGate, At
  <2>5. Decides(r)
    BY <2>2, <2>3, Known DEF Decides, AtGate
  <2> QED BY <2>2, <2>3, <2>4, <2>5, ReadStep
<1> QED BY <1>1, <1>2

LEMMA FindCodeKeeps == ASSUME RolesInv, NEW r \in Reqs, FindCode(r) PROVE Stepped(r)
<1>1. PICK c \in req[r].left :
        IF c \in perms THEN req' = [req EXCEPT ![r].left = @ \ {c}] ELSE Finish(r)
  BY DEF FindCode
<1>2. CASE c \notin perms
  BY <1>1, <1>2, FinishStep DEF FindCode
<1>3. CASE c \in perms
  <2>1. PICK q : q = [req[r] EXCEPT !.left = @ \ {c}]
    OBVIOUS
  <2>2. q \in Request /\ q.pc = "codes" /\ q.name = req[r].name /\ q.codes = req[r].codes
        /\ q.left = req[r].left \ {c}
    BY <2>1, Known DEF Request, FindCode, At
  <2>3. req' = [req EXCEPT ![r] = q]
    BY <1>1, <1>3, <2>1, Known DEF Request, RolesInv, ReqsOK
  <2>4. ReqOK(q)
    BY <1>3, <2>2, Known DEF ReqOK, Served, ReadsOK, AtGate, FindCode, At
  <2>5. Decides(r)
    BY <2>2, <2>3, Known DEF Decides, AtGate
  <2> QED BY <2>2, <2>3, <2>4, <2>5, ReadStep DEF FindCode
<1> QED BY <1>2, <1>3

LEMMA SaveRoleKeeps == ASSUME RolesInv, NEW r \in Reqs, SaveRole(r) PROVE Stepped(r)
<1> DEFINE n == req[r].name
           codes == req[r].codes
<1>1. n \in Names /\ codes \in SUBSET perms /\ indexed
  BY Known DEF SaveRole, At, ReadsOK
<1>2. UNCHANGED <<perms, granted, indexed, boot>> /\ Finish(r)
  BY DEF SaveRole
<1>3. CASE ~Accepts(n)
  <2>1. UNCHANGED <<stores, indexed, boot>>
    BY <1>2, <1>3 DEF SaveRole, stores
  <2> QED BY <1>2, <2>1, FinishStep
<1>4. CASE Accepts(n)
  <2>1. PICK i \in RoleIds : roles' = [roles EXCEPT ![i] = [name |-> n, codes |-> codes]]
    BY <1>4 DEF SaveRole, Fresh
  <2>2. \A j \in RoleIds : roles[j] # None /\ roles[j].name = n => j = i
    BY <1>1, <1>4 DEF Accepts, Named
  <2>3. /\ boot \in {"seed", "admin", "indexes", "serving"}
        /\ boot # "seed" => SeedCodes \subseteq perms
    BY DEF RolesInv, StoresOK
  <2> HIDE DEF n, codes
  <2>4. StoresOK' /\ NamesUnique' /\ Grows
    BY <1>1, <1>2, <2>1, <2>2, <2>3, NewRole
  <2> QED BY <1>2, <2>4, WriteStep
<1> QED BY <1>3, <1>4

LEMMA NewPermissions ==
    ASSUME RolesInv, perms' \in SUBSET Codes, perms \subseteq perms',
           UNCHANGED <<roles, granted, indexed, boot>>
    PROVE  StoresOK' /\ NamesUnique' /\ Grows
  BY DEF RolesInv, StoresOK, NamesUnique, Grows

LEMMA CreatePermissionKeeps ==
    ASSUME RolesInv, NEW r \in Reqs, NEW c \in Codes, CreatePermission(r, c) PROVE Stepped(r)
<1>1. CASE c \in perms
  BY <1>1, FinishStep DEF CreatePermission
<1>2. CASE c \notin perms
  <2>1. PICK q : q = [req[r] EXCEPT !.pc = "code", !.codes = {c}]
    OBVIOUS
  <2>2. q \in Request /\ q.pc = "code"
    BY <2>1, Known DEF Request
  <2>3. req' = [req EXCEPT ![r] = q]
    BY <1>2, <2>1, Known DEF CreatePermission, Request, RolesInv, ReqsOK
  <2>4. ReqOK(q)
    BY <2>2, Known DEF ReqOK, Served, ReadsOK, AtGate, CreatePermission, At
  <2>5. Decides(r)
    BY <2>2, <2>3, Known DEF Decides, AtGate
  <2> QED BY <2>2, <2>3, <2>4, <2>5, ReadStep DEF CreatePermission
<1> QED BY <1>1, <1>2

LEMMA SavePermissionKeeps == ASSUME RolesInv, NEW r \in Reqs, SavePermission(r) PROVE Stepped(r)
<1>1. perms' \in SUBSET Codes /\ perms \subseteq perms'
  BY Known DEF SavePermission, Request, RolesInv, StoresOK
<1>2. StoresOK' /\ NamesUnique' /\ Grows
  BY <1>1, NewPermissions DEF SavePermission
<1> QED BY <1>2, WriteStep DEF SavePermission

LEMMA UpsertPermissionKeeps == ASSUME RolesInv, NEW r \in Reqs, UpsertPermission(r) PROVE Stepped(r)
<1>1. PICK c \in req[r].left :
        /\ perms' = perms \cup {c}
        /\ req' = [req EXCEPT ![r].left = @ \ {c},
                              ![r].pc = IF req[r].left = {c} THEN "role" ELSE @]
  BY DEF UpsertPermission
<1>2. PICK pc \in {"upsert", "role"} : pc = IF req[r].left = {c} THEN "role" ELSE "upsert"
  OBVIOUS
<1>3. PICK q : q = [req[r] EXCEPT !.left = @ \ {c}, !.pc = pc]
  OBVIOUS
<1>4. /\ q \in Request /\ q.pc = pc /\ q.left = req[r].left \ {c} /\ q.route = req[r].route
  BY ZenonT(60), <1>3, Known DEF Request
<1>5. req' = [req EXCEPT ![r] = q]
  BY <1>1, <1>2, <1>3, Known DEF Request, RolesInv, ReqsOK, UpsertPermission, At
<1>6. StoresOK' /\ NamesUnique' /\ Grows
  <2>1. perms' \in SUBSET Codes /\ perms \subseteq perms'
    BY <1>1, Known DEF Request, RolesInv, StoresOK
  <2> QED BY <2>1, NewPermissions DEF UpsertPermission
<1>7. /\ req[r].route = "register" /\ req[r].left \subseteq DefaultCodes /\ indexed
      /\ DefaultCodes \ req[r].left \subseteq perms
  BY Known DEF ReadsOK, UpsertPermission, At
<1>8. Outcome(r)
  <2>1. req'[r] = q
    BY <1>5, Known
  <2>2. Served(req[r])'
    BY <1>7, <2>1 DEF Served, UpsertPermission
  <2>3. ReadsOK(req[r])'
    BY <1>1, <1>2, <1>4, <1>7, <2>1 DEF ReadsOK, AtGate
  <2> QED BY <1>4, <1>5, <2>1, <2>2, <2>3 DEF Outcome, ReqOK, RolesInv, ReqsOK
<1>9. Decides(r)
  BY <1>2, <1>4, <1>5, Known DEF Decides, AtGate
<1> QED BY <1>6, <1>8, <1>9, OneRequest DEF RolesInv, Stepped, Outcome

LEMMA UpsertDefaultRoleKeeps ==
    ASSUME RolesInv, NEW r \in Reqs, UpsertDefaultRole(r) PROVE Stepped(r)
<1>1. PICK i \in RoleIds : /\ Upsert("user", DefaultCodes, i)
                           /\ req' = [req EXCEPT ![r].role = i, ![r].pc = "account"]
  BY DEF UpsertDefaultRole
<1>2. DefaultCodes \in SUBSET perms /\ "user" \in Names /\ indexed
  BY Known DEF UpsertDefaultRole, At, ReadsOK, Names
<1>3. PICK q : q = [req[r] EXCEPT !.role = i, !.pc = "account"]
  OBVIOUS
<1>4. q \in Request /\ q.pc = "account" /\ q.role = i
  BY <1>3, Known DEF Request
<1>5. req' = [req EXCEPT ![r] = q]
  BY <1>1, <1>3, Known DEF Request, RolesInv, ReqsOK
<1>6. StoresOK' /\ NamesUnique' /\ Grows
  <2>1. UNCHANGED <<perms, granted, indexed, boot>>
    BY DEF UpsertDefaultRole
  <2> QED BY <1>1, <1>2, <2>1, UpsertsRole DEF RolesInv, StoresOK
<1>7. roles'[i] # None
  <2>1. [name |-> "user", codes |-> DefaultCodes] \in Role
    BY <1>2 DEF Role, RolesInv, StoresOK
  <2> QED BY <1>1, <2>1, RoleAssumption DEF Upsert, RolesInv, StoresOK
<1>8. Outcome(r)
  <2>1. req'[r] = q
    BY <1>5, Known
  <2>2. ReqOK(req[r])'
    BY <1>2, <1>4, <1>7, <2>1 DEF ReqOK, Served, ReadsOK, AtGate, UpsertDefaultRole
  <2> QED BY <1>4, <1>5, <2>1, <2>2 DEF Outcome, RolesInv, ReqsOK
<1>9. Decides(r)
  BY <1>4, <1>5, Known DEF Decides, AtGate
<1> QED BY <1>6, <1>8, <1>9, OneRequest DEF RolesInv, Stepped, Outcome

LEMMA CreateUserKeeps == ASSUME RolesInv, NEW r \in Reqs, CreateUser(r) PROVE Stepped(r)
<1>1. PICK u \in Users : granted[u] = None /\ granted' = [granted EXCEPT ![u] = req[r].role]
  BY DEF CreateUser
<1>2. req[r].role \in RoleIds /\ roles[req[r].role] # None
  BY Known DEF CreateUser, At, ReadsOK
<1>3. StoresOK' /\ NamesUnique' /\ Grows
  BY <1>1, <1>2 DEF CreateUser, RolesInv, StoresOK, NamesUnique, Grows
<1> QED BY <1>3, WriteStep DEF CreateUser

LEMMA FailKeeps == ASSUME RolesInv, NEW r \in Reqs, Fail(r) PROVE Stepped(r)
  BY FinishStep DEF Fail

LEMMA RequestKeeps ==
    ASSUME RolesInv, NEW r \in Reqs, Authenticate(r) \/ RequirePermission(r) \/ Behind(r)
    PROVE  Stepped(r)
  BY FindUserKeeps, PopulateRolesKeeps, PopulatePermissionsKeeps, RequirePermissionKeeps,
     AnswerKeeps, FindRoleNameKeeps, FindCodeKeeps, SaveRoleKeeps, SavePermissionKeeps,
     CreateRoleKeeps, CreatePermissionKeeps, UpsertPermissionKeeps, UpsertDefaultRoleKeeps,
     CreateUserKeeps DEF Authenticate, Behind

-----------------------------------------------------------------------------
(* Decisions: what the history holds when the gate decides.                *)

SeenOK(r) ==
    /\ seen[r] \in SUBSET {"entitled", "not entitled"}
    /\ Deciding(req[r].pc) => Standing(req[r], granted, roles, perms) \in seen[r]
    /\ req[r].pc = "perms" => req[r].can \subseteq perms
    /\ req[r].pc \in {"perms", "gate"} =>
          /\ Needs[req[r].route] \in req[r].can => "entitled" \in seen[r]
          /\ Needs[req[r].route] \notin req[r].can => "not entitled" \in seen[r]
    /\ req[r].pc = "admitted" => "entitled" \in seen[r]
    /\ req[r].pc = "denied" => "not entitled" \in seen[r]

SeenInv == seen \in [Reqs -> SUBSET {"entitled", "not entitled"}] /\ \A r \in Reqs : SeenOK(r)

LEMMA Watched ==
    ASSUME Watch, NEW r \in Reqs
    PROVE  /\ Deciding(req'[r].pc) =>
                 /\ Standing(req'[r], granted', roles', perms') \in seen'[r]
                 /\ Deciding(req[r].pc) => seen[r] \subseteq seen'[r]
                 /\ \A x \in seen'[r] : x \in seen[r] \/ x \in {"entitled", "not entitled"}
           /\ req'[r].pc \in {"admitted", "denied"} => seen'[r] = seen[r]
           /\ ~Deciding(req'[r].pc) /\ req'[r].pc \notin {"admitted", "denied"} => seen'[r] = {}
  BY DEF Watch, Deciding, Standing

\* A request stays as it is while others act, or takes a step of its own.
LEMMA OneSeen ==
    ASSUME RolesInv, RolesInv', Grows, Watch, NEW r \in Reqs, SeenOK(r),
           req'[r] = req[r] \/ Decides(r)
    PROVE  SeenOK(r)'
<1>1. seen'[r] \in SUBSET {"entitled", "not entitled"}
  BY Watched DEF SeenOK
<1>2. CASE req'[r].pc \notin AtGate
  BY <1>1, <1>2 DEF SeenOK, AtGate, Deciding
<1>3. CASE req'[r].pc = "user" /\ ~Deciding(req[r].pc)
  BY <1>1, <1>3, Watched DEF SeenOK, Deciding
<1>4. CASE Reads(r)
  <2>1. /\ req[r].route \in Routes /\ granted[req[r].user] \in RoleIds
        /\ roles[granted[req[r].user]].codes \subseteq perms
        /\ granted[req[r].user] # None
    BY <1>4, Known DEF Reads, Deciding, AtGate, ReadsOK, RolesInv, StoresOK
  <2>2. /\ perms' = perms
        /\ Standing(req'[r], granted', roles', perms') =
              IF Needs[req[r].route] \in roles[granted[req[r].user]].codes
              THEN "entitled" ELSE "not entitled"
    BY <1>4, <2>1 DEF Reads, Standing, Effective, stores
  <2>3. Standing(req[r], granted, roles, perms) = Standing(req'[r], granted', roles', perms')
    BY <1>4 DEF Reads, Standing, stores
  <2>4. CASE req'[r].pc \in {"user", "roles"}
    BY <1>1, <2>4, Watched DEF SeenOK, Deciding
  <2>5. CASE req'[r].pc = "perms" /\ req'[r].can = roles[granted[req[r].user]].codes
    <3>1. req'[r].can \subseteq perms' /\ req'[r].route = req[r].route
      BY <1>4, <2>1, <2>2, <2>5 DEF Reads
    <3>2. Standing(req'[r], granted', roles', perms') \in seen'[r]
      BY <2>5, Watched DEF Deciding
    <3>3. /\ Needs[req[r].route] \in req'[r].can => "entitled" \in seen'[r]
          /\ Needs[req[r].route] \notin req'[r].can => "not entitled" \in seen'[r]
      BY <2>2, <2>5, <3>2
    <3> QED BY <1>1, <2>5, <3>1, <3>2, <3>3 DEF SeenOK
  <2>6. CASE /\ req[r].pc = "perms" /\ req'[r].pc = "gate"
             /\ req'[r].can = req[r].can \cap perms
    BY <1>1, <1>4, <2>6, Watched DEF SeenOK, Deciding, Reads
  <2>7. CASE /\ req[r].pc = "gate"
             /\ req'[r].pc = IF Needs[req[r].route] \in req[r].can THEN "admitted" ELSE "denied"
    BY <1>1, <2>7, Watched DEF SeenOK, Deciding
  <2> QED BY <1>4, <2>4, <2>5, <2>6, <2>7 DEF Reads
<1>5. CASE req'[r] = req[r]
  BY <1>1, <1>5, Watched DEF SeenOK, Deciding, Grows
<1> QED BY <1>2, <1>3, <1>4, <1>5 DEF Decides

-----------------------------------------------------------------------------
(* Quotas.                                                                 *)

QuotaInv ==
    /\ QuotaTypeOK
    /\ \A c \in Clients : (hits[c] = 0) <=> (ttl[c] = 0)
    /\ \A c \in Clients, l \in Limiters :
          passed[c][l] <= hits[c] /\ passed[c][l] <= Limit[l]

\* No window is made longer, and a window ends with its counter.
WindowKept == \A c \in Clients :
    /\ hits[c] > 0 /\ hits'[c] > 0 => ttl'[c] <= ttl[c]
    /\ (hits'[c] = 0) <=> (ttl'[c] = 0)

\* One hit, counted by the limiter or not.
LEMMA CountKeeps ==
    ASSUME QuotaInv, NEW c \in Clients, NEW l \in Limiters,
           hits' = [hits EXCEPT ![c] = Counted(@)],
           ttl' = [ttl EXCEPT ![c] = Expiry(c, l)],
           \/ UNCHANGED passed
           \/ passed' = [passed EXCEPT ![c][l] = @ + 1] /\ Within(c, l)
    PROVE  QuotaInv' /\ WindowKept
<1> USE DEF QuotaInv, QuotaTypeOK
<1>1. /\ MaxHits \in Nat /\ Limit[l] \in Nat /\ Limit[l] < MaxHits
      /\ Window[l] \in Nat /\ Window[l] > 0
  BY QuotaAssumption
<1>2. /\ Counted(hits[c]) \in 0..MaxHits /\ Counted(hits[c]) > 0 /\ Counted(hits[c]) >= hits[c]
      /\ Within(c, l) => Counted(hits[c]) = hits[c] + 1 /\ hits[c] + 1 <= Limit[l]
  BY <1>1 DEF Counted, Within
<1>3. Expiry(c, l) \in Nat /\ Expiry(c, l) > 0 /\ (hits[c] > 0 => Expiry(c, l) = ttl[c])
  BY <1>1 DEF Expiry
<1>4. hits' \in [Clients -> 0..MaxHits] /\ ttl' \in [Clients -> Nat]
  BY <1>2, <1>3
<1>5. passed' \in [Clients -> [Limiters -> Nat]]
  OBVIOUS
<1>6. \A d \in Clients : /\ d # c => hits'[d] = hits[d] /\ ttl'[d] = ttl[d]
                         /\ hits'[c] = Counted(hits[c]) /\ ttl'[c] = Expiry(c, l)
  OBVIOUS
<1>7. \A d \in Clients : (hits'[d] = 0) <=> (ttl'[d] = 0)
  BY <1>2, <1>3, <1>6
<1>8. ASSUME NEW d \in Clients, NEW m \in Limiters
      PROVE  passed'[d][m] <= hits'[d] /\ passed'[d][m] <= Limit[m]
  <2>1. CASE d = c /\ m = l /\ passed' # passed
    <3>1. passed'[c][l] = passed[c][l] + 1 /\ Within(c, l)
      BY <2>1
    <3>2. passed[c][l] \in Nat /\ hits[c] \in Nat /\ passed[c][l] <= hits[c]
      OBVIOUS
    <3> QED BY <1>1, <1>2, <1>6, <2>1, <3>1, <3>2
  <2>2. CASE ~(d = c /\ m = l /\ passed' # passed)
    <3>1. passed'[d][m] = passed[d][m]
      BY <2>2
    <3>2. passed[d][m] \in Nat /\ hits[d] \in Nat /\ hits'[d] \in Nat /\ hits'[d] >= hits[d]
      BY <1>2, <1>4, <1>6
    <3>3. Limit[m] \in Nat
      BY QuotaAssumption
    <3> QED BY <3>1, <3>2, <3>3
  <2> QED BY <2>1, <2>2
<1>9. WindowKept
  BY <1>3, <1>6, <1>7 DEF WindowKept
<1> QED BY <1>4, <1>5, <1>7, <1>8, <1>9

LEMMA HitKeeps ==
    ASSUME QuotaInv, NEW c \in Clients, NEW l \in Limiters, Hit(c, l) \/ HitUnanswered(c, l)
    PROVE  QuotaInv' /\ WindowKept
<1>1. [passed EXCEPT ![c][l] = @] = passed
  BY DEF QuotaInv, QuotaTypeOK
<1>2. \/ UNCHANGED passed
      \/ passed' = [passed EXCEPT ![c][l] = @ + 1] /\ Within(c, l)
  BY <1>1 DEF Hit, HitUnanswered
<1> QED BY <1>2, CountKeeps DEF Hit, HitUnanswered

LEMMA TickKeeps == ASSUME QuotaInv, NEW c \in Clients, Tick(c) PROVE QuotaInv' /\ WindowKept
<1> USE DEF QuotaInv, QuotaTypeOK
<1>1. CASE ttl[c] = 1
  <2>1. /\ hits' = [hits EXCEPT ![c] = 0] /\ ttl' = [ttl EXCEPT ![c] = 0]
        /\ passed' = [passed EXCEPT ![c] = [l \in Limiters |-> 0]]
    BY <1>1 DEF Tick
  <2>2. QuotaTypeOK'
    BY <2>1, QuotaAssumption
  <2>3. \A l \in Limiters : Limit[l] \in Nat
    BY QuotaAssumption
  <2> QED BY <2>1, <2>2, <2>3 DEF WindowKept
<1>2. CASE ttl[c] # 1
  <2>1. /\ hits' = hits /\ ttl' = [ttl EXCEPT ![c] = ttl[c] - 1] /\ ttl[c] > 1
        /\ passed' = passed
    BY <1>2 DEF Tick
  <2> QED BY <2>1 DEF WindowKept
<1> QED BY <1>1, <1>2

LEMMA SameQuota == ASSUME QuotaInv, UNCHANGED quotaVars PROVE QuotaInv' /\ WindowKept
  BY DEF QuotaInv, QuotaTypeOK, quotaVars, WindowKept

-----------------------------------------------------------------------------
(* The composition.                                                        *)

IInv == /\ RolesInv /\ SeenInv /\ QuotaInv
        /\ asks \in Mixes /\ due \in [Reqs -> Seq(Limiters)]

\* What every step does to roles and requests, and to quotas.
RolesStep == RolesInv' /\ Grows /\ \A p \in Reqs : req'[p] = req[p] \/ Decides(p)
QuotaStep == QuotaInv' /\ WindowKept /\ due' \in [Reqs -> Seq(Limiters)]

LEMMA RolesInitially == RolesInit => RolesInv /\ SeenInv
<1> SUFFICES ASSUME RolesInit PROVE RolesInv /\ SeenInv
  OBVIOUS
<1> USE DEF RolesInit
<1> DEFINE first == [name |-> "operators", codes |-> perms]
<1>1. first \in Role /\ first.codes = perms /\ perms \subseteq Codes
  BY DEF Role, Names, Codes
<1>2. first # None
  BY <1>1, RoleAssumption
<1>3. 1 \in RoleIds /\ Root \in Users
  BY RootAssumption DEF RoleIds
<1>4. roles = [i \in RoleIds |-> IF i = 1 THEN first ELSE None]
  OBVIOUS
<1> HIDE DEF first
<1>5. StoresOK
  <2>1. /\ roles \in [RoleIds -> Role \cup {None}]
        /\ \A i \in RoleIds : roles[i] # None => roles[i].codes \subseteq perms
    BY ZenonT(60), <1>1, <1>2, <1>3, <1>4
  <2>2. /\ granted \in [Users -> RoleIds \cup {None}]
        /\ \A u \in Users : granted[u] # None => roles[granted[u]] # None
    BY <1>2, <1>3, <1>4
  <2> QED BY <1>1, <2>1, <2>2 DEF StoresOK
<1>6. ReqsOK
  <2> SUFFICES ASSUME NEW r \in Reqs PROVE ReqOK(req[r])
    BY IdleFields DEF ReqsOK
  <2> QED BY IdleFields DEF ReqOK, Served, ReadsOK, AtGate
<1>7. NamesUnique
  BY <1>4 DEF NamesUnique
<1>8. SeenInv
  BY IdleFields DEF SeenInv, SeenOK, Deciding
<1> QED BY <1>5, <1>6, <1>7, <1>8 DEF RolesInv

LEMMA QuotaInitially == QuotaInit => QuotaInv
  BY QuotaAssumption DEF QuotaInit, QuotaInv, QuotaTypeOK

LEMMA Initially == Init => IInv
<1> SUFFICES ASSUME Init PROVE IInv
  OBVIOUS
<1>1. due \in [Reqs -> Seq(Limiters)]
  BY DEF Init
<1> QED BY <1>1, RolesInitially, QuotaInitially DEF Init, IInv

LEMMA SteppedRoles == ASSUME NEW r \in Reqs, Stepped(r) PROVE RolesStep
  BY DEF Stepped, RolesStep

LEMMA MountedSequence == \A route \in Routes \cup {"register"} : Mounted[route] \in Seq(Limiters)
<1>1. /\ <<"api">> \in Seq(Limiters) /\ <<"api", "social">> \in Seq(Limiters)
      /\ <<"auth">> \in Seq(Limiters) /\ << >> \in Seq(Limiters)
  BY LimiterAssumption
<1> QED BY <1>1 DEF Mounted

LEMMA BeginKeeps ==
    ASSUME IInv, NEW r \in Reqs, Begin(r) PROVE RolesStep /\ QuotaStep
<1>1. Stepped(r)
  <2>1. CASE Register(r)
    BY <2>1, RegisterKeeps DEF IInv
  <2>2. ASSUME NEW ask \in asks, Arrive(r, ask[1], ask[2]) PROVE Stepped(r)
    <3>1. ask[1] \in Users /\ ask[2] \in Routes
      BY ChoiceAssumption DEF IInv
    <3> QED BY <2>2, <3>1, ArriveKeeps DEF IInv
  <2> QED BY <2>1, <2>2 DEF Begin
<1>2. req'[r].route \in Routes \cup {"register"}
  BY <1>1 DEF Stepped, RolesInv, ReqsOK, Request
<1>3. Mounted[req'[r].route] \in Seq(Limiters)
  BY <1>2, MountedSequence
<1>4. due' \in [Reqs -> Seq(Limiters)]
  BY <1>3 DEF Begin, IInv
<1> QED BY <1>1, <1>4, SteppedRoles, SameQuota DEF Begin, IInv, QuotaStep

\* The limiter that is asked next, and the client it counts.
LEMMA AsksFor ==
    ASSUME IInv, NEW r \in Reqs, AtLimiter(r)
    PROVE  /\ Client(r) \in Clients /\ Head(due[r]) \in Limiters
           /\ Tail(due[r]) \in Seq(Limiters)
<1>1. due[r] \in Seq(Limiters) /\ due[r] # << >>
  BY DEF IInv, AtLimiter
<1>2. Client(r) \in Clients
  <2>1. CASE req[r].pc = "upsert"
    BY <2>1, Known, ClientAssumption DEF IInv, ReadsOK, Client
  <2>2. CASE req[r].pc = "gate"
    <3>1. req[r].route \in Routes /\ req[r].user \in Users
      BY <2>2, Known DEF IInv, ReadsOK, AtGate
    <3>2. req[r].route # "register"
      BY <3>1 DEF Routes
    <3> QED BY <3>1, <3>2, ClientAssumption DEF Client
  <2> QED BY <2>1, <2>2 DEF AtLimiter, At
<1> QED BY <1>1, <1>2

LEMMA PassQuotaKeeps ==
    ASSUME IInv, NEW r \in Reqs, PassQuota(r) PROVE RolesStep /\ QuotaStep
<1> DEFINE l == Head(due[r])
           c == Client(r)
<1>1. c \in Clients /\ l \in Limiters /\ Tail(due[r]) \in Seq(Limiters)
  BY AsksFor DEF PassQuota
<1>2. /\ Hit(c, l) /\ UNCHANGED <<stores, indexed, boot>>
      /\ \/ due' = [due EXCEPT ![r] = Tail(@)] /\ UNCHANGED req
         \/ due' = [due EXCEPT ![r] = << >>] /\ Finish(r)
  BY DEF PassQuota
<1> HIDE DEF l, c
<1>3. QuotaInv' /\ WindowKept
  BY <1>1, <1>2, HitKeeps DEF IInv
<1>4. due' \in [Reqs -> Seq(Limiters)]
  <2>1. due \in [Reqs -> Seq(Limiters)] /\ << >> \in Seq(Limiters)
    BY DEF IInv
  <2>2. PICK rest \in Seq(Limiters) : due' = [due EXCEPT ![r] = rest]
    BY <1>1, <1>2, <2>1
  <2> QED BY <2>1, <2>2
<1>5. CASE UNCHANGED req
  <2>1. StoresOK' /\ NamesUnique' /\ Grows
    BY <1>2, SameStores DEF IInv
  <2>2. ReqsOK'
    BY <1>5, <2>1, SameRequests DEF IInv
  <2>3. RolesStep
    BY <1>5, <2>1, <2>2 DEF RolesStep, RolesInv
  <2> QED BY <1>3, <1>4, <2>3 DEF QuotaStep
<1>6. CASE Finish(r)
  <2>1. Stepped(r)
    BY <1>2, <1>6, FinishStep DEF IInv
  <2> QED BY <1>3, <1>4, <2>1, SteppedRoles DEF QuotaStep
<1> QED BY <1>2, <1>5, <1>6

LEMMA QuotaFailsKeeps ==
    ASSUME IInv, NEW r \in Reqs, QuotaFails(r) PROVE RolesStep /\ QuotaStep
<1>1. Stepped(r)
  BY FinishStep DEF QuotaFails, IInv
<1>2. QuotaInv' /\ WindowKept
  <2>1. Client(r) \in Clients /\ Head(due[r]) \in Limiters
    BY AsksFor DEF QuotaFails
  <2> QED BY <2>1, HitKeeps, SameQuota DEF QuotaFails, IInv
<1>3. due' \in [Reqs -> Seq(Limiters)]
  BY DEF QuotaFails, IInv
<1> QED BY <1>1, <1>2, <1>3, SteppedRoles DEF QuotaStep

LEMMA ProceedKeeps ==
    ASSUME IInv, NEW r \in Reqs, Proceed(r) PROVE RolesStep /\ QuotaStep
<1>1. Stepped(r)
  BY RequestKeeps DEF Proceed, IInv
<1> QED BY <1>1, SteppedRoles, SameQuota DEF Proceed, IInv, QuotaStep

LEMMA AbortKeeps ==
    ASSUME IInv, NEW r \in Reqs, Abort(r) PROVE RolesStep /\ QuotaStep
<1>1. Stepped(r)
  BY FailKeeps DEF Abort, IInv
<1>2. due' \in [Reqs -> Seq(Limiters)]
  BY DEF Abort, IInv
<1> QED BY <1>1, <1>2, SteppedRoles, SameQuota DEF Abort, IInv, QuotaStep

LEMMA RestartKeeps == ASSUME IInv, Restart PROVE RolesStep /\ QuotaStep
<1>1. RolesStep
  BY CrashKeeps DEF Restart, IInv, RolesStep, Decides, AtGate
<1>2. due' \in [Reqs -> Seq(Limiters)]
  BY DEF Restart
<1> QED BY <1>1, <1>2, SameQuota DEF Restart, IInv, QuotaStep

LEMMA ElsewhereKeeps == ASSUME IInv, Elsewhere PROVE RolesStep /\ QuotaStep
<1>1. RolesStep
  BY StartupKeeps, OperatorKeeps DEF Elsewhere, IInv, RolesStep
<1> QED BY <1>1, SameQuota DEF Elsewhere, IInv, QuotaStep

LEMMA TimeKeeps ==
    ASSUME IInv, NEW c \in Clients, Time(c) PROVE RolesStep /\ QuotaStep
<1>1. StoresOK' /\ NamesUnique' /\ Grows
  BY SameStores DEF Time, IInv
<1>2. ReqsOK'
  BY <1>1, SameRequests DEF Time, IInv
<1>3. RolesStep
  BY <1>1, <1>2 DEF RolesStep, RolesInv, Time
<1> QED BY <1>3, TickKeeps DEF Time, IInv, QuotaStep

LEMMA Steps == ASSUME IInv, Next PROVE RolesStep /\ QuotaStep
<1>1. ASSUME NEW r \in Reqs, Begin(r) \/ PassQuota(r) \/ QuotaFails(r) \/ Proceed(r) \/ Abort(r)
      PROVE  RolesStep /\ QuotaStep
  BY <1>1, BeginKeeps, PassQuotaKeeps, QuotaFailsKeeps, ProceedKeeps, AbortKeeps
<1> QED BY <1>1, RestartKeeps, ElsewhereKeeps, TimeKeeps DEF Next

LEMMA Stuttering == ASSUME IInv, UNCHANGED vars PROVE IInv' /\ WindowKept
<1>1. QuotaInv' /\ WindowKept
  BY SameQuota DEF IInv, vars
<1>2. RolesInv'
  BY DEF IInv, RolesInv, StoresOK, ReqsOK, NamesUnique, ReqOK, Served, ReadsOK, vars, roleVars
<1>3. SeenInv'
  BY DEF IInv, SeenInv, SeenOK, vars, roleVars
<1> QED BY <1>1, <1>2, <1>3 DEF IInv, vars

LEMMA NextInvariant == IInv /\ [Next]_vars => IInv' /\ WindowKept
<1> SUFFICES ASSUME IInv, [Next]_vars PROVE IInv' /\ WindowKept
  OBVIOUS
<1>1. CASE Next
  <2>1. RolesStep /\ QuotaStep
    BY <1>1, Steps
  <2>2. ASSUME NEW r \in Reqs PROVE SeenOK(r)'
    <3>1. SeenOK(r) /\ (req'[r] = req[r] \/ Decides(r))
      BY <2>1 DEF IInv, SeenInv, RolesStep
    <3> QED BY <1>1, <2>1, <3>1, OneSeen DEF Next, IInv, RolesStep
  <2>3. SeenInv'
    <3>1. seen' \in [Reqs -> SUBSET {"entitled", "not entitled"}]
      BY <1>1, <2>2 DEF Next, Watch, SeenOK
    <3> QED BY <2>2, <3>1 DEF SeenInv
  <2> QED BY <1>1, <2>1, <2>3 DEF IInv, RolesStep, QuotaStep, Next
<1>2. CASE UNCHANGED vars
  BY <1>2, Stuttering
<1> QED BY <1>1, <1>2

LEMMA Invariant == Spec => []IInv
  BY Initially, NextInvariant, PTL DEF Spec

-----------------------------------------------------------------------------
(* The theorems.                                                           *)

LEMMA Consequences == IInv => TypeOK /\ DecisionSound /\ NamesUnique /\ QuotaHolds
<1> SUFFICES ASSUME IInv PROVE TypeOK /\ DecisionSound /\ NamesUnique /\ QuotaHolds
  OBVIOUS
<1>1. RolesTypeOK
  BY DEF IInv, RolesInv, StoresOK, ReqsOK, SeenInv, RolesTypeOK
<1>2. TypeOK
  BY <1>1 DEF IInv, QuotaInv, TypeOK
<1>3. DecisionSound
  BY DEF IInv, SeenInv, SeenOK, DecisionSound, At
<1>4. NamesUnique /\ QuotaHolds
  BY DEF IInv, RolesInv, QuotaInv, QuotaHolds
<1> QED BY <1>2, <1>3, <1>4

\* References between the documents lead somewhere: a role has stored
\* permissions, an account a stored role (admin.controller.js:41-48,
\* user.service.js:21-26).
THEOREM ReferencesHold == Spec => []TypeOK
  BY Invariant, Consequences, PTL

\* A request is admitted or denied as was right at some moment since it arrived,
\* whatever changes while its permissions are loaded (role.middleware.js:6-7).
THEOREM DecisionsSound == Spec => []DecisionSound
  BY Invariant, Consequences, PTL

\* No two roles have one name (admin.controller.js:36-38, index.js:34-43).
THEOREM RoleNamesUnique == Spec => []NamesUnique
  BY Invariant, Consequences, PTL

\* No limiter lets more through in a window than its limit
\* (ratelimiter.middleware.js:24-27).
THEOREM QuotasHold == Spec => []QuotaHolds
  BY Invariant, Consequences, PTL

\* No request makes a window longer, and a window ends with its counter
\* (ratelimiter.middleware.js:24-27).
THEOREM WindowsEnd == Spec => WindowEnds
<1>1. WindowKept => [\A c \in Clients :
          /\ hits[c] > 0 /\ hits'[c] > 0 => ttl'[c] <= ttl[c]
          /\ (hits'[c] = 0) = (ttl'[c] = 0)]_quotaVars
  BY Zenon DEF WindowKept
<1>2. IInv /\ [Next]_vars => [\A c \in Clients :
          /\ hits[c] > 0 /\ hits'[c] > 0 => ttl'[c] <= ttl[c]
          /\ (hits'[c] = 0) = (ttl'[c] = 0)]_quotaVars
  BY <1>1, NextInvariant
<1> QED BY <1>2, Invariant, PTL DEF Spec, WindowEnds
=============================================================================
