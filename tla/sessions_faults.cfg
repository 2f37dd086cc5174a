SPECIFICATION Spec
CONSTANTS
    u1 = u1  u2 = u2
    s1 = s1  s2 = s2
    t1 = t1  t2 = t2  t3 = t3  t4 = t4
    r1 = r1  r2 = r2
    Users = {u1}
    Sids = {s1}
    Tokens = {t1,t2,t3}
    LegacyTokens = {t1}
    Reqs = {r1,r2}
    Ops = {"login", "refresh", "revoke", "logout", "sweep"}
    Faults = TRUE
    AccessTTL = 1
    MarkerTTL = 1
    RefreshTTL = 1
    IdleTTL = 0
    MaxTime = 4
    None = None
SYMMETRY Symmetry
CHECK_DEADLOCK FALSE
INVARIANT RevocationHolds
INVARIANT TokenHasSession
PROPERTY SealedForGood
PROPERTY MigrationEnds
