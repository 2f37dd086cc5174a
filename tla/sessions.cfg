SPECIFICATION Spec
CONSTANTS
    u1 = u1  u2 = u2
    s1 = s1  s2 = s2
    t1 = t1  t2 = t2  t3 = t3  t4 = t4
    r1 = r1  r2 = r2
    Users = {u1}
    Sids = {s1,s2}
    Tokens = {t1,t2,t3}
    LegacyTokens = {}
    Reqs = {r1,r2}
    Ops = {"login", "refresh", "delete"}
    Faults = FALSE
    AccessTTL = 1
    MarkerTTL = 1
    RefreshTTL = 2
    IdleTTL = 1
    MaxTime = 3
    None = None
SYMMETRY Symmetry
CHECK_DEADLOCK FALSE
INVARIANT TypeOK
INVARIANT OneRedemption
INVARIANT GlobalRevocationComplete
PROPERTY ChainSpec
