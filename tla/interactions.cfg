SPECIFICATION Spec
CONSTANTS
    u1 = u1  u2 = u2
    p1 = p1
    d1 = d1  d2 = d2
    k1 = k1
    r1 = r1  r2 = r2
    Users = {u1, u2}
    Posts = {p1}
    Author <- AuthorOf
    Docs = {d1, d2}
    Keys = {k1}
    Reqs = {r1, r2}
    Faults = TRUE
    None = None
SYMMETRY Symmetry
CHECK_DEADLOCK FALSE
INVARIANT SameComment
INVARIANT PublishedOnce
PROPERTY GateSound
