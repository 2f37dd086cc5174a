SPECIFICATION Spec
CONSTANTS
    v1 = v1  v2 = v2  a1 = a1  a2 = a2
    r1 = r1  r2 = r2  w1 = w1  w2 = w2
    Viewers = {v1}
    Authors = {a1}
    MaxPost = 3
    PageSize = 2
    Readers = {r1}
    Writers = {w1}
    Ops = {"create", "update", "delete", "follow", "unfollow", "erase"}
    Faults = {"incr", "followers", "version", "expire", "die"}
    MaxMutations = 1
    None = None
SYMMETRY Symmetry
CHECK_DEADLOCK FALSE
INVARIANT TypeOK
INVARIANT NoRepeat
