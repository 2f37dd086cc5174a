SPECIFICATION Spec
CONSTANTS
    k1 = k1  k2 = k2
    r1 = r1  r2 = r2  r3 = r3  r4 = r4
    Keys = {k1, k2}
    Reqs = {r1, r2, r3, r4}
    Faults = {"redis", "disconnect", "crash"}
    None = None
SYMMETRY Symmetry
CHECK_DEADLOCK FALSE
INVARIANT TypeOK
INVARIANT OneEffect
INVARIANT SameAnswer
INVARIANT PendingHasOwner
PROPERTY OnceSpec
