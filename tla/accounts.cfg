SPECIFICATION Spec
CONSTANTS
    u1 = u1  u2 = u2  u3 = u3
    n1 = n1  n2 = n2  n3 = n3  m1 = m1  m2 = m2
    d1 = d1  d2 = d2  k1 = k1
    r1 = r1  r2 = r2  r3 = r3
    Uids = {u1, u2, u3}
    Names = {n1, n2, n3}
    Emails = {m1, Deleted}
    Deleted = Deleted
    Docs = {d1, d2}
    Kinds = {"post", "comment", "like", "follow"}
    Keys = {k1}
    Reqs = {r1, r2}
    Registered = {u1}
    Faults = TRUE
    None = None
SYMMETRY Symmetry
CHECK_DEADLOCK FALSE
INVARIANT TypeOK
INVARIANT Anonymised
INVARIANT DeletionCompletes
INVARIANT OneHeir
INVARIANT EmailRace
