SPECIFICATION FairSpec
CONSTANTS
    e1 = e1  e2 = e2  u1 = u1  u2 = u2
    r1 = r1  r2 = r2  w1 = w1  w2 = w2
    Events = {e1, e2}
    Keyed = {e1}
    Users = {u1, u2}
    Actor <- MCActor
    Recipient <- MCRecipientSelf
    Reqs = {r1, r2}
    Workers = {w1, w2}
    MAX_ATTEMPTS = 2
    DEAD_LETTER_CAPACITY = 1
    Faults = {"insert", "deliver", "add", "dlq", "error", "erase"}
    None = None
CHECK_DEADLOCK FALSE
INVARIANT TypeOK
PROPERTY EventuallySettled
