SPECIFICATION FairSpec
CONSTANTS
    c1 = c1  c2 = c2
    j1 = j1
    sweep = sweep
    Conns = {c1, c2}
    Jobs = {j1}
    Sweep = sweep
    Writes = 2
    Faults = {"startup", "early", "abort", "error"}
CHECK_DEADLOCK FALSE
INVARIANT TypeOK
INVARIANT RequestsComplete
INVARIANT JobsComplete
PROPERTY ExitsOnSignal
