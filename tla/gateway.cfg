SPECIFICATION Spec
CONSTANTS
    root = root  u1 = u1  ip = ip
    r1 = r1  r2 = r2
    MaxRoles = 5
    NewNames = {"moderators"}
    Users = {root, u1}
    Root = root
    Choices <- MCChoices
    Mixes <- MCMixes
    Reqs = {r1, r2}
    Faults = {"fail", "crash", "edit", "store"}
    None = None
    Clients = {root, u1, ip}
    Limiters = {"api", "social", "auth"}
    Limit <- MCLimit
    Window <- MCWindow
    MaxHits = 3
    Address = ip
CHECK_DEADLOCK FALSE
INVARIANT TypeOK
INVARIANT DecisionSound
INVARIANT NamesUnique
INVARIANT QuotaHolds
SYMMETRY Symmetry
PROPERTY WindowEnds
