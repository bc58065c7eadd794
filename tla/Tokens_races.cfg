\* Two requests at a time for one login of a user, who joins and leaves two
\* organizations, one of them the provider's; everything fails that can.
SPECIFICATION Spec
CHECK_DEADLOCK FALSE
CONSTANTS
    Procs = {p1, p2}
    Users = {u1}
    Orgs = {o1, o2}
    Provider = o1
    Faults = {"failed", "dropped", "gone", "revoke"}
    SessionTTL = 0
    AccessTTL = 1
    RefreshTTL = 0
    MaxLogins = 1
    MaxTokens = 3
    MaxTime = 1
SYMMETRY ProcSymmetry
INVARIANTS
    TypeOK
    GrantsFromBonds
PROPERTIES
    GrantsEnd
