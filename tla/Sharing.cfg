\* Two requests at a time, so many in all; the provider and two others.
SPECIFICATION Spec
CHECK_DEADLOCK FALSE
CONSTANTS
    a1 = a1
    o1 = o1
    o2 = o2
    o3 = o3
    Procs = {p1, p2}
    Apps = {a1}
    Users = {u1, u2}
    Orgs = {o1, o2, o3}
    Provider = o1
    Owner <- MCOwner
    Tables = {t1, t2}
    Cut <- MCCut
    Columns = {c1}
    Nothing = Nothing
    TokenScopes = {{"openid", "org.read", "org.write"}, {"data.read", "data.write"}}
    MaxRequests = 2
SYMMETRY Symmetric
INVARIANTS
    TypeOK
    AdminsWhereDistributed
    TablesDescribed
PROPERTIES
    RowsAreTheirs
