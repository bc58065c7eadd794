\* Two requests at a time; an administrator, a second account and a third.
SPECIFICATION Spec
CHECK_DEADLOCK FALSE
CONSTANTS
    ph1 = ph1
    d1 = d1
    Procs = {p1, p2}
    Orgs = {o1}
    Phones = {ph1}
    Names = {n1, n2}
    Passwords = {pw1}
    People = {d1}
    NoPhone = NoPhone
    NoName = NoName
    NoPassword = NoPassword
    Nobody = Nobody
    PhoneOf <- MCPhoneOf
    LoginIds = {"union", "open"}
    TokenScopes = {{"openid", "org.read", "org.write"}}
    MaxUsers = 3
    MaxBonds = 2
SYMMETRY Symmetric
INVARIANTS
    TypeOK
PROPERTIES
    LastAdminStays
    SavesKeepTheRest
    SamePersonSameAccount
