\* Syncs of one organization, stopped and repeated, while departments of two
\* are created, moved, replaced and deleted, members removed, and DingTalk
\* changes.
SPECIFICATION DirectorySpec
CHECK_DEADLOCK FALSE
CONSTANTS
    d1 = d1
    Procs = {p1}
    Orgs = {o1, o2}
    SyncOrg = o1
    ph1 = ph1
    Phones = {ph1}
    Names = {n1}
    Passwords = {pw1}
    People = {d1}
    NoPhone = NoPhone
    NoName = NoName
    NoPassword = NoPassword
    Nobody = Nobody
    PhoneOf <- MCPhoneOf
    LoginIds = {"union", "open"}
    SyncIds = {"userid", "union"}
    Directories <- MCDirectories
    TokenScopes = {{"openid", "org.read", "org.write"}}
    MaxUsers = 3
    MaxBonds = 2
    MaxDepts = 2
INVARIANTS
    TreeShowsAll
    SyncMirrors
PROPERTIES
    ResyncIsIdle
