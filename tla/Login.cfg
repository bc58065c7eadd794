\* Two requests at a time; two accounts, or a leftover one and two more.
SPECIFICATION Spec
CHECK_DEADLOCK FALSE
CONSTANTS
    Procs = {p1, p2}
    Keys = {k1, k2}
    Names = {n1}
    NoName = NoName
    MaxCount = 1
    MaxUsers = 2
    MaxCeremonies = 2
    MaxLogins = 2
SYMMETRY Symmetric
INVARIANTS
    TypeOK
    SessionsEarned
    OneLoginPerCeremony
PROPERTIES
    CounterGrows
    FreshStart
    InitializedForGood
