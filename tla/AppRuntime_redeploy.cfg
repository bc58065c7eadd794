\* One request at a time on one application, and nothing fails.
SPECIFICATION IsolatedSpec
CHECK_DEADLOCK FALSE
CONSTANTS
    Procs = {p1}
    Apps = {a1}
    Names = {n1}
    Versions = {v1, v2}
    Faults = {}
    NoRow = NoRow
    NoPackage = NoPackage
    MaxDeployments = 2
INVARIANTS
    RedeployTakesEffect
