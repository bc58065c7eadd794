\* A cancellation overlapping a decision.
SPECIFICATION Spec
CONSTANTS
    ann = ann
    bob = bob
    o1 = o1
    NoRow = NoRow
    Procs = {p1, p2}
    Users = {ann, bob}
    Orgs = {o1}
    OrgOf <- OneOrg
    Providers = {}
    Payloads <- JustLeave
    Vars <- Long
    Faults = FALSE
    MaxDefs = 1
    MaxInstances = 1
    MaxTasks = 4
PROPERTY
    ResolvedIsFinal
