\* Two overlapping requests over two instances, never on the same one.
SPECIFICATION IsolatedSpec
SYMMETRY Symmetry
CONSTANTS
    ann = ann
    bob = bob
    eve = eve
    o1 = o1
    o2 = o2
    NoRow = NoRow
    Procs = {p1, p2}
    Users = {ann, bob}
    Orgs = {o1}
    OrgOf <- OneOrg
    Providers = {bob}
    Payloads <- WellFormed
    Vars <- ShortOrLong
    Faults = FALSE
    MaxDefs = 1
    MaxInstances = 2
    MaxTasks = 5
INVARIANTS
    OneOpenTask
PROPERTIES
    CallsAreAtomic
