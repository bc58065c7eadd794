\* Two overlapping requests over one instance, any statement may fail; two
\* organizations, and definitions that are incomplete, circular or misspelt.
SPECIFICATION FairSpec
CONSTANTS
    ann = ann
    bob = bob
    eve = eve
    o1 = o1
    o2 = o2
    NoRow = NoRow
    Procs = {p1, p2}
    Users = {ann, bob, eve}
    Orgs = {o1, o2}
    OrgOf <- TwoOrgs
    Providers = {eve}
    Payloads <- AllPayloads
    Vars <- ShortOrLong
    Faults = TRUE
    MaxDefs = 1
    MaxInstances = 1
    MaxTasks = 5
INVARIANTS
    TypeOK
    RowsCoherent
    TasksIssued
    GotosResolve
PROPERTIES
    DecisionsStick
    HumanInTheLoop
    RequestsReturn
