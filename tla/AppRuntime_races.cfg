\* Two overlapping requests on one application, any call may fail.
\* The clients may have deleted the application: no id is left.
SPECIFICATION Spec
CHECK_DEADLOCK FALSE
SYMMETRY ProcSymmetry
CONSTANTS
    Procs = {p1, p2}
    Apps = {a1}
    Names = {n1}
    Versions = {v1}
    Faults = {"docker", "dropped", "gone"}
    NoRow = NoRow
    NoPackage = NoPackage
    MaxDeployments = 2
INVARIANTS
    TypeOK
    RowsPoint
    PackagesStored
PROPERTIES
    OutcomesStand
