\* Two requests at a time on different applications; Docker and storage fail.
\* The clients may have deleted the applications: no id is left.
SPECIFICATION IsolatedSpec
CHECK_DEADLOCK FALSE
CONSTANTS
    Procs = {p1, p2}
    Apps = {a1, a2}
    Names = {n1}
    Versions = {v1, v2}
    Faults = {"docker"}
    NoRow = NoRow
    NoPackage = NoPackage
    MaxDeployments = 2
INVARIANTS
    DockerAgrees
    HistoryIsTrue
PROPERTIES
    StatusLives
