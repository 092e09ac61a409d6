SPECIFICATION Spec
CONSTANTS
    Frn = {f1}
    Link = {a, b}
    Meta = {m, n}
    NoMeta = NoMeta
    Absent = Absent
    NotRead = NotRead
    MaxHist = 3
    MaxResets = 1
    MaxSessions = 2
    Host = "exe"
    Faults = {"volume", "memory", "write", "crash"}
SYMMETRY Symmetric
INVARIANTS TypeOK StaleIsAccounted SnapshotIsAccounted
PROPERTIES ReadsAreContiguous CatchUpReachesItsTarget
CHECK_DEADLOCK FALSE
