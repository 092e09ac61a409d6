SPECIFICATION QuietSpec
CONSTANTS
    Frn = {f1, f2}
    Link = {a, b}
    Meta = {m, n}
    NoMeta = NoMeta
    Absent = Absent
    NotRead = NotRead
    MaxHist = 3
    MaxResets = 1
    MaxSessions = 2
    Host = "exe"
    Faults = {"memory", "write", "crash"}
SYMMETRY Symmetric
PROPERTIES QuietPromises
CHECK_DEADLOCK FALSE
