SPECIFICATION Spec
CONSTANTS
    Frn = {f1}
    Link = {a, b}
    Meta = {m, n}
    NoMeta = NoMeta
    Absent = Absent
    NotRead = NotRead
    MaxHist = 2
    MaxResets = 0
    MaxSessions = 1
    Host = "dll"
    Faults = {}

PROPERTIES WatchResumes
CHECK_DEADLOCK FALSE
