SPECIFICATION FairSpec
CONSTANTS
    Frn = {f1}
    Link = {a, b}
    Meta = {m, n}
    NoMeta = NoMeta
    Absent = Absent
    NotRead = NotRead
    MaxHist = 2
    MaxResets = 1
    MaxSessions = 2
    Host = "dll"
    Faults = {"memory"}

PROPERTIES IndexingEnds Converges
CHECK_DEADLOCK FALSE
