SPECIFICATION FairSpec
CONSTANTS
    top = top
    sub = sub
    a = a
    b = b
    user = user
    system = system
    p1 = p1
    p2 = p2
    Node <- MCNode
    Root = top
    Dirs = {top, sub}
    Parent <- MCParent
    Proc = {user, system}
    Critical = {system}
    Pid = {p1, p2}
    FixedPid = {}
    Nobody = Nobody
    NoNode = NoNode
    Admin = TRUE
    MaxEvents = 4
INVARIANTS KillsAreAccounted ResultIsHonest
PROPERTIES ExecuteEnds
CHECK_DEADLOCK FALSE
