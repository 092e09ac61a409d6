SPECIFICATION FairSpec
CONSTANTS
    Drive = {3, 4}
    Movable = {3, 4}
    None = None
    f1 = f1
    NoSnapshot = NoSnapshot
    File = {f1}
    Memory = TRUE
    MaxBuilds = 2
    MaxMoves = 2
    MaxResults = 2
INVARIANTS TypeOK MixingIsAccounted SearchIsExhaustive
PROPERTIES DestroyReturns
CHECK_DEADLOCK FALSE
