SPECIFICATION Spec
CONSTANTS
    Path = {1, 2, 3}
    drive = drive
    top = top
    sub = sub
    atO = atO
    atS = atS
    inO = inO
    inS = inS
    inSub = inSub
    x = x
    FileOf <- MCFileOf
    Folder <- MCFolder
    Name <- MCName
    Root <- MCRoot
    Walk <- MCWalk
    NearDuplicate <- MCNearDuplicate
    SharedFeatures <- MCSharedFeatures
    MaxTime = 2
INVARIANTS TypeOK PairsAreDistinct TableShowsPairs PriorityKept
PROPERTIES OnlyConfirmedGone OldQuarantineStays
CHECK_DEADLOCK FALSE
