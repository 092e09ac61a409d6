SPECIFICATION FairSpec
CONSTANTS
    folder = folder
    file = file
    broad = broad
    narrow = narrow
    Path <- MCPath
    Inside <- MCInside
    Query <- MCQuery
    Hits <- MCHits
    MaxSlow = 5
    MaxFast = 4
INVARIANTS TypeOK SettledShowsQuery EngineSafe
PROPERTIES OnlyConfirmedGone BusyAlwaysEnds
CHECK_DEADLOCK FALSE
