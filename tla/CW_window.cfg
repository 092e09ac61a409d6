SPECIFICATION Spec
CONSTANTS
    File = {1, 2, 3}
    all = all
    some = some
    here = here
    there = there
    Folder = {here, there}
    Style = {plain}
    Query = {all, some}
    Inside <- MCInside
    Hits <- MCHits
    Hidden <- MCHidden
    MaxFolders = 2
    MaxActs = 4
PROPERTIES OnlyConfirmedGone RemovedFolderStaysOut
CHECK_DEADLOCK FALSE
