SPECIFICATION Spec
CONSTANTS
    top = top
    leaf = leaf
    File <- MCFile
    Inside <- MCInside
    MaxJobs = 3
    app = app
    tool = tool
    old = old
    new = new
    Value <- MCValue
    Installed <- MCInstalled
    Task = {task}
    MaxScans = 2
    Theme = {dark, light}
    Opacity = {100}
    Folder = {}
    Dark = dark
    Opaque = 100
    MaxClicks = 3
INVARIANTS TypeOK StopHasATarget TableIsRunKey ConfigIsWhole
PROPERTY OnlyConfirmedGone
CHECK_DEADLOCK FALSE
