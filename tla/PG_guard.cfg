SPECIFICATION GuardSpec
CONSTANTS
    C = C
    windows = windows
    installer = installer
    programfiles = programfiles
    programdata = programdata
    users = users
    app = app
    other = other
    Drive = {C}
    Name <- MCName
    Users = users
    SystemRoot <- MCSystemRoot
    ProgramFiles <- MCProgramFiles
    AppDir <- MCAppDir
    ProgramData <- MCProgramData
    Installer <- MCInstaller
    Links <- MCLinks
    MaxDepth = 3
INVARIANTS ProtectedKept RestDeletable
CHECK_DEADLOCK FALSE
