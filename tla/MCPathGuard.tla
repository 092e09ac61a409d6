---------------------------- MODULE MCPathGuard -----------------------------
(* Instances of PathGuard for TLC. *)
EXTENDS PathGuard

CONSTANTS C, windows, installer, programfiles, programdata, users, app, other

MCName == {windows, installer, programfiles, programdata, users, app, other}

MCSystemRoot == <<C, windows>>
MCInstaller == <<C, windows, installer>>
MCProgramFiles == <<C, programfiles>>
MCProgramData == <<C, programdata>>
MCMovedProgramData == <<C, other, other, programdata>>
MCAppDir == <<C, other, app>>
MCSharedAppDir == <<C, programdata, app>>

\* From a folder that may be deleted into each kind of root, and out of one.
MCLinks == {[from |-> <<C, other, other>>, to |-> <<C, windows>>],
            [from |-> <<C, other, other>>, to |-> <<C, windows, installer>>],
            [from |-> <<C, other, other>>, to |-> <<C, users>>],
            [from |-> <<C, programdata, other>>, to |-> <<C, programfiles>>],
            [from |-> <<C, windows, other>>, to |-> <<C, other, app>>]}
=============================================================================
