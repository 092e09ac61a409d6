------------------------------ MODULE MainWindow ------------------------------
(***************************************************************************)
(* Memory Master's main window and process: the cleanup, startup and       *)
(* settings pages with one user, one event loop and one stack of modal     *)
(* dialogs, until the tray icon's exit, and started again.  Pages can be   *)
(* switched, and the window hidden and shown, between any two clicks; the  *)
(* search page has a module of its own.                                    *)
(***************************************************************************)
EXTENDS CleanupPage

CONSTANTS Value, Task, Installed, MaxScans        \* see StartupManager
CONSTANTS Theme, Opacity, Folder, Dark, Opaque    \* see AppConfig
CONSTANT MaxClicks                                \* bound: what the user does

ASSUME MainWindowAssumption ==
    /\ MaxClicks \in Nat
    /\ MaxScans \in Nat /\ Task \cap Value = {}
    /\ Installed \subseteq Value /\ IsFiniteSet(Installed)
    /\ \A v, w \in Installed : v[1] = w[1] => v = w
    /\ Dark \in Theme /\ Opaque \in Opacity /\ Opacity \subseteq 30 .. 100

VARIABLES
    runKey, entries, scans, handled,       \* see StartupManager
    file, config, look, slider, chosen,    \* see AppConfig
    running,    \* the process
    clicks      \* counted for the bound

Startup == INSTANCE StartupManager
Settings == INSTANCE AppConfig

startupVars == <<runKey, entries, scans, handled>>
configVars == <<file, config, look, slider, chosen>>
processVars == <<running, clicks>>
vars == <<cleanupVars, startupVars, configVars, processVars, dialogs>>

\* Pages are built in the order of _PAGES; the startup page scans at once.
Init ==
    /\ CleanupInit
    /\ Startup!StartupInit
    /\ Settings!ConfigInit
    /\ dialogs = <<>>
    /\ running = TRUE /\ clicks = 0

Click ==
    /\ running
    /\ clicks < MaxClicks
    /\ clicks' = clicks + 1
    /\ UNCHANGED running

CleanupClick ==
    /\ \/ BrowseForDuplicateFiles \/ AddImageFolder \/ RemoveImageFolder
       \/ StartImageScan \/ AnalyzeDroppedPath \/ StopClicked \/ Confirmed
    /\ Click
    /\ UNCHANGED <<startupVars, configVars>>

StartupClick ==
    /\ Startup!ClickRefresh \/ Startup!AddEntry \/ Startup!RemoveSelected
    /\ Click
    /\ UNCHANGED <<cleanupVars, configVars>>

SettingsClick ==
    /\ Listening
    /\ Settings!ConfigNext
    /\ Click
    /\ UNCHANGED <<cleanupVars, startupVars, dialogs>>

\* A message that is read is not counted.
DialogClosed ==
    /\ running
    /\ \/ CloseDialog /\ UNCHANGED startupVars
       \/ (Startup!RemoveFailedRead \/ Startup!AddFailedRead) /\ UNCHANGED cleanupVars
    /\ UNCHANGED <<configVars, processVars>>

CleanupThreads ==
    /\ running
    /\ \E j \in Job :
          \/ DuplicateFilesReady(j) \/ ImageScanReady(j) \/ AnalyzeReady(j) \/ ExecuteDone(j)
          \/ Finish(j) \/ ExecuteEntry(j) \/ ExecuteEnd(j)
    /\ UNCHANGED <<startupVars, configVars, processVars>>

StartupThreads ==
    /\ running
    /\ \E i \in DOMAIN scans :
          Startup!ReadRunKey(i) \/ Startup!QueryScheduledTasks(i) \/ Startup!ScanReady(i)
    /\ UNCHANGED <<cleanupVars, configVars, processVars>>

\* The tray's menu works while dialogs are open; no dialog is answered.  Of these
\* pages none hears of aboutToQuit: their threads end with the process, as they
\* do when it crashes.
Quit ==
    /\ running
    /\ running' = FALSE
    /\ UNCHANGED <<cleanupVars, startupVars, configVars, clicks, dialogs>>

Main ==
    /\ ~running /\ clicks < MaxClicks
    /\ running' = TRUE
    /\ jobs' = [j \in Job |-> Idle] /\ worker' = 0
    /\ bar' = FALSE /\ stop' = "hidden" /\ folders' = {}
    /\ scans' = <<Startup!Begun>> /\ handled' = 0 /\ entries' = {}
    /\ dialogs' = <<>>
    /\ Settings!Load
    /\ clicks' = clicks + 1
    /\ UNCHANGED <<disk, runKey>>

Next ==
    \/ CleanupClick \/ StartupClick \/ SettingsClick \/ DialogClosed
    \/ CleanupThreads \/ StartupThreads
    \/ Quit \/ Main

Spec == Init /\ [][Next]_vars

-----------------------------------------------------------------------------
(* Properties *)

TypeOK ==
    /\ CleanupTypeOK /\ Startup!StartupTypeOK /\ Settings!ConfigTypeOK
    /\ running \in BOOLEAN /\ clicks \in 0 .. MaxClicks

\* See StartupManager: the table shows the Run key, also while dialogs of other
\* pages are open and after a new start.
TableIsRunKey == Startup!TableIsRunKey

\* See AppConfig: no start, after whatever end, meets half a configuration.
ConfigIsWhole == Settings!ConfigIsWhole

(* What is said of the code, and does not hold. *)

\* "The normally-running app instead stops workers via each page's own
\* QApplication.aboutToQuit connection": none runs when the process ends.
WorkersStopBeforeExit ==
    [][running /\ ~running' =>
        /\ \A j \in Job : jobs[j].at # "running"
        /\ \A i \in DOMAIN scans : scans[i].at \notin {"reading", "waiting"}]_vars
=============================================================================
