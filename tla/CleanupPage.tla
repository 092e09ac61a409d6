----------------------------- MODULE CleanupPage -----------------------------
(***************************************************************************)
(* Memory Master's cleanup page: two scanners and the zone that things are *)
(* dropped on to be deleted.  Each job has a QThread of its own, but all   *)
(* share `_worker', the progress bar and the stop button, and no button is *)
(* disabled while a job runs.  Results are queued signals; the event loop  *)
(* of an open dialog handles them too.                                     *)
(*                                                                         *)
(* What the review of image pairs deletes is in DuplicateImages, how the   *)
(* pipeline deletes in ForceDelete.                                        *)
(***************************************************************************)
EXTENDS Naturals, SequencesExt, FiniteSets

CONSTANTS
    File,       \* files and folders
    Inside,     \* Inside[f]: f, and what is under it when f is a folder
    MaxJobs     \* bound: QThreads the page starts

ASSUME CleanupPageAssumption ==
    /\ Inside \in [File -> SUBSET File]
    /\ \A f \in File : f \in Inside[f] /\ \A r \in Inside[f] : Inside[r] \subseteq Inside[f]
    /\ MaxJobs \in Nat

VARIABLES
    disk,       \* the files that exist
    jobs,       \* the threads, by number in the order they were started
    worker,     \* _worker: the newest of them, or 0
    bar,        \* the progress bar is visible
    stop,       \* the stop button: "hidden", "on", or "off" when disabled
    folders,    \* _image_folders
    dialogs     \* the modal dialogs of the application, the innermost last

progressVars == <<worker, bar, stop>>
cleanupVars == <<disk, jobs, progressVars, folders>>

Job == 1 .. MaxJobs
Kinds == {"files", "images", "analyze", "execute"}

\* paths: what run() was given.  todo: of these and what is below them, what
\* execute() has still to come to.
Idle == [kind |-> "files", at |-> "unused", paths |-> {}, todo |-> {}, cancelled |-> FALSE]

CleanupInit ==
    /\ disk = File
    /\ jobs = [j \in Job |-> Idle]
    /\ worker = 0 /\ bar = FALSE /\ stop = "hidden"
    /\ folders = {}

\* A modal dialog of any page takes the user's clicks from the pages.
Listening == dialogs = <<>>

Below(paths) == UNION {Inside[p] : p \in paths}

Push(kind, paths) == dialogs' = Append(dialogs, [kind |-> kind, paths |-> paths])
Pop == dialogs' = SubSeq(dialogs, 1, Len(dialogs) - 1)
TopIs(kinds) == dialogs # <<>> /\ Last(dialogs).kind \in kinds

-----------------------------------------------------------------------------
(* The progress row, and jobs that begin *)

\* _start_progress
StartProgress(cancellable) ==
    /\ bar' = TRUE
    /\ stop' = IF cancellable THEN "on" ELSE "hidden"

\* Mutant of EndProgress: the stop button is left as it is.
EndProgressStoppable ==
    /\ bar' = FALSE
    /\ UNCHANGED stop

\* _end_progress, whichever job has ended
EndProgress ==
    /\ bar' = FALSE
    /\ stop' = "hidden"

Start(kind, paths, todo) ==
    /\ worker < MaxJobs
    /\ worker' = worker + 1
    /\ jobs' = [jobs EXCEPT ![worker + 1] =
                   [kind |-> kind, at |-> "running", paths |-> paths, todo |-> todo,
                    cancelled |-> FALSE]]
    /\ StartProgress(kind # "analyze")

BrowseForDuplicateFiles ==
    /\ Listening
    /\ \E folder \in File : Start("files", {folder}, {})
    /\ UNCHANGED <<disk, folders, dialogs>>

AddImageFolder ==
    /\ Listening
    /\ \E folder \in File \ folders : folders' = folders \cup {folder}
    /\ UNCHANGED <<disk, jobs, progressVars, dialogs>>

RemoveImageFolder ==
    /\ Listening
    /\ \E sel \in SUBSET folders \ {{}} : folders' = folders \ sel
    /\ UNCHANGED <<disk, jobs, progressVars, dialogs>>

\* The thread scans a copy of the list.
StartImageScan ==
    /\ Listening
    /\ IF folders = {}
       THEN Push("told", {}) /\ UNCHANGED <<jobs, progressVars>>
       ELSE Start("images", folders, {}) /\ UNCHANGED dialogs
    /\ UNCHANGED <<disk, folders>>

\* dropEvent: the first of the paths dropped.
AnalyzeDroppedPath ==
    /\ Listening
    /\ \E path \in File : Start("analyze", {path}, {})
    /\ UNCHANGED <<disk, folders, dialogs>>

\* Only the newest job can be told.
StopClicked ==
    /\ Listening
    /\ stop = "on"
    /\ jobs' = [jobs EXCEPT ![worker].cancelled = TRUE]
    /\ stop' = "off"
    /\ UNCHANGED <<disk, worker, bar, folders, dialogs>>

-----------------------------------------------------------------------------
(* Results, handled on the UI thread *)

\* Signals are handled in the order they were posted, which may be any.
Handle(j, kind) ==
    /\ jobs[j].kind = kind /\ jobs[j].at = "posted"
    /\ jobs' = [jobs EXCEPT ![j].at = "handled"]
    /\ EndProgress
    /\ UNCHANGED <<disk, worker, folders>>

DuplicateFilesReady(j) ==
    /\ Handle(j, "files")
    /\ UNCHANGED dialogs

\* Pairs are reviewed; that there are none is told.
ImageScanReady(j) ==
    /\ Handle(j, "images")
    /\ Push("review", {}) \/ Push("told", {})

\* A blocked path is told.
AnalyzeReady(j) ==
    /\ Handle(j, "analyze")
    /\ Push("confirm", jobs[j].paths) \/ Push("told", {})

\* Mutant of Confirmed: what was dropped last is deleted.
ConfirmedNewest ==
    /\ TopIs({"confirm"})
    /\ Start("execute", jobs[worker].paths, Below(jobs[worker].paths))
    /\ Pop
    /\ UNCHANGED <<disk, folders>>

\* The box is ticked and the button pressed: _execute_delete.
Confirmed ==
    /\ TopIs({"confirm"})
    /\ Start("execute", Last(dialogs).paths, Below(Last(dialogs).paths))
    /\ Pop
    /\ UNCHANGED <<disk, folders>>

CloseDialog ==
    /\ TopIs({"confirm", "told", "review"})
    /\ Pop
    /\ UNCHANGED cleanupVars

ExecuteDone(j) ==
    /\ Handle(j, "execute")
    /\ Push("told", {})

-----------------------------------------------------------------------------
(* The threads *)

threadRest == <<progressVars, folders, dialogs>>

\* Scans look at `cancelled' before every file; an analysis cannot be stopped.
Finish(j) ==
    /\ jobs[j].kind # "execute" /\ jobs[j].at = "running"
    /\ jobs' = [jobs EXCEPT ![j].at = "posted"]
    /\ UNCHANGED <<disk, threadRest>>

\* Bottom-up; a folder with something left in it stays.
ExecuteEntry(j) ==
    /\ jobs[j].kind = "execute" /\ jobs[j].at = "running"
    /\ ~jobs[j].cancelled
    /\ \E f \in jobs[j].todo :
          /\ Inside[f] \cap jobs[j].todo = {f}
          /\ jobs' = [jobs EXCEPT ![j].todo = @ \ {f}]
          /\ \/ UNCHANGED disk
             \/ Inside[f] \cap disk = {f} /\ disk' = disk \ {f}
    /\ UNCHANGED threadRest

\* All entries done, cancelled, or refused as protected before the first.
ExecuteEnd(j) ==
    /\ jobs[j].kind = "execute" /\ jobs[j].at = "running"
    /\ jobs[j].todo = {} \/ jobs[j].cancelled \/ jobs[j].todo = Below(jobs[j].paths)
    /\ jobs' = [jobs EXCEPT ![j].at = "posted", ![j].todo = {}]
    /\ UNCHANGED <<disk, threadRest>>

CleanupNext ==
    \/ BrowseForDuplicateFiles \/ AddImageFolder \/ RemoveImageFolder
    \/ StartImageScan \/ AnalyzeDroppedPath \/ StopClicked
    \/ Confirmed \/ CloseDialog
    \/ \E j \in Job :
          \/ DuplicateFilesReady(j) \/ ImageScanReady(j) \/ AnalyzeReady(j) \/ ExecuteDone(j)
          \/ Finish(j) \/ ExecuteEntry(j) \/ ExecuteEnd(j)

-----------------------------------------------------------------------------
(* Properties *)

JobRecord == [kind : Kinds, at : {"unused", "running", "posted", "handled"},
              paths : SUBSET File, todo : SUBSET File, cancelled : BOOLEAN]
DialogKinds == {"told", "confirm", "review", "remove failed", "add failed"}
Dialog == [kind : DialogKinds, paths : SUBSET File]

CleanupTypeOK ==
    /\ disk \subseteq File
    /\ jobs \in [Job -> JobRecord]
    /\ worker \in 0 .. MaxJobs
    /\ bar \in BOOLEAN /\ stop \in {"hidden", "on", "off"}
    /\ folders \subseteq File
    /\ dialogs \in Seq(Dialog)

\* Analyses and deletions overlap, and a result may put its question above
\* another one; what disappears is what the question that was answered was
\* about.
Deletion == INSTANCE ConfirmedDeletion WITH
    files <- disk,
    asked <- Below(UNION {d.paths : d \in {e \in ToSet(dialogs) : e.kind = "confirm"}}),
    approved <- UNION {jobs[j].todo : j \in Job}

OnlyConfirmedGone == Deletion!Spec

\* Whatever jobs overlap, a stop button that can be pressed stops something: the
\* newest job can be cancelled, has not been, and its result is still to come.
StopHasATarget ==
    stop = "on" =>
        /\ worker # 0
        /\ jobs[worker].kind # "analyze" /\ ~jobs[worker].cancelled
        /\ jobs[worker].at \in {"running", "posted"}

(* What is said of the code, and does not hold. *)

\* _worker is the active thread, "one at a time".
OneAtATime == Cardinality({j \in Job : jobs[j].at = "running"}) <= 1
=============================================================================
