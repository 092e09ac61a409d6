----------------------------- MODULE CloneWindow -----------------------------
(***************************************************************************)
(* The window of EverythingClone.exe (main.cpp): the thread that builds    *)
(* the indexes, the rows with their selection and the box that renames     *)
(* one, deletions, the options window, and settings.ini.                   *)
(*                                                                         *)
(* Everything but the indexing runs on the UI thread; a message box, a     *)
(* menu and the shell's own windows run loops in which the messages of     *)
(* other windows are handled.  Selection and rename box go by row number.  *)
(***************************************************************************)
EXTENDS Settings

CONSTANTS
    File,       \* 1 .. n: paths in the order of their text
    Inside,     \* Inside[f]: f, and what is under it when f is a folder
    Query,      \* what the box, the filter and the toggles may say together
    Hits,       \* Hits[q]: the paths that q matches
    Hidden,     \* Hidden[f]: the paths that hiding folder f hides
    MaxFolders, MaxActs   \* bounds: folders hidden, and what the user does

ASSUME CloneWindowAssumption ==
    /\ IsFiniteSet(File) /\ File = 1 .. Cardinality(File)
    /\ Inside \in [File -> SUBSET File]
    /\ \A f \in File : f \in Inside[f] /\ \A r \in Inside[f] : Inside[r] \subseteq Inside[f]
    /\ Hits \in [Query -> SUBSET File] /\ Hidden \in [Folder -> SUBSET File]
    /\ MaxFolders \in Nat /\ MaxActs \in Nat

VARIABLES
    disk,       \* the paths that exist
    known,      \* what the indexes hold
    indexing,   \* IndexingThread: "growing" g_volumes, "building", "posted"
                \* kMsgIndexReady, "ready", or "failed" when nothing was indexed
    query,      \* what is searched for
    exclude,    \* g_excludeFolders
    results,    \* g_results, the rows of the list
    ascending,  \* g_sortAscending
    selected,   \* the numbers of the selected rows
    edit,       \* the row whose name is being edited, or 0
    boxes,      \* menus, questions and messages, the innermost last, with the
                \* paths read from the rows before they opened
    job,        \* the deletion the user has agreed to
    running,    \* the process
    acts        \* counted for the bound

indexVars == <<known, indexing>>
listVars == <<query, results, selected, edit>>
processVars == <<running, acts>>
vars == <<disk, indexVars, listVars, ascending, exclude, boxes, job, processVars, settingsVars>>

NoJob == [todo |-> {}, failed |-> FALSE, on |-> FALSE]

Init ==
    /\ disk \in SUBSET File /\ known = {}
    /\ indexing = "growing"
    /\ query \in Query
    /\ exclude = <<>> /\ results = <<>> /\ ascending = TRUE
    /\ selected = {} /\ edit = 0
    /\ boxes = <<>> /\ job = NoJob
    /\ running = TRUE /\ acts = 0
    /\ SettingsInit

\* The UI thread is not in the middle of writing settings.ini.
Responsive == running /\ writes = <<>>

\* Boxes disable the window that owns them, and the shell's progress does too.
Listening == Responsive /\ boxes = <<>> /\ ~job.on

Act == acts < MaxActs /\ acts' = acts + 1 /\ UNCHANGED running

Push(kind, paths) == boxes' = Append(boxes, [kind |-> kind, paths |-> paths])
Popped == SubSeq(boxes, 1, Len(boxes) - 1)
TopIs(kinds) == boxes # <<>> /\ Last(boxes).kind \in kinds

-----------------------------------------------------------------------------
(* Searching *)

\* The rows in order, one way or the other.
SortResults(rows, up) ==
    {s \in {[i \in DOMAIN rows |-> rows[p[i]]] : p \in Bijection(DOMAIN rows, DOMAIN rows)} :
        \A i, j \in DOMAIN s : i < j => IF up THEN s[i] <= s[j] ELSE s[i] >= s[j]}

Visible(rows) == rows \ UNION {Hidden[f] : f \in ToSet(exclude)}

\* SearchAll; while the vector of volumes is growing it is a data race, of which
\* anything may come.  (What is beyond kMaxResults is in EngineApi.)
Found(q) ==
    IF indexing = "growing" THEN SUBSET File
    ELSE {Visible(Hits[q] \cap known)}

\* RunSearch: the list keeps the selection of the rows that are left, and may
\* give up the rename.
RunSearch(q) ==
    /\ \E rows \in Found(q) : results' \in SortResults(SetToSeq(rows), ascending)
    /\ selected' = selected \cap DOMAIN results'
    /\ edit' \in {edit, 0}

\* The box and the filter are enabled when there is an index, the menu's
\* toggles always.
SearchFor ==
    /\ Listening
    /\ \E q \in Query \ {query} : query' = q /\ RunSearch(q)
    /\ Act
    /\ UNCHANGED <<disk, indexVars, ascending, exclude, boxes, job, settingsVars>>

\* F5 comes through while a name is edited.
Refresh ==
    /\ Listening
    /\ RunSearch(query)
    /\ Act
    /\ UNCHANGED <<disk, indexVars, query, ascending, exclude, boxes, job, settingsVars>>

ClickColumn ==
    /\ Listening
    /\ ascending' = ~ascending
    /\ results' \in SortResults(results, ascending')
    /\ edit' \in {edit, 0}
    /\ Act
    /\ UNCHANGED <<disk, indexVars, query, selected, exclude, boxes, job, settingsVars>>

Select ==
    /\ Listening
    /\ selected' \in SUBSET DOMAIN results
    /\ selected' # selected
    /\ Act
    /\ UNCHANGED <<disk, indexVars, query, results, edit, ascending, exclude, boxes, job, settingsVars>>

-----------------------------------------------------------------------------
(* Renaming *)

RenameKey ==
    /\ Listening
    /\ \E row \in selected : edit' = row
    /\ Act
    /\ UNCHANGED <<disk, indexVars, query, results, selected, ascending, exclude, boxes, job, settingsVars>>

\* LVN_ENDLABELEDIT, which also comes when a box takes the focus away.  The path
\* is that of the row by now.  (That a folder's contents move with it is left out.)
EndLabelEdit ==
    /\ Responsive
    /\ edit # 0
    /\ edit' = 0
    /\ \/ UNCHANGED <<disk, results, boxes>>
       \/ /\ edit \in DOMAIN results
          /\ \E new \in File :
                IF results[edit] \in disk /\ new \notin disk
                   /\ Inside[results[edit]] = {results[edit]} /\ Inside[new] = {new}
                THEN /\ disk' = (disk \ {results[edit]}) \cup {new}
                     /\ results' = [results EXCEPT ![edit] = new]
                     /\ UNCHANGED boxes
                ELSE Push("told", {}) /\ UNCHANGED <<disk, results>>
    /\ UNCHANGED <<indexVars, query, selected, ascending, exclude, job, processVars, settingsVars>>

-----------------------------------------------------------------------------
(* Deleting *)

SelectedPaths == {results[row] : row \in selected \cap DOMAIN results}

\* The keys and the menu bar ask at once, a context menu first.
AskDelete ==
    /\ Listening
    /\ SelectedPaths # {}
    /\ \E kind \in {"menu", "delete?"} : Push(kind, SelectedPaths)
    /\ Act
    /\ UNCHANGED <<disk, indexVars, listVars, ascending, exclude, job, settingsVars>>

\* ActionDelete and ActionForceDelete, with the paths the menu was opened for;
\* the shell's own commands are not modelled.
MenuDelete ==
    /\ Responsive /\ TopIs({"menu"})
    /\ boxes' = Append(Popped, [kind |-> "delete?", paths |-> Last(boxes).paths])
    /\ UNCHANGED <<disk, indexVars, listVars, ascending, exclude, job, processVars, settingsVars>>

\* Mutant of AnswerYes: the selection is read once more.
AnswerYesReread ==
    /\ Responsive /\ TopIs({"delete?"})
    /\ boxes' = Popped
    /\ job' = [todo |-> SelectedPaths, failed |-> FALSE, on |-> TRUE]
    /\ UNCHANGED <<disk, indexVars, listVars, ascending, exclude, processVars, settingsVars>>

AnswerYes ==
    /\ Responsive /\ TopIs({"delete?"})
    /\ boxes' = Popped
    /\ job' = [todo |-> Last(boxes).paths, failed |-> FALSE, on |-> TRUE]
    /\ UNCHANGED <<disk, indexVars, listVars, ascending, exclude, processVars, settingsVars>>

CloseBox ==
    /\ Responsive /\ TopIs({"menu", "delete?", "told"})
    /\ boxes' = Popped
    /\ UNCHANGED <<disk, indexVars, listVars, ascending, exclude, job, processVars, settingsVars>>

\* SHFileOperation, for all paths at once or for each, and then a second time
\* with the rights taken, takes away what it can, contents first.
DeletePath ==
    /\ running /\ job.on
    /\ \E p \in job.todo : \E gone \in SUBSET (Inside[p] \cap disk) :
          /\ \A r \in gone : Inside[r] \cap disk \subseteq gone
          /\ disk' = disk \ gone
          /\ job' = [job EXCEPT !.todo = @ \ {p}, !.failed = @ \/ p \notin gone]
    /\ UNCHANGED <<indexVars, listVars, ascending, exclude, boxes, processVars, settingsVars>>

\* The user may abort it.  What has failed is told before the search is run.
DeleteEnd ==
    /\ Responsive /\ job.on
    /\ boxes = <<>>
    /\ job' = NoJob
    /\ IF job.failed \/ job.todo # {}
       THEN /\ Push("failed", {})
            /\ UNCHANGED listVars
       ELSE /\ RunSearch(query)
            /\ UNCHANGED <<boxes, query>>
    /\ UNCHANGED <<disk, indexVars, ascending, exclude, processVars, settingsVars>>

CloseFailed ==
    /\ Responsive /\ TopIs({"failed"})
    /\ boxes' = Popped
    /\ RunSearch(query)
    /\ UNCHANGED <<disk, indexVars, query, ascending, exclude, job, processVars, settingsVars>>

-----------------------------------------------------------------------------
(* The options window, which no box disables, and the font *)

\* A folder may be added twice.  The rows are not searched again.
AddFolder ==
    /\ Responsive
    /\ Len(exclude) < MaxFolders
    /\ \E f \in Folder : exclude' = Append(exclude, f)
    /\ SaveExcludeFolders(exclude')
    /\ Act
    /\ UNCHANGED <<disk, indexVars, listVars, ascending, boxes, job, ini>>

RemoveFolder ==
    /\ Responsive
    /\ \E i \in DOMAIN exclude : exclude' = RemoveAt(exclude, i)
    /\ SaveExcludeFolders(exclude')
    /\ Act
    /\ UNCHANGED <<disk, indexVars, listVars, ascending, boxes, job, ini>>

FontAndColor ==
    /\ Listening
    /\ \E style \in Style : SaveDisplaySettings(style)
    /\ Act
    /\ UNCHANGED <<disk, indexVars, listVars, ascending, exclude, boxes, job, ini>>

WriteSettings ==
    /\ running
    /\ WriteKey
    /\ UNCHANGED <<disk, indexVars, listVars, ascending, exclude, boxes, job, processVars>>

-----------------------------------------------------------------------------
(* Indexing, and the process *)

threadRest == <<disk, listVars, ascending, exclude, boxes, job, processVars, settingsVars>>

\* All the empty indexes are there; they are then filled.
IndexesAdded ==
    /\ running /\ indexing = "growing"
    /\ indexing' = "building"
    /\ UNCHANGED <<known, threadRest>>

IndexesBuilt ==
    /\ running /\ indexing = "building"
    /\ indexing' = "posted"
    /\ known' \in {disk, {}}
    /\ UNCHANGED threadRest

IndexReady ==
    /\ Responsive /\ indexing = "posted"
    /\ indexing' = IF known = {} THEN "failed" ELSE "ready"
    /\ IF known = {} THEN UNCHANGED listVars ELSE RunSearch(query) /\ UNCHANGED query
    /\ UNCHANGED <<disk, known, ascending, exclude, boxes, job, processVars, settingsVars>>

\* A UsnWatcher hears of one path that has gone or come.
WatcherHears ==
    /\ running /\ indexing \in {"posted", "ready"} /\ known # {}
    /\ \E p \in File :
          \/ p \in known \ disk /\ known' = known \ {p}
          \/ p \in disk \ known /\ known' = known \cup {p}
    /\ UNCHANGED <<indexing, threadRest>>

\* The tray's exit works while boxes are open, and a crash at any time.
Exit ==
    /\ running
    /\ running' = FALSE
    /\ UNCHANGED <<disk, indexVars, listVars, ascending, exclude, boxes, job, acts, settingsVars>>

\* wWinMain and WM_CREATE
Launch ==
    /\ ~running /\ acts < MaxActs
    /\ running' = TRUE /\ acts' = acts + 1
    /\ exclude' = LoadExcludeFolders
    /\ known' = {} /\ indexing' = "growing"
    /\ results' = <<>> /\ ascending' = TRUE /\ selected' = {} /\ edit' = 0
    /\ boxes' = <<>> /\ job' = NoJob
    /\ writes' = <<>>
    /\ UNCHANGED <<disk, query, ini>>

Next ==
    \/ SearchFor \/ Refresh \/ ClickColumn \/ Select
    \/ RenameKey \/ EndLabelEdit
    \/ AskDelete \/ MenuDelete \/ AnswerYes \/ CloseBox
    \/ DeletePath \/ DeleteEnd \/ CloseFailed
    \/ AddFolder \/ RemoveFolder \/ FontAndColor \/ WriteSettings
    \/ IndexesAdded \/ IndexesBuilt \/ IndexReady \/ WatcherHears
    \/ Exit \/ Launch

Spec == Init /\ [][Next]_vars

-----------------------------------------------------------------------------
(* Properties *)

TypeOK ==
    /\ disk \subseteq File /\ known \subseteq File
    /\ indexing \in {"growing", "building", "posted", "ready", "failed"}
    /\ query \in Query /\ ascending \in BOOLEAN
    /\ exclude \in BoundedSeq(Folder, MaxFolders)
    /\ ToSet(results) \subseteq File
    /\ selected \subseteq DOMAIN results
    /\ edit \in Nat
    /\ \A i \in DOMAIN boxes : boxes[i].paths \subseteq File
    /\ job.todo \subseteq File /\ (job.on => ~TopIs({"delete?", "menu"}))
    /\ acts \in 0 .. MaxActs

Below(paths) == UNION {Inside[p] : p \in paths}

\* Rows are replaced, renamed and sorted while boxes are open and deletions
\* under way; what disappears is what a question was about that was answered
\* with yes.
Deletion == INSTANCE ConfirmedDeletion WITH
    files <- disk,
    asked <- Below(UNION {b.paths : b \in {c \in ToSet(boxes) : c.kind = "delete?"}}),
    approved <- Below(job.todo)

OnlyConfirmedGone == Deletion!Spec

\* Wherever a save is cut short, once it has changed the file no folder is
\* hidden by the next start that the user had stopped hiding or had not chosen;
\* one that was not cut short is loaded as it was.
RemovedFolderStaysOut ==
    /\ [][ini' # ini => ToSet(LoadExcludeFolders') \subseteq ToSet(exclude')]_vars
    /\ [](running /\ writes = <<>> => LoadExcludeFolders = exclude)

(* What is said of the code, and does not hold. *)

\* The exclude folders are "hidden from results".
HiddenIsNotShown ==
    indexing = "ready" /\ Responsive =>
        ToSet(results) \cap UNION {Hidden[f] : f \in ToSet(exclude)} = {}

\* IndexingThread builds the index, "then hands control back to the UI thread":
\* before, nothing is searched.
NothingSearchedBefore == indexing \in {"growing", "building"} => results = <<>>

\* A deletion re-runs the search, so that the rows deleted are no longer shown.
DeletedRowsGone ==
    [][job.on /\ ~job'.on /\ running' /\ boxes' = <<>> => ToSet(results') \subseteq disk']_vars
=============================================================================
