--------------------------- MODULE DuplicateImages ---------------------------
(***************************************************************************)
(* The scan for duplicate images of the cleanup page, and the dialog that  *)
(* reviews its pairs: core/image_scanner.py, duplicate_image_manager.py    *)
(* and core/quarantine.py.  The dialog's worker thread moves or deletes    *)
(* files while the user goes on working with the table.                    *)
(*                                                                         *)
(* The code knows files by their paths only, and a path is a string: the   *)
(* folder dialog writes a root with slashes and os.walk joins what it      *)
(* finds below with backslashes, so that a file below two of the roots may *)
(* have two paths.  A path is its place in the order of sorted(): 1 is the *)
(* first.  `keeper' and `respelled' are history: no guard uses them.       *)
(***************************************************************************)
EXTENDS Naturals, SequencesExt

Plain == 0       \* the suffix of a name that was free
Nobody == "nobody"
Several == "several"  \* more than one folder, or the user's hand

CONSTANTS
    Path,       \* the paths of images, 1 .. n
    FileOf,     \* the file each leads to
    Folder,     \* its os.path.dirname, as a string
    Name,       \* its os.path.basename
    Root,       \* the folders that may be scanned
    Walk,       \* the paths os.walk gives of what is below each of them
    NearDuplicate,  \* the sets {f, g} of files with near hashes, f # g
    SharedFeatures, \* the sets {f, g} with many matches; f = g, if f has many features
    MaxTime     \* bound: seconds that pass

File == {FileOf[p] : p \in Path}

\* A walk gives each file one path.
ASSUME DuplicateImagesAssumption ==
    /\ IsFiniteSet(Path) /\ Path = 1 .. Cardinality(Path)
    /\ DOMAIN FileOf = Path /\ DOMAIN Folder = Path /\ DOMAIN Name = Path
    /\ \A p \in Path : Folder[p] \notin {Nobody, Several}
    /\ Walk \in [Root -> SUBSET Path]
    /\ \A r \in Root : \A p, q \in Walk[r] : FileOf[p] = FileOf[q] => p = q
    /\ NearDuplicate \subseteq SUBSET File /\ SharedFeatures \subseteq SUBSET File
    /\ MaxTime \in Nat \ {0}

VARIABLES
    disk,      \* the files that are there
    stash,     \* the quarantine: the file moved to each <<name, suffix>>
    time,      \* in whole seconds
    roots,     \* the folders the thread scans, as they were added
    phase,     \* the scan's next pass, or the state of the dialog
    cancel,    \* the stop button has been pressed
    pairs,     \* the worker's list, then the dialog's _pairs
    table,     \* the rows of the dialog: the paths they show, the boxes ticked
    modal,     \* the menu, the question or the message that is open
    menu,      \* the row the menu was opened on, and its pair
    enabled,   \* the two buttons are
    job,       \* what _worker does: "none", "quarantine" or "delete"
    todo,      \* the paths it has not come to
    failed,    \* it has failed to delete some
    keeper,    \* history: the one priority folder that has ticked boxes
    respelled, \* history: the files the chosen roots give more than one path
    scanned    \* the pairs the dialog was opened with; their folders are offered

fileVars == <<disk, stash, time>>
scanVars == <<roots, cancel, scanned, respelled>>
rowVars == <<pairs, table>>
jobVars == <<enabled, job, todo, failed>>

vars == <<fileVars, scanVars, rowVars, jobVars, keeper, phase, modal, menu>>

\* Something of that name may be in the quarantine already.
Old == 0

\* The files that are found below some of the folders under different paths.
Respelled(folders) ==
    {f \in File : \E r, s \in ToSet(folders) : \E p \in Walk[r], q \in Walk[s] :
                     p # q /\ FileOf[p] = f /\ FileOf[q] = f}

Init ==
    /\ disk = File /\ time = 1
    /\ \E names \in SUBSET {Name[p] : p \in Path} : stash = [d \in names \X {Plain} |-> Old]
    /\ roots \in {r \in BoundedSeq(Root, Cardinality(Root)) : r # <<>> /\ IsInjective(r)}
    /\ respelled = Respelled(roots)
    /\ phase = "hash" /\ cancel = FALSE
    /\ pairs = <<>> /\ table = <<>> /\ scanned = {}
    /\ modal = "none" /\ menu = <<>>
    /\ enabled = TRUE /\ job = "none" /\ todo = <<>> /\ failed = FALSE
    /\ keeper = Nobody

-----------------------------------------------------------------------------
(* The clock *)

\* It is read for names in the quarantine only: elsewhere it need not go on.
Tick ==
    /\ job = "quarantine" /\ todo # <<>> /\ time < MaxTime
    /\ time' = time + 1
    /\ UNCHANGED <<disk, stash, scanVars, rowVars, jobVars, keeper, phase, modal, menu>>

-----------------------------------------------------------------------------
(* The scan, on a thread of the page *)

\* The lists of the elements of a set, each before the next.  There is one for
\* each order used here.
InOrder(S, before(_, _)) ==
    {s \in Bijection(1 .. Cardinality(S), S) :
        \A i, j \in DOMAIN s : i < j => before(s[i], s[j])}

\* The paths of files that are there.
There == {p \in Path : FileOf[p] \in disk}

\* Mutant of ListImages: a list for each folder, one behind the other.
ListImagesOfEach(folders) ==
    {FlattenSeq([i \in DOMAIN folders |->
                    CHOOSE list \in InOrder(There \cap Walk[folders[i]], <) : TRUE])}

\* _list_images: a path is listed once, whatever folders it is below of.
ListImages(folders) == InOrder(There \cap UNION {Walk[r] : r \in ToSet(folders)}, <)

\* The order in which two loops, one in the other, come to two positions, and
\* where they end.
Earlier(at, to) == at[1] < to[1] \/ (at[1] = to[1] /\ at[2] < to[2])
End(list) == <<Len(list) + 1, 0>>
Positions(list) == {at \in (DOMAIN list) \X (DOMAIN list) : at[1] < at[2]}

\* The pairs of a list that are alike, of those compared before the loops stop.
Alike(list, stop, related) ==
    {[k \in DOMAIN order |-> <<list[order[k][1]], list[order[k][2]]>>] :
        order \in InOrder({at \in Positions(list) :
                              Earlier(at, stop) /\ <<list[at[1]], list[at[2]]>> \in related},
                          Earlier)}

PathsOf(related) == {pair \in Path \X Path : {FileOf[pair[1]], FileOf[pair[2]]} \in related}

\* find_near_duplicate_images: of a cancelled pass the files hashed so far are
\* compared; a path that cannot be read is left out.  A file is near itself.
HashPass ==
    /\ phase = "hash"
    /\ \E list \in ListImages(roots), readable \in SUBSET There : \E n \in 0 .. Len(list) :
          /\ n < Len(list) => cancel
          /\ \E hashed \in InOrder({list[i] : i \in 1 .. n} \cap readable, <) :
                pairs' \in Alike(hashed, End(hashed),
                                PathsOf(NearDuplicate \cup {{f} : f \in File}))
    /\ phase' = IF cancel THEN "scanned" ELSE "features"
    /\ UNCHANGED <<fileVars, scanVars, table, jobVars, keeper, modal, menu>>

\* find_similar_images_by_features, on a list of its own; what the first pass
\* has found is not added again.
FeaturePass ==
    /\ phase = "features"
    /\ \E list \in ListImages(roots), readable \in SUBSET There :
          \E stop \in Positions(list) \cup {End(list)} :
             /\ stop # End(list) => cancel
             /\ \E found \in Alike(list, stop,
                       {pair \in PathsOf(SharedFeatures) :
                           ToSet(pair) \subseteq readable /\ pair \notin ToSet(pairs)}) :
                   pairs' = pairs \o found
    /\ phase' = "scanned"
    /\ UNCHANGED <<fileVars, scanVars, table, jobVars, keeper, modal, menu>>

CancelScan ==
    /\ phase \in {"hash", "features"} /\ ~cancel
    /\ cancel' = TRUE
    /\ UNCHANGED <<fileVars, roots, scanned, respelled, rowVars, jobVars, keeper, phase, modal, menu>>

\* The dialog is opened, unless nothing was found; the scanning thread ends.
ImageScanReady ==
    /\ phase = "scanned"
    /\ phase' = IF pairs = <<>> THEN "closed" ELSE "review"
    /\ table' = [i \in DOMAIN pairs |-> [shows |-> pairs[i], checked |-> {}]]
    /\ scanned' = ToSet(pairs)
    /\ roots' = <<>> /\ cancel' = FALSE
    /\ UNCHANGED <<fileVars, pairs, respelled, jobVars, keeper, modal, menu>>

-----------------------------------------------------------------------------
(* The dialog: what the user does *)

Free == phase = "review" /\ modal = "none"

Tickbox(row, side) ==
    /\ Free /\ row \in DOMAIN table
    /\ table' = [table EXCEPT ![row].checked =
                     IF side \in @ THEN @ \ {side} ELSE @ \cup {side}]
    /\ keeper' = Several
    /\ UNCHANGED <<fileVars, scanVars, pairs, jobVars, phase, modal, menu>>

\* Mutant of Outside: the side in the folder is ticked.
OutsideSwapped(pair, folder) ==
    CASE Folder[pair[1]] = folder /\ Folder[pair[2]] # folder -> {1}
      [] Folder[pair[1]] # folder /\ Folder[pair[2]] = folder -> {2}
      [] OTHER -> {}

\* The side whose path is not in the folder, when the other one's is: strings
\* are compared.
Outside(pair, folder) ==
    CASE Folder[pair[1]] = folder /\ Folder[pair[2]] # folder -> {2}
      [] Folder[pair[1]] # folder /\ Folder[pair[2]] = folder -> {1}
      [] OTHER -> {}

\* _auto_select_by_priority; a row it does not decide is left as it is.
AutoSelect(folder) ==
    /\ Free
    /\ table' = [i \in DOMAIN table |->
                    IF i \in DOMAIN pairs /\ Outside(pairs[i], folder) # {}
                    THEN [table[i] EXCEPT !.checked = Outside(pairs[i], folder)]
                    ELSE table[i]]
    /\ keeper' = IF keeper \in {Nobody, folder} THEN folder ELSE Several
    /\ UNCHANGED <<fileVars, scanVars, pairs, jobVars, phase, modal, menu>>

ContextMenu(row) ==
    /\ Free /\ row \in DOMAIN table
    /\ modal' = "menu" /\ menu' = <<row, pairs[row]>>
    /\ UNCHANGED <<fileVars, scanVars, rowVars, jobVars, keeper, phase>>

MenuClose ==
    /\ modal = "menu"
    /\ modal' = "none" /\ menu' = <<>>
    /\ UNCHANGED <<fileVars, scanVars, rowVars, jobVars, keeper, phase>>

\* Mutant of MenuNotDuplicate: the row is removed from the table only.
MenuNotDuplicateRow ==
    /\ modal = "menu"
    /\ modal' = "none" /\ menu' = <<>>
    /\ table' = IF menu[1] \in DOMAIN pairs THEN RemoveAt(table, menu[1]) ELSE table
    /\ UNCHANGED <<fileVars, scanVars, pairs, jobVars, keeper, phase>>

\* The row may have moved meanwhile; past the end, pop raises and is logged.
MenuNotDuplicate ==
    /\ modal = "menu"
    /\ modal' = "none" /\ menu' = <<>>
    /\ IF menu[1] \in DOMAIN pairs
       THEN pairs' = RemoveAt(pairs, menu[1]) /\ table' = RemoveAt(table, menu[1])
       ELSE UNCHANGED rowVars
    /\ UNCHANGED <<fileVars, scanVars, jobVars, keeper, phase>>

\* A batch goes on.
CloseDialog ==
    /\ Free
    /\ phase' = "closed"
    /\ UNCHANGED <<fileVars, scanVars, rowVars, jobVars, keeper, modal, menu>>

-----------------------------------------------------------------------------
(* Batches *)

\* Mutant of CheckedPaths: the boxes of the two sides are mixed up.
CheckedPathsSwapped ==
    UNION {{pairs[i][3 - side] : side \in table[i].checked} : i \in DOMAIN pairs}

CheckedPaths ==
    UNION {{pairs[i][side] : side \in table[i].checked} : i \in DOMAIN pairs}

\* What the user sees ticked.
Ticked == UNION {{row.shows[side] : side \in row.checked} : row \in ToSet(table)}

\* Mutant of StartJob: the buttons are left enabled.
StartJobEnabled(kind) ==
    /\ job' = kind /\ failed' = FALSE
    /\ todo' \in InOrder(CheckedPaths, <)
    /\ UNCHANGED enabled

StartJob(kind) ==
    /\ job' = kind /\ failed' = FALSE /\ enabled' = FALSE
    /\ todo' \in InOrder(CheckedPaths, <)

QuarantineChecked ==
    /\ Free /\ enabled /\ CheckedPaths # {}
    /\ StartJob("quarantine")
    /\ UNCHANGED <<fileVars, scanVars, rowVars, keeper, phase, modal, menu>>

\* The question is modal and the table cannot change below it: no batch runs.
DeleteChecked ==
    /\ Free /\ enabled /\ CheckedPaths # {}
    /\ modal' = "question"
    /\ UNCHANGED <<fileVars, scanVars, rowVars, jobVars, keeper, phase, menu>>

AnswerYes ==
    /\ modal = "question"
    /\ modal' = "none"
    /\ StartJob("delete")
    /\ UNCHANGED <<fileVars, scanVars, rowVars, keeper, phase, menu>>

AnswerNo ==
    /\ modal = "question"
    /\ modal' = "none"
    /\ UNCHANGED <<fileVars, scanVars, rowVars, jobVars, keeper, phase, menu>>

\* Mutant of Destination: the name is used as it is.
DestinationPlain(path) == <<Name[path], Plain>>

Destination(path) ==
    IF <<Name[path], Plain>> \in DOMAIN stash THEN <<Name[path], time>> ELSE <<Name[path], Plain>>

\* move_to_quarantine: the file may be gone or kept open; shutil.move copies
\* over what is there, and may then fail to remove the original.
MoveToQuarantine(path) ==
    \/ /\ path \in There
       /\ stash' = [d \in DOMAIN stash \cup {Destination(path)} |->
                        IF d = Destination(path) THEN FileOf[path] ELSE stash[d]]
       /\ disk' \in {disk, disk \ {FileOf[path]}}
    \/ UNCHANGED <<disk, stash>>

QuarantineNext ==
    /\ job = "quarantine" /\ todo # <<>>
    /\ todo' = Tail(todo)
    /\ MoveToQuarantine(Head(todo))
    /\ UNCHANGED <<time, scanVars, rowVars, enabled, job, failed, keeper, phase, modal, menu>>

\* execute() of one path: erased, failed, or postponed to the next start of
\* Windows, which counts as done.
DeleteNext ==
    /\ job = "delete" /\ todo # <<>>
    /\ todo' = Tail(todo)
    /\ \/ /\ Head(todo) \in There
          /\ disk' = disk \ {FileOf[Head(todo)]}
          /\ UNCHANGED failed
       \/ Head(todo) \in There /\ UNCHANGED <<disk, failed>>
       \/ UNCHANGED disk /\ failed' = TRUE
    /\ UNCHANGED <<stash, time, scanVars, rowVars, enabled, job, keeper, phase, modal, menu>>

\* _remove_checked_rows, from the last row to the first, so that none moves
\* before its turn: those not ticked by now stay.
RemoveCheckedRows ==
    \E rest \in InOrder({i \in DOMAIN table : table[i].checked = {}}, <) :
        /\ pairs' = [k \in DOMAIN rest |-> pairs[rest[k]]]
        /\ table' = [k \in DOMAIN rest |-> table[rest[k]]]

\* A message closes an open menu; the rows go when it has been read.
ShowMessage ==
    /\ modal' = "message" /\ menu' = <<>>
    /\ UNCHANGED rowVars

QuarantineDone ==
    /\ job = "quarantine" /\ todo = <<>>
    /\ job' = "none" /\ enabled' = TRUE /\ failed' = FALSE
    /\ ShowMessage
    /\ UNCHANGED <<fileVars, scanVars, todo, keeper, phase>>

DeleteDone ==
    /\ job = "delete" /\ todo = <<>>
    /\ job' = "none" /\ enabled' = TRUE /\ failed' = FALSE
    /\ \/ failed /\ ShowMessage
       \/ ~failed /\ RemoveCheckedRows /\ UNCHANGED <<modal, menu>>
    /\ UNCHANGED <<fileVars, scanVars, todo, keeper, phase>>

CloseMessage ==
    /\ modal = "message"
    /\ modal' = "none"
    /\ RemoveCheckedRows
    /\ UNCHANGED <<fileVars, scanVars, jobVars, keeper, phase, menu>>

Next ==
    \/ Tick
    \/ HashPass \/ FeaturePass \/ CancelScan \/ ImageScanReady
    \/ \E row \in DOMAIN table : ContextMenu(row) \/ \E side \in {1, 2} : Tickbox(row, side)
    \/ \E folder \in {Folder[p] : p \in UNION {ToSet(pair) : pair \in scanned}} : AutoSelect(folder)
    \/ MenuClose \/ MenuNotDuplicate \/ CloseDialog
    \/ QuarantineChecked \/ DeleteChecked \/ AnswerYes \/ AnswerNo
    \/ QuarantineNext \/ DeleteNext
    \/ QuarantineDone \/ DeleteDone \/ CloseMessage

Spec == Init /\ [][Next]_vars

-----------------------------------------------------------------------------
(* Properties *)

TypeOK ==
    /\ disk \subseteq File /\ time \in 1 .. MaxTime
    /\ DOMAIN stash \subseteq {Name[p] : p \in Path} \X (0 .. MaxTime)
    /\ \A d \in DOMAIN stash : stash[d] \in File \cup {Old}
    /\ phase \in {"hash", "features", "scanned", "review", "closed"}
    /\ respelled \subseteq File
    /\ ToSet(pairs) \subseteq Path \X Path
    /\ \A row \in ToSet(table) : row.shows \in Path \X Path /\ row.checked \subseteq {1, 2}
    /\ modal \in {"none", "menu", "question", "message"}
    /\ job \in {"none", "quarantine", "delete"} /\ enabled = (job = "none")
    /\ ToSet(todo) \subseteq Path /\ (job = "none" => todo = <<>>)

\* However folders are nested and wherever the scan is stopped, no path is
\* paired with itself and no two paths are paired twice; a file meets itself
\* only if the roots give it more than one path.
PairsAreDistinct ==
    /\ \A pair \in ToSet(pairs) : pair[1] # pair[2]
    /\ IsInjective(pairs)
    /\ \A pair \in ToSet(pairs) : <<pair[2], pair[1]>> \notin ToSet(pairs)
    /\ \A pair \in ToSet(pairs) : FileOf[pair[1]] = FileOf[pair[2]] => FileOf[pair[1]] \in respelled

\* The table shows _pairs, row by row, although rows are removed by the menu,
\* by messages and by batches that end meanwhile.
TableShowsPairs ==
    phase \in {"review", "closed"} =>
        /\ DOMAIN table = DOMAIN pairs
        /\ \A i \in DOMAIN table : table[i].shows = pairs[i]

\* Rows may go while a batch runs; it takes away only files that the dialog
\* showed ticked when its button was pressed, each at most once.
Deletion == INSTANCE ConfirmedDeletion WITH
    files <- disk, asked <- {FileOf[p] : p \in Ticked},
    approved <- {FileOf[p] : p \in ToSet(todo)}

OnlyConfirmedGone == Deletion!Spec

\* Boxes ticked for one priority folder only take a file away by a path outside
\* of it, for one that is like it and in the folder: that one stays, unless the
\* roots give it more than one path.
PriorityKept ==
    keeper # Several =>
        \A f \in File \ disk : \E pair \in scanned : \E gone, kept \in ToSet(pair) :
            /\ FileOf[gone] = f /\ Folder[gone] # keeper
            /\ Folder[kept] = keeper /\ FileOf[kept] \in disk \cup respelled

\* What lies in the quarantine is replaced within the second it was put there,
\* and never if it has its own name.
OldQuarantineStays ==
    [][\A d \in DOMAIN stash : stash'[d] # stash[d] => d[2] = time]_vars

(* What is said of the code, and does not hold. *)

\* "picking two folders where one is nested inside the other ... can't make a
\* file appear more than once - that would otherwise let a file spuriously
\* \"pair\" with itself".
NoFileMeetsItself ==
    \A pair \in ToSet(pairs) : FileOf[pair[1]] # FileOf[pair[2]]

\* "Check (mark for deletion) whichever side is NOT in the priority folder": the
\* files of the folder stay.
PriorityFolderStays ==
    keeper # Several => \A p \in Path : Folder[p] = keeper => FileOf[p] \in disk

\* "Avoid clobbering an unrelated file that happens to share a name - suffix
\* with a timestamp rather than silently overwriting".
QuarantineKeepsAll ==
    [][\A d \in DOMAIN stash : d \in DOMAIN stash' /\ stash'[d] = stash[d]]_vars

\* "Not actually a duplicate (remove from the list)": the pair clicked, and no other.
MenuRemovesItsRow ==
    [][modal = "menu" /\ modal' = "none" /\ pairs' # pairs =>
           pairs' = SelectSeq(pairs, LAMBDA pair : pair # menu[2])]_vars

\* A box stands on each side "since a pair doesn't imply which side is the one
\* to remove": of each pair one file stays.
OneOfEachStays ==
    \A pair \in scanned : \E f \in ToSet(pair) : f \in disk
=============================================================================
