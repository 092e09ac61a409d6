----------------------------- MODULE SearchPage -----------------------------
(***************************************************************************)
(* Memory Master's search page: indexing, searching and deleting, each on  *)
(* a QThread of its own, with results that come back as queued signals.    *)
(* The UI thread runs one handler at a time, but a handler that opens a    *)
(* modal dialog runs a nested event loop: other signals and the debounce   *)
(* timer are then handled before it goes on.                               *)
(*                                                                         *)
(* `removed' is history: no guard uses it.                                 *)
(***************************************************************************)
EXTENDS Naturals, SequencesExt, FiniteSets

CONSTANTS
    Path,       \* what may be found on the disk
    Inside,     \* Inside[p]: p, and what is under it when p is a folder
    Query,      \* a search text together with a category
    Hits,       \* Hits[q]: the paths that q matches
    MaxSlow, MaxFast  \* bounds: QThreads started without and with the engine

ASSUME SearchPageAssumption ==
    /\ Inside \in [Path -> SUBSET Path]
    /\ \A p \in Path : p \in Inside[p] /\ \A r \in Inside[p] : Inside[r] \subseteq Inside[p]
    /\ Hits \in [Query -> SUBSET Path]
    /\ MaxSlow \in Nat /\ MaxFast \in Nat

VARIABLES
    disk,       \* the paths that exist
    known,      \* the fast engine's index
    engine,     \* _fast_engine: "none" when there is no DLL, the page then uses
                \* os.walk; "open"; "freed": EC_Destroy has run
    lock,       \* FastSearchEngine._lock: the worker that holds it, or 0
    workers,    \* every QThread started so far
    queue,      \* its signals that the event loop has not handled yet
    slot,       \* _worker
    searchSlot, \* _search_worker
    generation, \* _search_generation
    index,      \* _index
    shown,      \* the rows of the results model
    query,      \* what the search box and the category filter say
    timer,      \* _search_timer is running
    enabled,    \* the widgets that take input
    dialogs,    \* modal dialogs and menus, the innermost last
    opened,     \* _auto_indexed
    quit,       \* stop(): "no", "waiting", "saving", "closing", "ended"
    removed     \* history: what has been taken out of the table as deleted

diskVars == <<disk, known>>
engineVars == <<engine, lock>>
slotVars == <<slot, searchSlot, generation>>
viewVars == <<index, shown, query, timer, enabled>>
vars == <<diskVars, engineVars, workers, queue, slotVars, viewVars, dialogs,
          opened, quit, removed>>

Kinds == {"index", "search", "trash", "batch", "analyze", "execute"}
Widgets == {"reindex", "table", "box"}

\* at: where run() is; "calling" is inside the DLL, "counting" is before the
\* second call of a search.  todo: what is still to do.  out: the result.
\* ok: nothing has failed so far.
Worker == [kind : Kinds, at : {"running", "calling", "counting", "finished"}, generation : Nat,
           query : Query, todo : SUBSET Path, out : SUBSET Path, ok : BOOLEAN]
Dialog == [kind : {"menu", "trash?", "batch?", "force?", "told"}, paths : SUBSET Path]

TypeOK ==
    /\ disk \in SUBSET Path /\ known \in SUBSET Path
    /\ engine \in {"none", "open", "freed"}
    /\ workers \in Seq(Worker)
    /\ lock \in 0 .. Len(workers)
    /\ queue \in Seq(1 .. Len(workers))
    /\ slot \in 0 .. Len(workers) /\ searchSlot \in 0 .. Len(workers)
    /\ generation \in Nat
    /\ index \in SUBSET Path /\ shown \in SUBSET Path
    /\ query \in Query
    /\ timer \in BOOLEAN
    /\ enabled \in SUBSET Widgets
    /\ dialogs \in Seq(Dialog)
    /\ opened \in BOOLEAN
    /\ quit \in {"no", "waiting", "saving", "closing", "ended"}
    /\ removed \in SUBSET Path

Init ==
    /\ disk = Path /\ known = {}
    /\ engine \in {"none", "open"} /\ lock = 0
    /\ workers = <<>> /\ queue = <<>>
    /\ slot = 0 /\ searchSlot = 0 /\ generation = 0
    /\ index = {} /\ shown = {}
    /\ query \in Query
    /\ timer = FALSE
    /\ enabled = {"reindex", "table"}
    /\ dialogs = <<>>
    /\ opened = FALSE
    /\ quit = "no"
    /\ removed = {}

\* The user's clicks and keys reach the page.
Listening == quit = "no" /\ dialogs = <<>>

SetBusy(busy) ==
    enabled' = IF busy THEN enabled \ {"reindex", "table"}
               ELSE enabled \cup {"reindex", "table"}

\* Bound: the workers that will be started without the user are counted in.
Room(n) ==
    LET owed == {i \in DOMAIN workers : workers[i].kind = "index"
                     /\ (workers[i].at # "finished" \/ \E k \in DOMAIN queue : queue[k] = i)}
    IN  Len(workers) + Cardinality(owed) + (IF timer THEN 1 ELSE 0) + n
            <= (IF engine = "none" THEN MaxSlow ELSE MaxFast)

Launch(kind, gen, q, todo, out) ==
    workers' = Append(workers,
        [kind |-> kind, at |-> "running", generation |-> gen, query |-> q,
         todo |-> todo, out |-> out, ok |-> TRUE])

\* Mutant of LaunchInSlot: the slot is set, the thread never started.
LaunchInSlotUnstarted(kind, todo) ==
    /\ UNCHANGED workers
    /\ slot' = Len(workers) + 1
    /\ UNCHANGED <<searchSlot, generation>>

\* The slot forgets the worker it held before, running or not.
LaunchInSlot(kind, todo) ==
    /\ Launch(kind, 0, query, todo, {})
    /\ slot' = Len(workers) + 1
    /\ UNCHANGED <<searchSlot, generation>>

-----------------------------------------------------------------------------
(* Indexing and searching, on the UI thread *)

StartIndexing ==
    /\ Room(2)
    /\ enabled' = enabled \ {"reindex", "box"}
    /\ shown' = {}
    /\ LaunchInSlot("index", IF engine = "none" THEN Path ELSE {})
    /\ UNCHANGED <<diskVars, engineVars, queue, index, query, timer, dialogs,
                   quit, removed>>

ShowEvent ==
    /\ Listening
    /\ ~opened
    /\ opened' = TRUE
    /\ StartIndexing

ClickReindex ==
    /\ Listening
    /\ opened
    /\ "reindex" \in enabled
    /\ StartIndexing
    /\ UNCHANGED opened

TypeText ==
    /\ Listening
    /\ "box" \in enabled
    /\ Room(1)
    /\ \E q \in Query \ {query} : query' = q
    /\ timer' = TRUE
    /\ UNCHANGED <<diskVars, engineVars, workers, queue, slotVars, index, shown,
                   enabled, dialogs, opened, quit, removed>>

\* The slow search runs over the _index of this moment, in `from'; the fast one
\* over the engine's index at the moment of its call.
ApplySearch(q, from) ==
    /\ generation' = generation + 1
    /\ Launch("search", generation + 1, q, {},
              IF engine = "none" THEN Hits[q] \cap from ELSE {})
    /\ searchSlot' = Len(workers) + 1
    /\ UNCHANGED slot

\* Nothing stops the timer when the box is disabled.
TimerFires ==
    /\ quit = "no"
    /\ timer
    /\ timer' = FALSE
    /\ ApplySearch(query, index)
    /\ UNCHANGED <<diskVars, engineVars, queue, index, shown, query, enabled,
                   dialogs, opened, quit, removed>>

SelectCategory ==
    /\ Listening
    /\ "box" \in enabled
    /\ Room(1)
    /\ \E q \in Query \ {query} : query' = q /\ ApplySearch(q, index)
    /\ UNCHANGED <<diskVars, engineVars, queue, index, shown, timer, enabled,
                   dialogs, opened, quit, removed>>

-----------------------------------------------------------------------------
(* Deleting, on the UI thread *)

Push(kind, paths) == Append(dialogs, [kind |-> kind, paths |-> paths])
Top == dialogs[Len(dialogs)]
Popped == SubSeq(dialogs, 1, Len(dialogs) - 1)

deleteRest == <<diskVars, engineVars, queue, index, shown, query, timer, opened,
                quit, removed>>

\* What is selected is read here, and held while menu and question are open.
DeleteKey ==
    /\ Listening
    /\ "table" \in enabled
    /\ \E sel \in SUBSET shown \ {{}} : dialogs' = Push("trash?", sel)
    /\ UNCHANGED <<deleteRest, workers, slotVars, enabled>>

ContextMenu ==
    /\ Listening
    /\ "table" \in enabled
    /\ \E sel \in SUBSET shown \ {{}} : dialogs' = Push("menu", sel)
    /\ UNCHANGED <<deleteRest, workers, slotVars, enabled>>

\* One entry is analysed first; several are asked about at once.
MenuForceDelete ==
    /\ quit = "no" /\ dialogs # <<>> /\ Top.kind = "menu"
    /\ IF Cardinality(Top.paths) = 1
       THEN /\ Room(1)
            /\ dialogs' = Popped
            /\ SetBusy(TRUE)
            /\ LaunchInSlot("analyze", Top.paths)
       ELSE /\ dialogs' = Append(Popped, [kind |-> "batch?", paths |-> Top.paths])
            /\ UNCHANGED <<workers, slotVars, enabled>>
    /\ UNCHANGED deleteRest

MenuTrash ==
    /\ quit = "no" /\ dialogs # <<>> /\ Top.kind = "menu"
    /\ dialogs' = Append(Popped, [kind |-> "trash?", paths |-> Top.paths])
    /\ UNCHANGED <<deleteRest, workers, slotVars, enabled>>

Questions == {"trash?", "batch?", "force?"}

Decline ==
    /\ quit = "no" /\ dialogs # <<>> /\ Top.kind \in Questions \cup {"menu"}
    /\ dialogs' = Popped
    /\ UNCHANGED <<deleteRest, workers, slotVars, enabled>>

Job(question) == CASE question = "trash?" -> "trash"
                   [] question = "batch?" -> "batch"
                   [] question = "force?" -> "execute"

\* Mutant of Confirm: what is deleted is read from the table once more.
ConfirmReread ==
    /\ quit = "no" /\ dialogs # <<>> /\ Top.kind \in Questions
    /\ Room(1)
    /\ dialogs' = Popped
    /\ SetBusy(TRUE)
    /\ LaunchInSlot(Job(Top.kind), shown)
    /\ UNCHANGED deleteRest

Confirm ==
    /\ quit = "no" /\ dialogs # <<>> /\ Top.kind \in Questions
    /\ Room(1)
    /\ dialogs' = Popped
    /\ SetBusy(TRUE)
    /\ LaunchInSlot(Job(Top.kind), Top.paths)
    /\ UNCHANGED deleteRest

\* _remove_deleted_paths
RemoveDeletedPaths(paths) ==
    LET gone == UNION {Inside[p] : p \in paths}
    IN  /\ shown' = shown \ gone
        /\ index' = IF engine = "none" THEN index \ gone ELSE index
        /\ removed' = removed \cup gone

\* The message is closed; the rows go only now.
CloseMessage ==
    /\ quit = "no" /\ dialogs # <<>> /\ Top.kind = "told"
    /\ dialogs' = Popped
    /\ RemoveDeletedPaths(Top.paths)
    /\ UNCHANGED <<diskVars, engineVars, workers, queue, slotVars, query, timer,
                   enabled, opened, quit>>

-----------------------------------------------------------------------------
(* The workers' signals, handled on the UI thread in the order of posting *)

Sender == workers[Head(queue)]

Handle(kind) ==
    /\ quit = "no"
    /\ queue # <<>>
    /\ Sender.kind = kind
    /\ queue' = Tail(queue)

\* _on_index_ready; _on_fast_index_ready, which stops at a count of 0.
IndexReady ==
    /\ Handle("index")
    /\ IF engine # "none" /\ ~Sender.ok
       THEN /\ enabled' = enabled \cup {"reindex"}
            /\ UNCHANGED <<workers, slotVars, index>>
       ELSE /\ enabled' = enabled \cup {"reindex", "box"}
            /\ index' = IF engine = "none" THEN Sender.out ELSE index
            /\ ApplySearch(query, index')
    /\ UNCHANGED <<diskVars, engineVars, shown, query, timer, dialogs, opened,
                   quit, removed>>

\* Mutant of SearchReady: every result is shown as it arrives.
SearchReadyAny ==
    /\ Handle("search")
    /\ shown' = Sender.out
    /\ UNCHANGED <<diskVars, engineVars, workers, slotVars, index, query, timer,
                   enabled, dialogs, opened, quit, removed>>

SearchReady ==
    /\ Handle("search")
    /\ shown' = IF Sender.generation = generation THEN Sender.out ELSE shown
    /\ UNCHANGED <<diskVars, engineVars, workers, slotVars, index, query, timer,
                   enabled, dialogs, opened, quit, removed>>

\* _on_trash_delete_done, _on_batch_force_delete_done: what has failed is told
\* first, in a dialog.
DeleteDone(kind) ==
    /\ Handle(kind)
    /\ SetBusy(FALSE)
    /\ IF ~Sender.ok
       THEN /\ dialogs' = Push("told", Sender.out)
            /\ UNCHANGED <<shown, index, removed>>
       ELSE /\ RemoveDeletedPaths(Sender.out)
            /\ UNCHANGED dialogs
    /\ UNCHANGED <<diskVars, engineVars, workers, slotVars, query, timer, opened,
                   quit>>

AnalyzeReady ==
    /\ Handle("analyze")
    /\ SetBusy(FALSE)
    /\ dialogs' = IF Sender.ok THEN Push("force?", Sender.out) ELSE Push("told", {})
    /\ UNCHANGED <<diskVars, engineVars, workers, slotVars, index, shown, query,
                   timer, opened, quit, removed>>

\* Mutant of ExecuteDone: the page stays busy.
ExecuteDoneBusy ==
    /\ Handle("execute")
    /\ dialogs' = Push("told", Sender.out)
    /\ UNCHANGED <<diskVars, engineVars, workers, slotVars, viewVars, opened,
                   quit, removed>>

\* The counts are told in any case; out is the path if anything was deleted.
ExecuteDone ==
    /\ Handle("execute")
    /\ SetBusy(FALSE)
    /\ dialogs' = Push("told", Sender.out)
    /\ UNCHANGED <<diskVars, engineVars, workers, slotVars, index, shown, query,
                   timer, opened, quit, removed>>

-----------------------------------------------------------------------------
(* The workers *)

Finish(i, out, ok) ==
    /\ workers' = [workers EXCEPT ![i].at = "finished", ![i].todo = {},
                                  ![i].out = out, ![i].ok = ok]
    /\ queue' = Append(queue, i)

pageVars == <<slotVars, viewVars, dialogs, opened, quit, removed>>

Running(i, kind) == workers[i].kind = kind /\ workers[i].at = "running"

\* stop() cancels the worker in the slot; it looks before each path.
Cancelled(i) == quit # "no" /\ i = slot

\* os.walk reaches every path at a moment of its own.
WalkVisit(i) ==
    /\ engine = "none" /\ Running(i, "index")
    /\ ~Cancelled(i)
    /\ \E p \in workers[i].todo :
           workers' = [workers EXCEPT ![i].todo = @ \ {p},
                                      ![i].out = @ \cup ({p} \cap disk)]
    /\ UNCHANGED <<diskVars, engineVars, queue, pageVars>>

WalkEnd(i) ==
    /\ engine = "none" /\ Running(i, "index")
    /\ workers[i].todo = {} \/ Cancelled(i)
    /\ Finish(i, workers[i].out, TRUE)
    /\ UNCHANGED <<diskVars, engineVars, pageVars>>

SlowSearch(i) ==
    /\ engine = "none" /\ Running(i, "search")
    /\ Finish(i, workers[i].out, TRUE)
    /\ UNCHANGED <<diskVars, engineVars, pageVars>>

\* Mutant of EngineCall: the lock is not taken.
EngineCallUnlocked(i) ==
    /\ engine # "none"
    /\ Running(i, "index") \/ Running(i, "search")
    /\ workers' = [workers EXCEPT ![i].at = "calling"]
    /\ UNCHANGED <<diskVars, engineVars, queue, pageVars>>

\* EC_BuildIndex and EC_Search; a handle that has been closed is passed as NULL,
\* which they answer with 0.
EngineCall(i) ==
    /\ engine # "none"
    /\ Running(i, "index") \/ Running(i, "search")
    /\ lock = 0
    /\ IF engine = "freed"
       THEN Finish(i, {}, FALSE) /\ UNCHANGED lock
       ELSE /\ lock' = i
            /\ workers' = [workers EXCEPT ![i].at = "calling"]
            /\ UNCHANGED queue
    /\ UNCHANGED <<diskVars, engine, pageVars>>

EngineReturn(i) ==
    /\ workers[i].at = "calling"
    /\ lock' = 0
    /\ IF workers[i].kind = "search"
       THEN /\ workers' = [workers EXCEPT ![i].at = "counting",
                               ![i].out = Hits[workers[i].query] \cap known]
            /\ UNCHANGED <<known, queue>>
       ELSE \E ok \in BOOLEAN : Finish(i, {}, ok) /\ known' = IF ok THEN disk ELSE known
    /\ UNCHANGED <<disk, engine, pageVars>>

\* EC_TotalCount, for the status text: it waits for the lock once more.
EngineCount(i) ==
    /\ workers[i].at = "counting"
    /\ lock = 0
    /\ Finish(i, workers[i].out, TRUE)
    /\ UNCHANGED <<diskVars, engineVars, pageVars>>

TrashNext(i) ==
    /\ Running(i, "trash")
    /\ ~Cancelled(i)
    /\ \E p \in workers[i].todo, ok \in BOOLEAN :
           /\ ok => p \in disk
           /\ disk' = IF ok THEN disk \ Inside[p] ELSE disk
           /\ workers' = [workers EXCEPT
                  ![i].todo = @ \ {p}, ![i].ok = @ /\ ok,
                  ![i].out = IF ok THEN @ \cup {p} ELSE @]
    /\ UNCHANGED <<known, engineVars, queue, pageVars>>

\* execute(p): what it may erase, bottom-up, of what is there.
Erasable(p) == {gone \in SUBSET (Inside[p] \cap disk) :
                    \A r \in gone : Inside[r] \cap disk \subseteq gone}

\* Nothing failed: all is gone, or p is a file that will go at the next reboot.
Erased(p, gone) == p \in gone \/ (gone = {} /\ p \in disk /\ Inside[p] = {p})

BatchNext(i) ==
    /\ Running(i, "batch")
    /\ ~Cancelled(i)
    /\ \E p \in workers[i].todo : \E gone \in Erasable(p), ok \in BOOLEAN :
           /\ p \in gone => ok
           /\ ok => Erased(p, gone)
           /\ disk' = disk \ gone
           /\ workers' = [workers EXCEPT
                  ![i].todo = @ \ {p}, ![i].ok = @ /\ ok,
                  ![i].out = IF ok THEN @ \cup {p} ELSE @]
    /\ UNCHANGED <<known, engineVars, queue, pageVars>>

ListEnd(i) ==
    /\ Running(i, "trash") \/ Running(i, "batch")
    /\ workers[i].todo = {} \/ Cancelled(i)
    /\ Finish(i, workers[i].out, workers[i].ok)
    /\ UNCHANGED <<diskVars, engineVars, pageVars>>

Analyze(i) ==
    /\ Running(i, "analyze")
    /\ \E ok \in BOOLEAN :
           /\ ok => workers[i].todo \subseteq disk
           /\ Finish(i, workers[i].todo, ok)
    /\ UNCHANGED <<diskVars, engineVars, pageVars>>

\* The page asks only whether deleted_count > 0.
Execute(i) ==
    /\ Running(i, "execute")
    /\ \E p \in workers[i].todo : \E gone \in Erasable(p) :
           /\ disk' = disk \ gone
           /\ Finish(i, IF gone # {} THEN {p} ELSE {}, TRUE)
    /\ UNCHANGED <<known, engineVars, pageVars>>

WorkerStep(i) ==
    \/ WalkVisit(i) \/ WalkEnd(i) \/ SlowSearch(i)
    \/ EngineCall(i) \/ EngineReturn(i) \/ EngineCount(i)
    \/ TrashNext(i) \/ BatchNext(i) \/ ListEnd(i)
    \/ Analyze(i) \/ Execute(i)

\* The engine's USN watcher hears of a deletion.
WatcherHears ==
    /\ engine = "open"
    /\ \E p \in known \ disk : known' = known \ {p}
    /\ UNCHANGED <<disk, engineVars, workers, queue, pageVars>>

-----------------------------------------------------------------------------
(* stop(), connected to aboutToQuit: the event loop no longer runs *)

stopRest == <<diskVars, workers, queue, slotVars, viewVars, dialogs, opened, removed>>

StopCancel ==
    /\ Listening
    /\ quit' = "waiting"
    /\ UNCHANGED <<stopRest, engineVars>>

Stopped == {i \in DOMAIN workers : workers[i].at = "finished"}
Awaited == {slot, searchSlot} \ {0}

StopWaited ==
    /\ quit = "waiting"
    /\ Awaited \subseteq Stopped
    /\ quit' = IF engine # "none" THEN "saving" ELSE "ended"
    /\ UNCHANGED <<stopRest, engineVars>>

\* wait(10000) returns False: the engine is left as it is.
StopTimeout ==
    /\ quit = "waiting"
    /\ ~ Awaited \subseteq Stopped
    /\ quit' = "ended"
    /\ UNCHANGED <<stopRest, engineVars>>

StopSave ==
    /\ quit = "saving"
    /\ lock = 0
    /\ quit' = "closing"
    /\ UNCHANGED <<stopRest, engineVars>>

StopClose ==
    /\ quit = "closing"
    /\ lock = 0
    /\ quit' = "ended"
    /\ engine' = "freed"
    /\ UNCHANGED <<stopRest, lock>>

-----------------------------------------------------------------------------
UserInput ==
    \/ ShowEvent \/ ClickReindex \/ TypeText \/ SelectCategory
    \/ DeleteKey \/ ContextMenu \/ MenuTrash \/ MenuForceDelete
    \/ Confirm \/ Decline \/ CloseMessage
    \/ StopCancel

EventLoop ==
    \/ IndexReady \/ SearchReady \/ AnalyzeReady \/ ExecuteDone
    \/ DeleteDone("trash") \/ DeleteDone("batch")

Stop == StopWaited \/ StopTimeout \/ StopSave \/ StopClose

Next ==
    \/ UserInput \/ TimerFires \/ EventLoop
    \/ \E i \in DOMAIN workers : WorkerStep(i)
    \/ WatcherHears \/ Stop

\* The threads run, and the event loop handles what is posted to it, whether a
\* dialog is open or not.  Nothing is assumed of the user.
Fairness ==
    /\ \A i \in (1 .. MaxSlow) \cup (1 .. MaxFast) : WF_vars(i \in DOMAIN workers /\ WorkerStep(i))
    /\ WF_vars(EventLoop)

Spec == Init /\ [][Next]_vars
FairSpec == Spec /\ Fairness

-----------------------------------------------------------------------------
(* Properties *)

Pending(kind) == {i \in DOMAIN workers : workers[i].kind = kind
                    /\ (workers[i].at # "finished" \/ \E k \in DOMAIN queue : queue[k] = i)}

\* No search for what the page says is still to come.
Settled == ~timer /\ \A i \in Pending("search") : workers[i].generation # generation

\* However searches overlap, and in whatever order they end, the table ends up
\* with the rows of the text and the category the page shows, and of no other;
\* over the slow index, with all of them.
SettledShowsQuery ==
    quit = "no" /\ "box" \in enabled /\ Settled =>
        /\ shown \subseteq Hits[query]
        /\ engine = "none" => Hits[query] \cap index \subseteq shown

\* Everything at and below the paths.
Below(paths) == UNION {Inside[p] : p \in paths}

\* Rows may be replaced while a menu, a question or an analysis is open, and
\* several jobs may be under way; what disappears from the disk is what the user
\* was asked about and confirmed, and each confirmation serves once.
Deletion == INSTANCE ConfirmedDeletion WITH
    File <- Path,
    files <- disk,
    asked <- Below(UNION {d.paths : d \in {e \in ToSet(dialogs) : e.kind \in Questions}}),
    approved <- Below(UNION {w.todo : w \in {v \in ToSet(workers) :
                                 v.kind \in {"trash", "batch", "execute"}}})

OnlyConfirmedGone == Deletion!Spec

Calling == {i \in DOMAIN workers : workers[i].at = "calling"}

\* No two threads are in the DLL with the same handle, none is after the handle
\* has been freed, although stop() knows only the newest two workers, and the
\* lock is not left behind.
EngineSafe ==
    /\ Cardinality(Calling) <= 1
    /\ Calling # {} => engine = "open"
    /\ lock # 0 => lock \in Calling

\* A page made busy by a deletion or an indexing can be used again.
BusyAlwaysEnds == []<>({"reindex", "table"} \subseteq enabled \/ quit # "no")

\* _remove_deleted_paths exists so that a deleted file is not shown again,
\* even briefly.
DeletedStaysHidden == removed \cap shown = {}

\* It removes "successfully-deleted paths".
RemovesOnlyDeleted == removed \cap disk = {}

\* _worker is used by "one at a time".
OneWorkerAtATime ==
    Cardinality({i \in DOMAIN workers : workers[i].kind # "search"
                                        /\ workers[i].at # "finished"}) <= 1

\* The engine is only closed "once every worker is confirmed stopped".
ClosedOnlyWhenStopped ==
    quit \in {"saving", "closing"} => Stopped = DOMAIN workers
=============================================================================
