# Verification of EverythingClone and Memory Master

The repository holds two Windows programs. **EverythingClone** (`src/src/`, C++)
indexes every file of every NTFS volume and follows the volumes through their
change journals; its engine is also built as **EverythingCore.dll**. **Memory
Master** (`src/memory_master/`, Python and PyQt5) is a desktop tool that searches
through that DLL and deletes, quarantines and cleans up files.

This directory holds TLA+ modules that model them, TLC configurations that check
the models on small instances, and proofs, checked by TLAPS, that the main
invariants hold for every instance.

## 1. The system

| Part | Source | State it keeps | Operations | What makes it correct |
|---|---|---|---|---|
| Volume index | `ntfs_index.cpp` | `records_` (FRN to entry), `pathCache_`, `driveLetter_`, `index_<drive>.bin` | `BuildFromVolume`, `ApplyUsnRecord`, `SaveToFile`, `LoadFromFile`, `Search` | what is indexed is what is on the volume, or will be once the journal is read |
| USN watcher | `usn_watcher.cpp` | the journal id and offset of the next read | `CatchUp`, `WatchLoop` | no record skipped, read twice, or read from another journal |
| Index life cycle | `main.cpp`, `core_api.cpp` | threads, `g_running` / `watcherRunning` | `IndexingThread`, `WM_DESTROY`; `EC_BuildIndex`, `EC_SaveIndexes`, `EC_Destroy` | a snapshot is trusted only when it can be brought up to date |
| Query language | `query.cpp`, `text_match.cpp` | none | `ParseQuery`, `MatchesQuery`, `WildcardMatch` | a query selects the entries its syntax says |
| Core API | `core_api.cpp` | an `EC_State` per handle | `EC_*` | parallel vectors stay parallel; nothing is used after `EC_Destroy` |
| Fast search engine | `core/fast_search.py` | a handle and a lock | `build_index`, `search`, `save_indexes`, `close` | calls on one handle never overlap |
| Search page | `ui/pages/search_page.py` | workers, a generation counter, the displayed entries | index, search, trash, force delete, stop | the table shows the newest search; deleted files do not come back |
| Force delete | `core/force_delete.py`, `core/path_guard.py`, `core/processes.py` | an analysis shown to the user | `analyze`, `execute` | only what was confirmed is killed and deleted |
| Cleanup page | `ui/pages/cleanup_page.py`, `core/workers.py` | `_worker`, a progress row, `_image_folders` | two scans, analyse, confirm, delete, stop | only what was confirmed goes; what can be stopped is what runs |
| Duplicates, images, quarantine | `core/duplicates.py`, `core/image_scanner.py`, `core/quarantine.py`, `ui/dialogs/duplicate_image_manager.py` | groups of files, rows | find, move, delete | rows stay those of the pairs; only what was ticked goes; the quarantine loses nothing |
| Startup manager | `core/startup_programs.py`, `ui/pages/startup_manager_page.py` | the Run key, `_entries` | scan, add, remove | the table shows the key |
| Configuration | `core/config.py`, `ui/pages/settings_page.py` | `config.json`, `_config` | load, save, four settings | no start has half a configuration |
| Settings | `settings.cpp` | `settings.ini`, two sections | load, save | what was removed is not loaded again |
| Window | `main.cpp` | `g_results`, the list's selection, `g_excludeFolders` | search, sort, rename, delete, options | only what was confirmed goes |
| Main window | `ui/main_window.py`, `ui/tray.py`, `main.py` | the pages, one event loop | show, hide, quit, start | a quit in the middle harms no later start |

How they interact: `IndexingThread` (or `EC_BuildIndex`) starts one build thread
per volume and, when all have ended, one watcher thread per volume that has
records. Builds, watchers, searches and the saving thread share one `NtfsIndex`
under its mutex, but the MFT and the journal are read outside it. The Python side
calls the DLL from `QThread` workers under one lock and gets their results as
queued signals. The pages of Memory Master share one event loop and one user, and
whatever opens a dialog runs a nested loop, in which the results of every page are
handled; the window of EverythingClone.exe does the same with message boxes and
menus. The volume changes at any moment, under everything.

The hard behaviours are therefore: a scan, a replay and a tail of something that never
stands still; a hand-over between three readers of one journal; a snapshot taken while
records are being applied, and used in another run of the program; a journal that may be
trimmed or recreated; questions that stay open while what they were asked about is
replaced; files that are saved in parts; failures in the middle of each of these.
`PROJECT.json` lists them one by one under `hazards`.

## 2. Modules

| Module | Models | Extends |
|---|---|---|
| `NtfsVolume` | the volume and its journal, the outside world of the index | |
| `VolumeIndex` | one volume's index through several runs of the program | `NtfsVolume` |
| `EngineApi` | one handle of the DLL with several volumes | |
| `SearchPage` | Memory Master's search page, its worker threads and the two search backends | |
| `ForceDelete` | `analyze`, the confirmation and `execute`, among other processes | |
| `PathGuard` | `is_protected`, as a function over paths | |
| `QueryLanguage` | the query language, and what a search selects with it | |
| `DuplicateImages` | the scan for similar images, the dialog that reviews its pairs, the quarantine | |
| `CleanupPage` | Memory Master's cleanup page: scans, analyses, deletions, the stop button | |
| `StartupManager` | its startup page, with the Run key and the scans of it | |
| `AppConfig` | `config.json` and the settings page | |
| `MainWindow` | the window that composes the three pages, quits and new starts | `CleanupPage`; `StartupManager` and `AppConfig` as instances |
| `Settings` | `settings.ini` of EverythingClone.exe | |
| `CloneWindow` | its window: rows, renames, deletions, options, the indexing thread's messages | `Settings` |
| `ConfirmedDeletion` | the abstract specification of a window that deletes | |
| `MCVolumeIndex`, `MCEngineApi`, `MCSearchPage`, `MCForceDelete`, `MCPathGuard`, `MCQueryLanguage`, `MCDuplicateImages`, `MCMainWindow`, `MCCloneWindow` | instances for TLC | each its module |
| `VolumeIndexProofs`, `EngineApiProofs`, `SearchPageProofs`, `DuplicateImagesProofs`, `MainWindowProofs`, `CloneWindowProofs`, `QueryLanguageProofs` | theorems and their proofs | each its module |
| `DeletionProofs` | the same for `ForceDelete` and `PathGuard` | both |

### ConfirmedDeletion (abstract)

Four windows of the repository delete files. `ConfirmedDeletion` says what each
promises: there are `files`, those the window is asking about (`asked`), and those the
user has agreed to lose (`approved`). Files become approved only out of those asked, in
a step that asks nothing new, and only approved ones disappear. An approval does not come
back once it is used or given up. `SearchPage`, `DuplicateImages`, `CleanupPage` and
`CloneWindow` each have an instance of it with their state substituted, named
`Deletion`, and the property `OnlyConfirmedGone == Deletion!Spec`: it relates the
selection, the question, the job and the disk over as many steps as lie between them,
with results, timers, renames and other jobs among these. A renamed file is one that is
gone and another that has come, which only `CloneWindow` needs.

### NtfsVolume (external)

`disk` is what the MFT says of each file reference number: a `link` (parent and
name, carried by every journal record) and `meta` (size and dates, carried by
none). `hist` is every record ever written; the current journal is the part after
`base`, the readable part that after `low`, its id is `jid`. Each change alters
`disk` and journals what Windows journals for it: a rename writes two records and
only the second is in `kMftRefreshReasonMask`; a deletion is the last record of
its FRN, because the FRN's sequence number makes a later file a new one.
`TrimJournal` and `ResetJournal` are what a journal's maximal size and its
deletion do.

### VolumeIndex

`phase` says where the volume's build thread, and after it the watcher, is:
`off`, `loaded` (LoadFromFile succeeded), `catchup`, `rescan` (BuildFromVolume
is about to run), `enum` and `meta` (its passes), `joined` (the build thread
ended), `watch`, `unwatched`. `records` is `records_`; `cursor` and `curId` are
`CatchUp`'s `cursor` or `WatchLoop`'s `journal.nextUsn`, and `journal.journalId`;
`target` is `CatchUp`'s; `scan` and `todo` are `BuildFromVolume`'s `newRecords`
and what its current pass has not visited; `pend` is the MFT's answer held between
`ReadMftRecordInfo` and the lock in `ApplyUsnRecord`; `saving` and `tag` are the
locals of `SaveToFile`; `file` is the snapshot on disk, and survives the process.

Each action is one step between two points where another thread, or the volume,
can interfere: a device call, or a critical section of `mutex_`. So `EnumFile`
and `MetaFile` are one step per file, `ApplyReadMft` and `ApplyUpsert` are two
steps of one `ApplyUsnRecord`, and `SaveBegin` and `SaveWrite` two of `SaveToFile`.

`applied`, `lost`, `scanFrom`, `basis`, and `upto` and `lost` in the file, are
history variables: no guard depends on them. `applied` is how much of `hist`
`records` reflects; `lost` collects the FRNs of the records that a hand-over
(`WatchBegin`), a retry (`WatchRequery`) or a tag ahead of the contents
(`SaveWrite`) passes over.

`Faults` selects what may fail: `volume` (any handle or device call), `memory`
(`bad_alloc`: it ends EverythingClone.exe, since `IndexingThread`'s lambda does not
catch; in the DLL it ends one build thread or one watcher), `write` (`fwrite`
falling short, unnoticed), `crash`.

Abstractions: a buffer holds any number of records from the cursor, instead of
64 KB of them; `bad_alloc` leaves the entry it was storing as it was; once the
window is being destroyed the watcher may go on reading where `g_running` lets it
finish only the read it is in (a superset of the code's behaviour, until the
process ends); a file the program cannot parse is a `Torn` one; attributes
travel with the link.

### Properties of VolumeIndex

- `StaleIsAccounted`: if the live index is wrong about a file, then either a
  record that is not applied yet will correct it, or the file is in `lost`. For
  size and dates the record has to be one that makes the index read the MFT.
- `SnapshotIsAccounted`: the same of a snapshot on disk, from its tag on.
- `ReadsAreContiguous`: a read begins with the record after the last one applied.
- `CatchUpReachesItsTarget`: an accepted catch-up has applied everything up to the
  journal's end as it was when it began.
- `QuietLosesNothing`: if the volume rests while it is indexed and the program is
  closed when the watcher has caught up (`QuietSpec`), `lost` is always empty: these are
  the only two moments at which the code jumps over records. It needs a volume that can
  be read, and a host that does not go on after a build thread has failed
  (`QuietFaults`): with `volume`, or with `memory` in the DLL, TLC refutes it.
- `QuietPromises`: under `QuietSpec` that holds, and so do the four properties of the last
  item. It is the property `VI_quiet` checks.
- `IndexingEnds`, `Converges`: liveness, see below.
- `WatchResumes`, `SnapshotHoldsItsTag`, `SnapshotIsOfAnIndex`,
  `RefusedIsDiscarded` say what comments and the README promise; the code breaks
  each (section 4).

### EngineApi

The `EC_State` of one handle, its watcher threads, and the call being made: the
caller makes one at a time, which is `EngineSafe` of `SearchPage`. What goes on
inside one volume is `VolumeIndex`'s; here an entry of an index is only the drive
it came from, since two volumes number their files alike and a record of one is
taken for a record of the other if it reaches the wrong index. `beyond` is what the
storage of `driveLetters` keeps behind its last element: `EC_SaveIndexes` reads there
after a second build, and what it finds decides which file is written. `given` is a history
variable: which drive was i-th in some build. Excluded folders are not modelled, nor the
reading of rows.

- `MixingIsAccounted`: indexes, watchers and snapshots are matched to drives by position
  only, so a drive that goes and comes back may leave its files, or the watcher of the build
  before, to the next one. An index with files of another drive (`OwnRecordsOnly`), two
  indexes for one drive (`OneIndexPerDrive`) and a snapshot with another drive's files
  (`SnapshotsOfTheirDrive`) are found only where both drives are `Displaced`: each has been
  in one place with another drive, in one build or another. A drive that always had its
  place to itself has its own index, and its own file on the disk, through any number of
  builds and saves.
- `DestroyReturns`: `EC_Destroy` returns, with the watchers of any number of builds.
- `SearchIsExhaustive`: at most `maxResults` rows, and when fewer, everything that was
  indexed during the whole search, whatever watchers did.
- `ParallelVectors` is what a comment says; a second build breaks it (section 4).

That no drive's files are mixed with another's is `DrivesKeptApart`, which fails as soon as
a drive goes that is not the last of the alphabet (section 4).

### SearchPage

One module for both backends, because the page has one code path with a fork in it:
`engine` is `"none"` where the DLL could not be loaded and `os.walk` is used, `"open"`
or `"freed"` otherwise. `workers` is every `QThread` the page has started, `queue` the
`resultReady` signals posted and not yet handled; `slot` and `searchSlot` are
`_worker` and `_search_worker`, which remember only the newest thread. `shown` is
the results model, `index` the slow backend's `_index`, `known` the index of the
DLL, `disk` what exists. `dialogs` is the stack of modal dialogs: a handler that
opens one stops there, and the nested event loop handles the signals and the timer
that come meanwhile. What the user had selected stays in the dialog's record, as it
stays in the local variable of the handler.

An action is one handler of the UI thread up to its end or to the dialog it opens,
one path of a worker's loop, or one hold of `FastSearchEngine._lock`. A search of
the fast engine takes the lock twice, for the rows and for the count of the status
text (`EngineCall`, `EngineReturn`, `EngineCount`).

Abstractions: a query and a category are one `Query` whose matches are given
(`Hits`); the limit of 2000 rows, the preview, opening files and the restart as
administrator are left out; a force delete on the page erases one path in one step,
with whatever subset `ForceDelete` may leave; the warning that there is no drive is
left out (the page then stays as it was); `os.walk` visits the paths in any order.

- `SettledShowsQuery`: when no search for what the page says is still to come, the
  table shows rows of that text and category only, and with the slow index all.
- `OnlyConfirmedGone`: what disappears from the disk was selected and confirmed
  (refines `ConfirmedDeletion`).
- `EngineSafe`: one thread at a time is in the DLL, none after `EC_Destroy`, and
  nobody leaves the lock behind; although `stop()` knows two of the threads only.
- `BusyAlwaysEnds`: the buttons an operation disables are enabled again.
- `DeletedStaysHidden`, `RemovesOnlyDeleted`, `OneWorkerAtATime`,
  `ClosedOnlyWhenStopped` are what comments say; the code breaks each (section 4).

### ForceDelete

`running` is which process has which id, `opens` which files it keeps open, `denied`
the paths whose access rights keep this program out. `kills` is the list `analyze`
returns and the dialog shows, `entries` the list `execute` makes, `todo` what it has
not come to, `erased`, `failed` and `scheduled` its counters, as sets. Between any
two steps other processes start, exit, open, close and create. `NextEntry` admits
every order in which a folder comes after what was listed inside it; `os.walk`'s is
one of them. Ending a process is one step, although the code waits for it; a process
that outlives the wait is `KillProcess`'s second disjunct. Links below the target
are not modelled.

- `KillsAreAccounted`: a process that is killed was in the list shown, or was started
  after its id had been listed and got the id of a process of the list (`reissued`, a
  history variable). So whatever was running when the list was made, and is not in it,
  stays. Windows gives ids out again at any time, and the code kills by id, so that
  `KilledIsShown`, without the second case, fails (section 4).
- `ResultIsHonest`: a result without failure, cancellation or postponed file means that
  the whole tree is gone, whatever was created in it meanwhile; in every result each
  entry has one outcome, or explains why `cancelled` is set.
- `ExecuteEnds`: `execute` ends.
- `ErasedIsWiped` is what `_secure_shred_file` promises, and the retry breaks.

### PathGuard

A path is the sequence of its parts, `WithinOrEqual` the comparison of parts that
`PureWindowsPath` makes; upper and lower case and `..` are what `normpath`
has already removed. At most one folder is a link (`link`), which `RealPath` follows.
The state machine has one step: `target` and `link` range over all inputs.

- `ProtectedKept` (`SystemKept`, `ContentsRootsKept`, `OwnDirectoryKept`): a deletion
  that is allowed takes nothing protected with it. They speak of everything below the
  place the target really is (`Taken`), which the code never enumerates.
- `RestDeletable`: nothing else is refused.

### QueryLanguage

A text is a sequence of characters, where a keyword with its colon, a number, a unit and
a date word count as one. `ParseQuery` makes the groups of terms the code makes
(`TermOf` for one term; the longer spellings of a keyword are left out), `MatchesQuery`
evaluates them, and `Rows` is `NtfsIndex::Search` with the category and the excluded
folders. Paths are given, not resolved; a query is under the index's mutex from its
first entry to its last, so `Search` is one step. Values that fail to parse leave the
`Default` term, which still filters, as in the code. Sizes are computed modulo
`SizeLimit`. Times are ticks, a few to the day, by clocks on standard time, from which UTC
differs by a constant; in the `Summers` clocks are ahead of it by `Shift`. The `date` of an
entry is the day of its time by the clocks as they were then; `LocalDateToUtcFileTime`
converts every midnight with the clocks as they are at the moment of the search (`clock`),
as `LocalFileTimeToFileTime` does. A regular expression is a list of alternatives. Of
attributes there are four. `SlowRows` is the search without the DLL.

- `GlobMatches`: the backtracking of `WildcardMatch` against the definition of matching.
- `OperatorsAreBoolean` (`BarIsUnion`, `SpaceIsIntersection`, `BangIsComplement`): the
  answers to a query and to its parts are related as the syntax says, although the text
  is cut in one loop and the groups are built in another.
- `BoundsAreMeant`: a range is the two comparisons, wherever it is cut
  (`RangeIsBothBounds`), and days, weeks, months and years are the calendar's, across
  months and years (`PeriodsAreCalendar`), except for the entries whose day would be another
  by clocks set as they are now (`AcrossMidnight`): those of the hour before or after a
  midnight of the other season.
- `SlowFindsAll`: what the fast search finds for plain words, in any category, the slow one
  finds as well.
- `DateIsFound`, `PhraseIsText`, `RegexIsRest`, `SizesAreNamed`, `WordIsInNameOrPath` and
  `OffWhenClocksChange` are what the repository's README says; the code breaks each
  (section 4).

### DuplicateImages

The code knows a file by its path only, and a path is a string. The folder dialog writes a
root with slashes, `os.walk` joins what it finds below with backslashes, and the set in
`_list_images` compares strings: a file below two nested roots has two paths. So a path
(`Path`, its place in the order of `sorted()`) and the file it leads to (`FileOf`) are two
things here; `Walk` gives the paths of what is below each root, `Folder` is `os.path.dirname`
as a string. `respelled`, a history variable, has the files to which the chosen roots give
more than one path. Removing one path of a file takes the file away under the others too.

`phase` leads through the two passes of the scanning thread (`hash`, `features`), the
delivery of its result (`scanned`) and the dialog (`review`, `closed`). A pass is one
step: it chooses how far it came before the stop button was seen, and which files could be
read. `pairs` is first the thread's list, then the dialog's `_pairs`; `table` is the
widget, whose rows and boxes are separate from `_pairs` in the code as they are here.
`job`, `todo` and `failed` are the dialog's worker thread, with one step per file, among
which the user ticks boxes, selects by folder and opens the menu; `modal` is what stands
in the way of that. `menu` keeps the row the menu was opened on, which the handler uses
when the menu has been closed. `stash` is the quarantine, by name and suffix (`Plain` or a
time in seconds), and holds which file lies there, `Old` for one from before. A file that
is copied into the quarantine and cannot be removed is the outcome of `shutil.move` that
leaves it in both places.

Lists that the code sorts are chosen from the set of sorted lists (`InOrder`), of which
there is one. That no folder is called `Nobody` or `Several` is only about the values
`keeper` has besides folders.

Abstractions: the clock only goes on while it matters; the kinds of match, the preview
and the zoom are left out. `keeper` is a history variable as well.

- `PairsAreDistinct`: nested folders and a cancelled pass never pair a path with itself,
  nor two paths twice; and a file is paired with itself only if it is in `respelled`.
- `TableShowsPairs`: the two lists that are edited row by row, by the menu, by messages
  and by batches that end meanwhile, stay the same.
- `OnlyConfirmedGone`: a batch takes only what was seen to be ticked when it began
  (refines `ConfirmedDeletion`).
- `PriorityKept`: with boxes ticked for one priority folder only, each file that goes went
  by a path outside of it and was paired with one in it, which is still there, unless the
  roots gave that one more than one path; after any number of batches, failures and changes
  of the list.
- `OldQuarantineStays`: in the quarantine only a file of the current second is replaced.
- `NoFileMeetsItself`, `PriorityFolderStays`, `QuarantineKeepsAll`, `MenuRemovesItsRow`,
  `OneOfEachStays` are what comments and the menu say; the code breaks each (section 4).

### CleanupPage, StartupManager, AppConfig, MainWindow

`CleanupPage` numbers the threads the page has started (`jobs`); `worker` is the newest,
which is all `_worker` remembers. A job's result is posted when the thread has ended and
handled in any order after that; `bar` and `stop` are the progress row, which every job
sets and every result resets. `dialogs` is the stack of modal dialogs of the whole
application. A deletion erases bottom-up, one entry per step, with whatever `ForceDelete`
may leave; what the review of images deletes is in `DuplicateImages`. A folder is chosen
in the step that uses it, without the dialog that chooses.

`StartupManager` has the values of the Run key as pairs of name and command. A scan reads
the key value by value, with changes of the key between two of them: `EnumValue` gives
some value it has not given yet as long as there are more values than it has read (which
index a value has is left open), and an error ends the list early, as its end does; `ok`
says which it was. The result is posted after waiting for `schtasks`; `handled` is the
scan that filled the table last. Removing goes by name, fails value by value, and tells of
the failure before it scans again, so that the message is a state in which the table is
not up to date; `TableIsRunKey` excludes it by name (`NoMessage`).

`AppConfig`'s `file` is `config.json` as far as it was written: `SaveConfig` leaves it as it
was, whole, or cut after any field. Opacity is in percent; `Percent` is what `int(x * 100)`
makes of it. `chosen` is a history variable.

`MainWindow` composes the three: one user, whose clicks reach the pages while no dialog is
open; threads and results of all pages at any time, in nested loops as well; `Quit` at any
time while threads run and dialogs are open, which is also what a crash does; `Main` starts
the program with what the disk holds. The search page keeps its own module: it shares
nothing with these but the loop, and `stop()` is called for it only.

- `StopHasATarget`: whatever jobs overlap, a stop button that can be pressed stops the
  newest one, whose result is still to come.
- `TableIsRunKey`: when the newest scan was handled last and read the key to its end, the
  table shows the values in the key and no other, although values come and go while scans
  read and wait.
- `ConfigIsWhole`: wherever a save is cut, the program, now or started again, has a
  configuration the user once had as a whole.
- `OnlyConfirmedGone`: the page deletes what a question was about that was answered.
- `OneAtATime`, `RefreshedTableIsRunKey`, `ConfigSurvives`, `SliderShowsOpacity`,
  `WorkersStopBeforeExit` are what comments and the page say; the code breaks each
  (section 4).

### Settings, CloneWindow

`Settings` writes the ini file key by key, as `WritePrivateProfileString` does; `writes` is
what a save has still to write, and the process may end before each of them. A write is
assumed to succeed. Seven keys make the font and its colours (`DisplayKeys`).

`CloneWindow` is the UI thread of `main.cpp`: `results` are the rows, in the order the list
shows them; the virtual list keeps selection and rename box by row number (`selected`,
`edit`), which the code reads when it needs a path. `boxes` are menus, questions and
messages with the paths read before they opened; the end of indexing, the rename box that
loses the focus, the options window and the tray's exit come through them. `job` is a
deletion agreed to; `SHFileOperation` takes what it can. `indexing` is what
`IndexingThread` does: while it appends to `g_volumes` a search reads the vector without a
lock, and may find anything.

Abstractions: what several volumes, `kMaxResults` and the drives contribute is in
`EngineApi` and `QueryLanguage`; one column is sorted by; renaming a folder with something
in it is left out; the shell's own menu commands, opening, copying and dragging are left
out, and the recycle bin is not told from deletion. When the process ends in the middle
of a save of settings, `writes` is dropped.

- `OnlyConfirmedGone`: rows are replaced, renamed and sorted under a question, yet what
  disappears is what it was about.
- `RemovedFolderStaysOut`: wherever a save is cut, no start hides a folder that the user
  had stopped hiding; a save that was not cut is loaded as it was.
- `LoadedStyleIsWhole`, `HiddenIsNotShown`, `NothingSearchedBefore`, `DeletedRowsGone` are
  what comments and the options window say; the code breaks each (section 4).

## 3. Runs

| Run | Instance | Shows |
|---|---|---|
| `VI_exe` | exe, 1 file, 2 links, 2 metas, 3 records, 1 reset, 2 runs, all faults | type and safety invariants, both action properties |
| `VI_quiet` | exe, 2 files, 3 records, resting volume, crashes, failed allocations, short writes | nothing is lost on a resting volume, and what is promised of it is kept |
| `VI_live` | DLL, 1 file, 2 records, `memory`, fairness | liveness |
| `VI_gap` | DLL, 1 file, 2 records | `WatchResumes` is violated |
| `EA_handle` | drives C and D, each of which may go, 2 moves, 2 builds, `Memory`, fairness | the handle's safety and liveness |
| `SP_page` | 5 threads or, with the DLL, 4; a folder and a file in it, a broad and a narrow query, fairness | table, confirmation, engine, liveness |
| `FD_safe` | 2 folders, 2 files, 2 processes (one critical), 2 ids, which are reused, 4 events of others, fairness | kills, results, counters, liveness |
| `PG_guard` | 7 names, 3 parts below the drive, 5 links | every path, allowed or refused |
| `QL_search` | 12 entries, 21 277 questions of up to 5 characters, 5 days, one of them in summer | the syntax, against reference definitions |
| `DI_review` | 3 roots nested in each other; 2 alike images of one name, one of which has 2 paths; 2 seconds | scan, table, batches, priority, quarantine |
| `MM_pages` | a folder and a file in it; 3 jobs, 2 scans, 3 clicks, new starts included; 2 names, one with 2 commands, 1 task; 2 themes, 1 opacity | the three pages, the composition, the refinement |
| `CW_window` | a folder, a file in it and another name; 2 queries, 2 folders to hide, 4 acts of the user | the window's deletions as a refinement, settings.ini through exits |

Bounds: `MaxHist` records, `MaxResets` journals, `MaxSessions` runs. One file is
enough for everything about one entry's history (the index never relates two
entries when it applies a record); three records allow a rename (two) and a write
around it; a second run is needed to use a snapshot, a reset to refuse it. Two
files let a record of one stand between two of the other. Deadlock is not checked:
a program that has been closed for the last time may stop. `VI_live` has no
symmetry. `EngineApi` needs a second build to reuse an index, and two moves for a drive to
go and come back, which leaves its letter behind `driveLetters`, or for one drive to take the
place of another, which mixes them up.

`SearchPage` stops starting threads at `MaxSlow` or `MaxFast`, those it will have to start
by itself included, so that the bound never blocks a handler. Five allow an indexing, its
search, two more searches and a deletion; two searches are needed for a result to be
overtaken, a third thread for one to be forgotten by its slot. `ForceDelete` needs two
processes for one to get the other's id, four events for a process to open a file, to end,
and for another to get its id and end again, and a folder in a folder for the order of
removal. In `PathGuard` three parts are one more than the general depth limit and as many
as the limit of user profiles, and links lead into each kind of root. `QueryLanguage`
needs five characters for a quoted bar between words, four to make a star take too little;
its index has entries on the bounds of sizes and on both sides of each period's bounds, in
winter and in summer, and within the shift of midnight; the five days are the ends of a
year, a leap day, a day in the middle of a week and one after the clocks have been put
forward.

`DuplicateImages` needs files of one name to compete for a name in the quarantine, two
pairs with a path in common for a row to move under the menu, a file with two paths to be
paired with itself, and a second of time between batches: three paths of two files give
all that. The number of batches is not bounded.

`MainWindow` bounds what the user does (`MaxClicks`) and the threads started. Three jobs
are an analysis, a deletion and a job that overlaps them; with three clicks a path is
dropped, another job takes the slot and the question is answered. Two scans overtake each
other, and two names let one go while the other is read; a third scan exceeds five
minutes. The settings page has two themes and the flag for its choices: other opacities
and a quarantine folder only multiply the states. In `CloneWindow` four acts are enough to
select, to open a rename box, to ask and to change the options under the question;
removing a folder from a list of two shows what is left of the longer section. Deadlock is
not checked in either: the user may do nothing more.

Fairness: weak fairness of the build thread's, the watcher's and the applying
steps: they are threads of a running process and none of their device calls
blocks for longer than `Timeout` (1 s for the watcher, 0 for catch-up); of
`SaveWrite`, which waits only for a mutex nobody keeps; of `Exit`, which follows
the save. No fairness is assumed of the user or of the volume.
`SP_page` assumes weak fairness of each worker thread and of the event loop, which
runs nested ones as well; nothing of the user, who may leave a dialog open for ever.
`FD_safe` assumes it of `execute`, whose waits (for a killed process, for `takeown`
and `icacls`) all have a time limit; `EA_handle` of the end of a watcher once
`watcherRunning` is false, which it looks at every second, and of `EC_Destroy`.

## 4. Where code and comments disagree

The run `VI_gap` shows one, listed under `findings`. These are stated in the modules as
well, and TLC refutes them when they replace the properties of a run (with a prime in it
as a PROPERTY, otherwise as an INVARIANT):

| Property | In place of those of | What the trace shows |
|---|---|---|
| `SnapshotHoldsItsTag` | `VI_gap` (as a PROPERTY) | a snapshot tagged with a position ahead of what is applied |
| `SnapshotIsOfAnIndex` | `VI_gap` with `Host = "exe"` | closing the window during the first scan writes a whole snapshot of nothing |
| `RefusedIsDiscarded` | `VI_gap` with 1 reset, 2 runs, `volume` | catch-up refuses a snapshot, the scan fails, the snapshot stays the live index |
| `DeletedStaysHidden` | `SP_page` | a search started before a deletion ends renders the deleted rows again: `_search_generation` is not advanced (search_page.py:1005, against the docstring at 989-993) |
| `RemovesOnlyDeleted` | `SP_page` | a folder of which one file was erased leaves the table with everything in it (search_page.py:953, against "successfully-deleted paths" at 984) |
| `OneWorkerAtATime` | `SP_page` | a search in flight fills the table during an indexing, and a deletion takes the slot |
| `ClosedOnlyWhenStopped` | `SP_page` | `stop()` saves and closes the engine while a search the slot has forgotten runs |
| `ErasedIsWiped` | `FD_safe` | a file that could not be overwritten is removed by the retry and counts as deleted (force_delete.py:232, against "3-pass overwrite before deletion" at 150) |
| `KilledIsShown` | `FD_safe` | the process listed has ended, and another that has got its id is killed (force_delete.py:178, against lines 10-16: what is shown and what is done cannot "drift apart") |
| `OwnDirectoryKept` | `PG_guard` with `AppDir <- MCSharedAppDir` | installed under `C:\ProgramData` the program may delete its own directory |
| `DrivesKeptApart` | `EA_handle` | D is indexed, then C comes: the next build reuses the first index for C, which has C's letter while D's records are in it and D's watcher is still at it; a failure leaves it so (core_api.cpp:137) |
| `ParallelVectors` | `EA_handle` with `MaxMoves = 0`, `Memory = FALSE` | a second build adds indexes and `driveLetters` stays as long as it was (core_api.cpp:106, against "parallel to volumes" at 62) |
| `PhraseIsText` | `QL_search` | a quoted bar is an operator all the same |
| `RegexIsRest` | `QL_search` | spaces of a pattern collapse; `a\|b` is looked for as `a \| b` |
| `SizesAreNamed` | `QL_search` | a file of 0 bytes, or of exactly 10 KB, has none of the seven sizes |
| `WordIsInNameOrPath` | `QL_search` | a word in the path only is not found, although the slow search finds it |
| `ContentsRootsKept` | `PG_guard` with `ProgramData <- MCMovedProgramData` | the folder above a deeper `%ProgramData%` may be deleted, and it with it |
| `NoFileMeetsItself` | `DI_review` | below the roots `D:/p` and `D:/p/s` one image has the paths `D:/p\s\x` and `D:/p/s\x`, and is paired with itself (image_scanner.py:39, against "can't make a file appear more than once" at 34-37) |
| `PriorityFolderStays` | `DI_review` | with `D:/p/s` as the priority folder, the other path of such a pair is ticked, and the image goes (duplicate_image_manager.py:227, against "whichever side is NOT in the priority folder" at 229) |
| `MenuRemovesItsRow` | `DI_review` | a batch of deletions ends while the menu is open, and the menu takes another row away |
| `OneOfEachStays` | `DI_review` | both sides of a pair may be ticked, by hand or through two pairs that share a file |
| `QuarantineKeepsAll` | `DI_review` | of images of one name moved within a second, while the name is taken, the later replaces the earlier (quarantine.py:47, against "rather than silently overwriting" at 44-45) |
| `DateIsFound` | `QL_search` | `dm:2024-01-01` is cut at its first dash and finds nothing (query.cpp:286, against the repository's README.md:71) |
| `OffWhenClocksChange` | `QL_search` | a week after the clocks were put forward, `dm:lastmonth` finds an entry of the last hour of February, a month before they were (query.cpp:24, against "right around a DST transition" at 28-31 and README.md:78) |
| `OneAtATime` | `MM_pages` | two jobs run; the older cannot be stopped any more (cleanup_page.py:126, "one at a time") |
| `RefreshedTableIsRunKey` | `MM_pages` | an older scan ends last and shows a value that was removed (startup_manager_page.py:132) |
| `ConfigSurvives` | `MM_pages` | a save that failed or was cut short is not told, and the next start has the defaults or an older choice |
| `SliderShowsOpacity` | `MM_pages` with `Opacity = {57, 100}` | 0.57 * 100 is below 57: after a start the slider is at 56 |
| `WorkersStopBeforeExit` | `MM_pages` | the tray's exit ends the process while threads of these pages run (main_window.py:213-218) |
| `LoadedStyleIsWhole` | `CW_window` with two styles | a save cut short mixes two fonts (settings.cpp:85-98) |
| `HiddenIsNotShown` | `CW_window` | a folder just hidden stays in the rows until the next search |
| `NothingSearchedBefore` | `CW_window` | the menu's toggles search while `g_volumes` grows (main.cpp:361) |
| `DeletedRowsGone` | `CW_window` | the search after a deletion finds the rows again: the watcher has not heard yet (main.cpp:517) |

None of them makes a passing property vacuous: `StaleIsAccounted` counts what is jumped
over as lost, and `EngineSafe` holds because of the lock, not of the order of `stop()`.
`MixingIsAccounted`, `KillsAreAccounted`, `PairsAreDistinct`, `PriorityKept` and
`PeriodsAreCalendar` say exactly how far the failures in this table reach: the mutants in
`PROJECT.json` are bugs that would carry them further.

Two more were met while reading and are in no module: the quarantine folder the settings
page saves is used by nobody (duplicate_image_manager.py:95 moves to the default one), and
the accelerators of app.rc:6-8 act while a name is being edited (main.cpp:1674-1677), so
that Delete in the rename box asks to delete the file.

## 5. Proofs

Every safety property and every action property of the passing runs is proved for every
value of the constants, and so are the four refinements of `ConfirmedDeletion`. Each proof module takes the assumption of its component's module
(`VolumeAssumption`, `IndexAssumption`, `EngineApiAssumption` and so on: sets are finite
where the code enumerates them, special values differ from ordinary ones, bounds are
numbers); where a theorem needs more, that is its hypothesis and named below. The
invariants were checked by TLC on the instances of section 3 before they were proved.

| Module | Theorems | Beyond the assumption |
|---|---|---|
| `VolumeIndexProofs` | `TypeCorrect`, `IndexAccounted`, `SnapshotAccounted`, `ReadsContiguous`, `CatchUpComplete`, `QuietNeverLoses`, `QuietKeepsPromises` | the last two: `QuietFaults` |
| `EngineApiProofs` | `HandleTyped`, `SearchAlwaysExhaustive`, `MixingAlwaysAccounted` | |
| `SearchPageProofs` | `PageTyped`, `EngineAlwaysSafe`, `SettledAlwaysShowsQuery`, `PageImplementsDeletion` | |
| `DeletionProofs` | `KillsAlwaysAccounted`, `ResultAlwaysHonest`; `SystemAlwaysKept`, `ProtectedAlwaysKept`, `RestAlwaysDeletable` | `ProtectedAlwaysKept`: `UsualPlaces` |
| `DuplicateImagesProofs` | `ReviewTyped`, `PairsAlwaysDistinct`, `TableAlwaysShowsPairs`, `PriorityAlwaysKept`, `OldQuarantineAlwaysStays`, `DialogImplementsDeletion` | |
| `MainWindowProofs` | `PagesTyped`, `StopWorks`, `ConfigurationWhole`, `TableFollowsRunKey`, `CleanupImplementsDeletion` | |
| `CloneWindowProofs` | `RemovedFolderAlwaysStaysOut`, `WindowImplementsDeletion` | |
| `QueryLanguageProofs` | `PatternsAreGlobs`, `QueriesAreBoolean`, `BoundsAreKept`, `SlowSearchFindsAll` | |

### The index

`StaleIsAccounted` is not inductive: whether applying a record leaves an entry
right depends on the volume telling the truth, on where the buffer lies and on an
MFT answer read earlier. `IInv` adds `HistSettled` (the last record of a file is
true), `GoneForGood` (a deleted FRN does not return), `Positions` (the offsets
held by reader, tag and file point where they should as long as the journal is the
same), `Buffering`, `PendCovers` (an MFT answer that has become stale will be read
again) and `ScanCovers` (the two passes of a scan, file by file). The proof has one
lemma per group of actions (`LoadCarries`, `CatchUpCarries`, `ApplyCarries`,
`BuildCarries`, `WatchCarries`, `FailureCarries`, `SaveCarries`), and two about the
volume: `VolumeReports`, that whatever changes is journalled after everything
else, and `CoversStep`, that therefore a map that was covered stays covered.

For the resting volume `QuietInv` says what the hand-overs rely on: when a build thread
has ended everything journalled is applied, a watcher can always read on from where it is,
so that it never asks for the journal's end again, and a snapshot's tag is never ahead of
its contents. It uses `Positions` of `IInv`, which holds because `QuietSpec` only restricts
`Spec`. `QuietBasis` adds that only an index brought up to date or built to the end is
watched and saved. From these three follow both theorems; the second says that what
`VI_gap` and the table of section 4 refute on a busy volume is kept on a resting one: what
the code needs for its promises is that nothing happens at the two hand-overs.

### The handle of the DLL

`DetectNtfsFixedDrives` is a choice among lists. It says something only once it is known
that a set of numbers has a sorted list and only one, which is proved by taking the
smallest counterexample; no induction theorem can be used. `GivenInv` is what follows for
positions: before a drive in its place smaller ones have had theirs. `PlacesInv` says that
the build's locals and the storage of `driveLetters`, its cut-off end included, hold only
what their positions were given, and `VolumesInv` that indexes and watchers do. Two drives
that meet in an index, or in a file, have met in a position, which is what `Displaced`
says; and a drive that is in two indexes has had a smaller one in the earlier of the two
places. `SearchInv` follows one `EC_Search` over the volumes: what was indexed all the
time and lies in a volume that was passed has been found, unless the cap was reached.

### The search page

`LockInv` is all `EngineSafe` needs: who calls the engine holds the lock, and a lock that
is held is held by a caller of an open engine. `SearchInv` is about workers, not about the
table: each search has found only what its own query matches, and the newest has the query
the page shows, unless the timer will start another, and has, over the slow index, what is
still in it. For the refinement each worker that deletes still has at most what was
approved; the lemmas on the shape of one worker step (`WorkerShape` and those before it)
are shared by all three.

### Force delete

`KillsAreAccounted` needs `ListIsCurrent`: an id listed belongs to the process shown or to
nobody, or has been given out again since it was listed. No order of starts, exits, the
answer and the kills needs to be excluded.
`ResultIsHonest` needs `TreeKept`, that what exists is a tree whatever others create, so that
when the root is gone everything is; and `EachHasOneOutcome`, that each entry of the list is
erased, failed, postponed, to come or in hand, and only one of these.

### Path guard

There is one step, so the work is in the operators: prefixes of paths are transitive and
two prefixes of one path are comparable. `SystemAlwaysKept` needs nothing of the
environment. `ProtectedAlwaysKept` needs `UsualPlaces`: `%ProgramData%` has two parts,
the installer's folder is under the system's, and the program is in neither. These hold in
`PG_guard`, and the rows `OwnDirectoryKept` and `ContentsRootsKept` of section 4 show that it
fails without them.

### The review of images

`PairsInv` says that the two paths of a pair are in order, from which it follows that no
pair is there twice the other way round; the first pass gives such a list because the
paths it compares are sorted, and the second adds only what is not there. `SpellInv` says
that what the scan pairs is below the chosen roots, so that two different paths of one
file make it a `respelled` one. `RowsInv` keeps table and `_pairs` in step, row by row,
and says that a question is put only while no batch runs. All steps that take rows out, by
the menu from one position or by a batch from many, are one kind of step (`RowsOut`: an
injection of the rows that stay). `KeeperInv` says that under one priority folder only
boxes of paths outside of it are ticked, and that every file a batch has still to take
(`Due`) and every file gone went by such a path, for one in the folder (`GoesFor`). That
makes `PriorityKept` inductive: if the file it went for is gone as well, it went by a path
outside of the folder and has one in it, so that it is `respelled`.

### The main window

The inductive invariant `Inv` is `TypeOK` and `StopHasATarget` with three more parts.
`JobsInOrder` says that a number not used yet has nothing to delete, so that a job just
started adds to what is approved only what was asked. `ConfigKept` is `ConfigIsWhole` with
the defaults among the configurations the user had, because a file cut short gives the
defaults. `ScansAgree` is about the newest scan and not about the table: what it has read
so far is in the key, since whatever changes the key starts another scan or has its
message open first; when it has come to the end, it has read as many values as there are,
and so all of them (the key is a finite set); and if it was the last to be handled, the
table is its result. For the refinement each action is mapped to one step of
`ConfirmedDeletion` or a stutter: `Confirmed` approves what the innermost question asked,
`ExecuteEntry` and `ExecuteEnd` remove or give up, results and closed dialogs change what
is asked, `Main` gives up everything, and the rest stutters.

### The window of EverythingClone.exe

`SaveInv` says that `settings.ini` is what the first writes of the save in progress have
made of it, wherever it was cut: no count without the folders it counts on, no folder that
is not in the list. `WindowInv` says that a question about files is the first box and that no
deletion runs while it is put, so that an answer approves what was asked and nothing is
approved already.

### The query language

There is one step, which answers a question, and `Answered` is the invariant: what was found
are the rows of the text, the category and the day. The rest is about the operators, for
queries and indexes of any size. What the code does in loops the model says with recursive
functions, over `0 .. n` or over the positions of a pattern. The library's induction
theorems cannot be used, so `LeastOf` takes the least counterexample, and `Induction` and
`Iteration` derive from it, with a set in place of the operator, that a recursive function
is what its recursion says. With it each loop (`ReadingDef`, `TokenizeDef`, `GroupingDef`,
`SortingDef`) is unfolded one step at a time.

- `PatternsAreGlobs`. The recursion of `WildcardMatch` is not over numbers: it goes back to
  the last star. `Distance` (how much the star may still take, the rest of the text and the
  rest of the pattern, weighted) falls with every step (`Nearer`), so that the recursion
  has one solution (`MatchingDef`). That solution is matching as `Glob` defines it, because
  of `Goal`, which every step keeps: a match exists if and only if what follows the last
  star matches from where that star ends now, or further on. A later star makes it needless
  to come back to an earlier one (`FurtherOn`, `Behind`, `SeenStarred`).
- `QueriesAreBoolean`. If a text is cut outside quotes at a bar or a space, its tokens are
  those of the two sides (`TokenizeCut`); from this and from what the grouping loop
  makes after a bar (`GroupingSuffix`, `GroupsCut`) the groups follow, from these the rows.
  `TokenizeCut` is where a quote that was not closed could spoil it: the number of quotes
  says whether the loop is inside (`QuotedIsOdd`).
- `BoundsAreKept`. A range in which both sides parse has the rows of both comparisons,
  each of which is one term with one value (`ValueRows`). For the periods the days of
  months and years add up without gaps (`MonthsGrow`, `BetweenMonths`), so the bounds
  `ResolveDateConstant` computes are midnights of the first day and of the day after the last
  (`DayBegins`), by the clocks of the search. A time that these put on the same day as the
  clocks of its own day did is on one side of both (`TimeInDays`); the rest is
  `AcrossMidnight`.
- `SlowSearchFindsAll`. The rows of several plain words are rows of each of them (`SpanRows`),
  and a row of one has the word in its name, so that it occurs in the name and path that
  the slow search looks through (`WordInBoth`).

`QueryAssumption` is used for more than types: no number is written like an operator or a
date word; no name holds a star, which Windows forbids; an entry has a date exactly when
it has a time, and it is the day of that time by the clocks then; clocks are shifted by
less than a day; today lies in 1602 .. 30825, so that neither the last nor the next year
leaves the calendar of `FILETIME`.

### What stays with TLC

- Liveness (`IndexingEnds`, `Converges`, `BusyAlwaysEnds`, `ExecuteEnds`, `DestroyReturns`):
  TLAPS does not reason about fairness and ENABLED.
- What the code breaks (section 4): a trace of TLC's says all there is to say.
- The bound of `ProtectedKept` to the usual places is where the code stops being right, not
  where the proof does: TLC has a trace for each of the others.

## 6. Not modelled, and what could come next

1. The resolution of paths: `ResolvePathLocked`, its cache and what `ApplyUsnRecord`
   clears of it; the parsing of MFT records and `ApplyFixup`.
2. The groups of `duplicates.py`; the shell's own menu commands; the preview of the search
   page and the restart as administrator; the pages' `stop()`, which only the smoke check
   calls.
3. With the resolution of paths in the model, the search of `QueryLanguage` over the records
   of `VolumeIndex` instead of over given paths: what a query misses would then be what
   `StaleIsAccounted` counts.

Out of scope: drawing, formatting, icons, logging, elevation and single system
calls, which keep no state over which a protocol could go wrong.
