---------------------------- MODULE VolumeIndex ----------------------------
(***************************************************************************)
(* The life of one NtfsIndex: snapshot load and journal catch-up, or an    *)
(* MFT scan; then the USN watcher; then the snapshot written at exit; over *)
(* several runs of the program, which may crash in any of them.            *)
(* Threads: the build thread of the volume (IndexingThread's or            *)
(* EC_BuildIndex's lambda), the watcher thread (WatchLoop), the thread     *)
(* that saves (WM_DESTROY or EC_SaveIndexes).  The volume changes at any   *)
(* moment.                                                                 *)
(*                                                                         *)
(* The code keeps no copy of what it has read: a buffer of journal records *)
(* is represented by its place in hist, the `buffered' records after       *)
(* hist[applied].  `applied', `lost', `scanFrom', `basis' and the fields   *)
(* upto and lost of the file are history: no guard uses them.              *)
(***************************************************************************)
EXTENDS NtfsVolume, FiniteSets

CONSTANTS
    Host,         \* "exe": EverythingClone.exe; "dll": EverythingCore.dll
    Faults,       \* what may go wrong, out of FaultKinds
    NotRead,      \* no MFT record has been read ahead of an upsert
    MaxSessions   \* bound: runs of the program

\* volume: a volume handle or a DeviceIoControl on it fails; memory: bad_alloc
\* in ApplyUsnRecord or BuildFromVolume; write: fwrite falls short; crash: the
\* process ends at once.
FaultKinds == {"volume", "memory", "write", "crash"}

ASSUME IndexAssumption ==
    /\ Host \in {"exe", "dll"}
    /\ Faults \in SUBSET FaultKinds
    /\ NotRead \notin Meta \cup {NoMeta}
    /\ MaxSessions \in Nat

VARIABLES
    session,  \* runs of the program so far
    phase,    \* where the build thread or the watcher is, see Phases
    records,  \* records_
    cursor,   \* the USN the next read of the journal starts from
    curId,    \* the journal id those reads name
    target,   \* CatchUp's fixed end
    buffered, \* records read into the buffer and not applied yet
    pend,     \* the MFT's answer for the record in hand, read before the lock
    scan,     \* BuildFromVolume's newRecords
    todo,     \* the FRNs its current pass has still to visit
    saving,   \* the saving thread: "no", "tagged", "done"
    tag,      \* the journal position SaveToFile has queried
    file,     \* index_<drive>.bin
    drive,    \* driveLetter_ has been set, so SaveToFile can open the volume
    applied,  \* history: hist up to here is reflected in records, or lost
    lost,     \* history: FRNs with a record the index jumped over
    scanFrom, \* history: Len(hist) when the MFT scan began
    basis     \* history: what records came from

threadVars == <<session, phase, cursor, curId, target, buffered, pend>>
scanVars == <<scan, todo, scanFrom>>
saveVars == <<saving, tag, file, drive>>
indexVars == <<records, applied, lost, basis>>
vars == <<volumeVars, threadVars, scanVars, saveVars, indexVars>>

Phases == {"off", "loaded", "catchup", "rescan", "enum", "meta", "joined",
           "watch", "unwatched"}
Building == {"loaded", "catchup", "rescan", "enum", "meta"}
Bases == {"none", "loaded", "caughtup", "refused", "built"}

Map == [Frn -> Entry \cup {Absent}]
Tag == [id : Nat, usn : Nat, upto : Nat]
Snapshot == [whole : BOOLEAN, id : Nat, usn : Nat, upto : Nat, recs : Map,
             lost : SUBSET Frn]

\* A file LoadFromFile refuses: missing, or ending before the last of the
\* `count' records its header announces.
Torn(recs) == [whole |-> FALSE, id |-> 0, usn |-> 0, upto |-> 0,
               recs |-> recs, lost |-> {}]

NoTag == [id |-> 0, usn |-> 0, upto |-> 0]

TypeOK ==
    /\ VolumeTypeOK
    /\ session \in Nat
    /\ phase \in Phases
    /\ records \in Map
    /\ cursor \in Nat /\ curId \in Nat /\ target \in Nat
    /\ buffered \in Nat
    /\ pend \in Meta \cup {NoMeta, NotRead}
    /\ scan \in Map
    /\ todo \in SUBSET Frn
    /\ saving \in {"no", "tagged", "done"}
    /\ tag \in Tag
    /\ file \in Snapshot
    /\ drive \in BOOLEAN
    /\ applied \in Nat
    /\ lost \in SUBSET Frn
    /\ scanFrom \in Nat
    /\ basis \in Bases

Init ==
    /\ VolumeInit
    /\ session = 0
    /\ phase = "off"
    /\ records = Nothing /\ applied = 0 /\ lost = Frn /\ basis = "none"
    /\ cursor = 0 /\ curId = 0 /\ target = 0 /\ buffered = 0 /\ pend = NotRead
    /\ scan = Nothing /\ todo = {} /\ scanFrom = 0
    /\ saving = "no" /\ tag = NoTag
    /\ file = Torn(Nothing) /\ drive = FALSE

-----------------------------------------------------------------------------
(* The process starts and ends. *)

\* The build thread calls LoadFromFile on a new, empty NtfsIndex.
LoadFromFile ==
    /\ phase = "off"
    /\ session < MaxSessions
    /\ session' = session + 1
    /\ IF file.whole
       THEN /\ phase' = "loaded"
            /\ records' = file.recs
            /\ applied' = file.upto /\ lost' = file.lost /\ basis' = "loaded"
            /\ cursor' = file.usn /\ curId' = file.id
            /\ drive' = TRUE
       ELSE /\ phase' = "rescan"
            /\ UNCHANGED <<indexVars, cursor, curId, drive>>
    /\ UNCHANGED <<volumeVars, target, buffered, pend, scanVars, saving, tag, file>>

\* bad_alloc in LoadFromFile under EC_BuildIndex: nothing is loaded or built.
LoadThrow ==
    /\ phase = "off"
    /\ session < MaxSessions
    /\ "memory" \in Faults /\ Host = "dll"
    /\ session' = session + 1
    /\ phase' = "joined"
    /\ UNCHANGED <<volumeVars, cursor, curId, target, buffered, pend, scanVars,
                   saveVars, indexVars>>

\* The locals of CatchUp or WatchLoop, and those of BuildFromVolume, go.
EndReading ==
    /\ cursor' = 0 /\ curId' = 0 /\ target' = 0
    /\ buffered' = 0 /\ pend' = NotRead

EndScan == scan' = Nothing /\ todo' = {} /\ scanFrom' = 0

\* What the process had in memory is gone; the file is left as `left'.
Terminate(left) ==
    /\ phase' = "off"
    /\ records' = Nothing /\ applied' = 0 /\ lost' = Frn /\ basis' = "none"
    /\ EndReading
    /\ EndScan
    /\ saving' = "no" /\ tag' = NoTag /\ drive' = FALSE
    /\ file' = left
    /\ UNCHANGED <<volumeVars, session>>

Exit ==
    /\ saving = "done"
    /\ Terminate(file)

\* Mutant of Written: the header's count is not compared with what follows it.
WrittenUncounted(kept) ==
    [whole |-> TRUE, id |-> tag.id, usn |-> tag.usn, upto |-> tag.upto,
     recs |-> [f \in Frn |-> IF f \in kept THEN records[f] ELSE Absent],
     lost |-> lost \cup {hist[i].frn : i \in applied + 1 .. tag.upto}]

\* Nothing but what already reached the file survives.
Written(kept) == Torn([f \in Frn |-> IF f \in kept THEN records[f] ELSE Absent])

Die ==
    IF saving = "tagged"
    THEN \E kept \in SUBSET {f \in Frn : records[f] # Absent} :
             Terminate(Written(kept))
    ELSE Terminate(file)

Crash ==
    /\ "crash" \in Faults
    /\ phase # "off"
    /\ Die

\* bad_alloc on the build thread.  EC_BuildIndex's lambda catches it, past the
\* fallback to a rebuild; IndexingThread's lambda lets it end the process.
BuildThrow ==
    /\ "memory" \in Faults
    /\ phase \in Building
    /\ IF Host = "exe" THEN Die
       ELSE /\ phase' = "joined"
            /\ EndReading
            /\ EndScan
            /\ drive' = TRUE
            /\ UNCHANGED <<volumeVars, session, saving, tag, file, indexVars>>

-----------------------------------------------------------------------------
(* UsnWatcher::CatchUp *)

CatchUpBegin ==
    /\ phase = "loaded"
    /\ curId = jid
    /\ target' = NextUsn
    /\ phase' = "catchup"
    /\ UNCHANGED <<volumeVars, session, cursor, curId, buffered, pend, scanVars,
                   saveVars, indexVars>>

Refuse ==
    /\ phase' = "rescan"
    /\ basis' = "refused"
    /\ EndReading
    /\ UNCHANGED <<volumeVars, session, scanVars, saveVars, records, applied,
                   lost>>

CatchUpRefuse ==
    /\ phase = "loaded"
    /\ curId # jid \/ "volume" \in Faults
    /\ Refuse

\* FSCTL_READ_USN_JOURNAL succeeds from the cursor.
Readable == curId = jid /\ base + cursor >= low

Idle == buffered = 0

\* Mutant of FillBuffer: the buffer's leading USN is not kept as the next start.
FillBufferAgain ==
    /\ Readable
    /\ \E n \in 1 .. NextUsn - cursor :
           /\ buffered' = n
           /\ cursor' = cursor
           /\ applied' = base + cursor

\* It returns the records after the cursor, as many as fit in 64 KB.
FillBuffer ==
    /\ Readable
    /\ \E n \in 1 .. NextUsn - cursor :
           /\ buffered' = n
           /\ cursor' = cursor + n
           /\ applied' = base + cursor

CatchUpRead ==
    /\ phase = "catchup"
    /\ Idle /\ cursor < target
    /\ FillBuffer
    /\ UNCHANGED <<volumeVars, session, phase, curId, target, pend, scanVars,
                   saveVars, records, lost, basis>>

\* Mutant of CatchUpFail: a read that fails is tried again.
CatchUpFailRetried ==
    /\ phase = "catchup"
    /\ Idle /\ cursor < target
    /\ "volume" \in Faults
    /\ Refuse

CatchUpFail ==
    /\ phase = "catchup"
    /\ Idle /\ cursor < target
    /\ ~Readable \/ "volume" \in Faults
    /\ Refuse

\* Mutant of CatchUpDone: one buffer is read, not all up to the target.
CatchUpDoneEarly ==
    /\ phase = "catchup"
    /\ Idle
    /\ phase' = "joined"
    /\ basis' = "caughtup"
    /\ EndReading
    /\ UNCHANGED <<volumeVars, session, scanVars, saveVars, records, applied,
                   lost>>

CatchUpDone ==
    /\ phase = "catchup"
    /\ Idle /\ cursor >= target
    /\ phase' = "joined"
    /\ basis' = "caughtup"
    /\ EndReading
    /\ UNCHANGED <<volumeVars, session, scanVars, saveVars, records, applied,
                   lost>>

-----------------------------------------------------------------------------
(* NtfsIndex::ApplyUsnRecord, called by CatchUp and by WatchLoop *)

InHand == hist[applied + 1]

Applied(map) ==
    /\ records' = map
    /\ applied' = applied + 1
    /\ buffered' = buffered - 1
    /\ pend' = NotRead
    /\ UNCHANGED <<volumeVars, session, phase, cursor, curId, target, scanVars,
                   saveVars, lost, basis>>

\* Mutant of ApplyDelete: the entry of a deleted file is kept.
ApplyDeleteIgnored ==
    /\ buffered > 0
    /\ InHand.gone
    /\ Applied(records)

ApplyDelete ==
    /\ buffered > 0
    /\ InHand.gone
    /\ Applied([records EXCEPT ![InHand.frn] = Absent])

\* ReadMftRecordInfo.  For a file that is gone FSCTL_GET_NTFS_FILE_RECORD
\* answers with the record of another file, which the code does not notice, or
\* with none; and any read may fail, which leaves size and dates unknown (0).
MftAnswers(f) ==
    IF disk[f] = Absent THEN Meta \cup {NoMeta}
    ELSE {disk[f].meta} \cup (IF "volume" \in Faults THEN {NoMeta} ELSE {})

\* Outside the lock.
ApplyReadMft ==
    /\ buffered > 0 /\ pend = NotRead
    /\ ~InHand.gone
    /\ pend' \in IF InHand.refresh THEN MftAnswers(InHand.frn) ELSE {NoMeta}
    /\ UNCHANGED <<volumeVars, session, phase, cursor, curId, target, buffered,
                   scanVars, saveVars, indexVars>>

\* Mutant of ApplyUpsert: the entry is stored before the MFT has been read.
ApplyUpsertUnread ==
    /\ buffered > 0 /\ ~InHand.gone
    /\ Applied([records EXCEPT ![InHand.frn] =
           [link |-> InHand.link, meta |-> pend]])

\* Under the lock; without a refresh the cached size and dates are kept.
ApplyUpsert ==
    /\ buffered > 0 /\ pend # NotRead
    /\ LET f == InHand.frn
           kept == ~InHand.refresh /\ records[f] # Absent
       IN  Applied([records EXCEPT ![f] =
               [link |-> InHand.link,
                meta |-> IF kept THEN records[f].meta ELSE pend]])

-----------------------------------------------------------------------------
(* NtfsIndex::BuildFromVolume *)

BuildBegin ==
    /\ phase = "rescan"
    /\ phase' = "enum"
    /\ scan' = Nothing
    /\ todo' = Frn
    /\ scanFrom' = Len(hist)
    /\ drive' = TRUE
    /\ UNCHANGED <<volumeVars, session, cursor, curId, target, buffered, pend,
                   saving, tag, file, indexVars>>

\* FSCTL_ENUM_USN_DATA: each file is read at its own moment.  FRNs are visited
\* in ascending order; which FRN a file has is arbitrary, so is the order here.
EnumFile(f) ==
    /\ phase = "enum"
    /\ f \in todo
    /\ todo' = todo \ {f}
    /\ scan' = [scan EXCEPT ![f] =
                    IF disk[f] = Absent THEN Absent
                    ELSE [link |-> disk[f].link, meta |-> NoMeta]]
    /\ UNCHANGED <<volumeVars, threadVars, scanFrom, saveVars, indexVars>>

EnumDone ==
    /\ phase = "enum"
    /\ todo = {}
    /\ phase' = "meta"
    /\ todo' = {f \in Frn : scan[f] # Absent}
    /\ UNCHANGED <<volumeVars, session, cursor, curId, target, buffered, pend,
                   scan, scanFrom, saveVars, indexVars>>

\* The second pass, over what the first has found; NoMeta is what the first
\* has left there.
MetaFile(f) ==
    /\ phase = "meta"
    /\ f \in todo
    /\ todo' = todo \ {f}
    /\ \E m \in MftAnswers(f) : scan' = [scan EXCEPT ![f].meta = m]
    /\ UNCHANGED <<volumeVars, threadVars, scanFrom, saveVars, indexVars>>

\* Mutant of BuildPublish: the scan is merged into what a snapshot had left.
BuildPublishMerged ==
    /\ phase = "meta"
    /\ todo = {}
    /\ phase' = "joined"
    /\ records' = [f \in Frn |-> IF scan[f] # Absent THEN scan[f] ELSE records[f]]
    /\ applied' = scanFrom /\ lost' = {} /\ basis' = "built"
    /\ EndScan
    /\ UNCHANGED <<volumeVars, session, cursor, curId, target, buffered, pend,
                   saveVars>>

BuildPublish ==
    /\ phase = "meta"
    /\ todo = {}
    /\ phase' = "joined"
    /\ records' = scan
    /\ applied' = scanFrom /\ lost' = {} /\ basis' = "built"
    /\ EndScan
    /\ UNCHANGED <<volumeVars, session, cursor, curId, target, buffered, pend,
                   saveVars>>

\* The volume cannot be opened or enumerated: newRecords is dropped, records_
\* is left as it was, and the caller does not look at the result.
BuildFail ==
    /\ phase \in {"rescan", "enum"}
    /\ "volume" \in Faults
    /\ phase' = "joined"
    /\ EndScan
    /\ drive' = TRUE
    /\ UNCHANGED <<volumeVars, session, cursor, curId, target, buffered, pend,
                   saving, tag, file, indexVars>>

-----------------------------------------------------------------------------
(* UsnWatcher::WatchLoop, started when every volume's build thread has ended *)

Skipped(from, to) == {hist[i].frn : i \in from + 1 .. to}

\* QueryJournal: reading resumes at the journal's present end.
Requery ==
    /\ cursor' = NextUsn
    /\ curId' = jid
    /\ lost' = lost \cup Skipped(applied, Len(hist))
    /\ applied' = Len(hist)

WatchBegin ==
    /\ phase = "joined"
    /\ records # Nothing
    /\ Requery
    /\ phase' = "watch"
    /\ UNCHANGED <<volumeVars, session, target, buffered, pend, scanVars,
                   saveVars, records, basis>>

\* Count() = 0, or WatchLoop cannot open or query the volume.
WatchNever ==
    /\ phase = "joined"
    /\ records = Nothing \/ "volume" \in Faults
    /\ phase' = "unwatched"
    /\ UNCHANGED <<volumeVars, session, cursor, curId, target, buffered, pend,
                   scanVars, saveVars, indexVars>>

WatchRead ==
    /\ phase = "watch"
    /\ Idle
    /\ FillBuffer
    /\ UNCHANGED <<volumeVars, session, phase, curId, target, pend, scanVars,
                   saveVars, records, lost, basis>>

WatchRequery ==
    /\ phase = "watch"
    /\ Idle
    /\ ~Readable \/ "volume" \in Faults
    /\ Requery
    /\ UNCHANGED <<volumeVars, session, phase, target, buffered, pend, scanVars,
                   saveVars, records, basis>>

\* The read fails and so does the query after it.
WatchEnd ==
    /\ phase = "watch"
    /\ Idle
    /\ "volume" \in Faults
    /\ phase' = "unwatched"
    /\ EndReading
    /\ UNCHANGED <<volumeVars, session, scanVars, saveVars, indexVars>>

\* bad_alloc in ApplyUsnRecord: the loop's catch (...) ends the watcher.
WatchThrow ==
    /\ phase = "watch"
    /\ buffered > 0
    /\ "memory" \in Faults
    /\ phase' = "unwatched"
    /\ EndReading
    /\ UNCHANGED <<volumeVars, session, scanVars, saveVars, indexVars>>

-----------------------------------------------------------------------------
(* NtfsIndex::SaveToFile *)

\* WM_DESTROY saves whatever the threads are doing; EC_SaveIndexes is called
\* under the Python lock that EC_BuildIndex holds until it returns.
MaySave ==
    /\ phase # "off"
    /\ Host = "dll" => phase \in {"joined", "watch", "unwatched"}

\* The position is queried and the file truncated before the lock is taken.
SaveBegin ==
    /\ saving = "no"
    /\ MaySave
    /\ drive
    /\ saving' = "tagged"
    /\ tag' = [id |-> jid, usn |-> NextUsn, upto |-> Len(hist)]
    /\ file' = Torn(Nothing)
    /\ UNCHANGED <<volumeVars, threadVars, scanVars, drive, indexVars>>

\* The volume or the file cannot be opened: the old file stays.
SaveRefuse ==
    /\ saving = "no"
    /\ MaySave
    /\ ~drive \/ "volume" \in Faults \/ "write" \in Faults
    /\ saving' = "done"
    /\ UNCHANGED <<volumeVars, threadVars, scanVars, tag, file, drive, indexVars>>

\* Mutant of SaveWrite: the journal position is queried after the lock, when
\* the records it jumps over have not been applied.
SaveWriteLateTag ==
    /\ saving = "tagged"
    /\ saving' = "done"
    /\ file' = [whole |-> TRUE, id |-> jid, usn |-> NextUsn, upto |-> Len(hist),
                recs |-> records, lost |-> lost \cup Skipped(applied, Len(hist))]
    /\ tag' = NoTag
    /\ UNCHANGED <<volumeVars, threadVars, scanVars, drive, indexVars>>

\* Under the lock no record is applied.
SaveWrite ==
    /\ saving = "tagged"
    /\ saving' = "done"
    /\ file' = [whole |-> TRUE, id |-> tag.id, usn |-> tag.usn,
                upto |-> tag.upto, recs |-> records,
                lost |-> lost \cup Skipped(applied, tag.upto)]
    /\ tag' = NoTag
    /\ UNCHANGED <<volumeVars, threadVars, scanVars, drive, indexVars>>

\* No fwrite is checked: SaveToFile returns true.
SaveShort ==
    /\ saving = "tagged"
    /\ "write" \in Faults
    /\ saving' = "done"
    /\ \E kept \in SUBSET {f \in Frn : records[f] # Absent} : file' = Written(kept)
    /\ tag' = NoTag
    /\ UNCHANGED <<volumeVars, threadVars, scanVars, drive, indexVars>>

-----------------------------------------------------------------------------

VolumeStep ==
    /\ VolumeNext
    /\ UNCHANGED <<threadVars, scanVars, saveVars, indexVars>>

CatchUpStep == CatchUpBegin \/ CatchUpRefuse \/ CatchUpRead \/ CatchUpFail \/ CatchUpDone

ApplyStep == ApplyDelete \/ ApplyReadMft \/ ApplyUpsert

BuildStep ==
    \/ BuildBegin
    \/ \E f \in Frn : EnumFile(f) \/ MetaFile(f)
    \/ EnumDone
    \/ BuildPublish

WatchStep == WatchBegin \/ WatchNever \/ WatchRead \/ WatchRequery

Failure == BuildThrow \/ BuildFail \/ WatchThrow \/ WatchEnd \/ Crash

SaveStep == SaveBegin \/ SaveRefuse \/ SaveWrite \/ SaveShort

Next ==
    \/ VolumeStep
    \/ LoadFromFile \/ LoadThrow
    \/ CatchUpStep
    \/ ApplyStep
    \/ BuildStep
    \/ WatchStep
    \/ Failure
    \/ SaveStep
    \/ Exit

Spec == Init /\ [][Next]_vars

\* The scheduler runs the build and the watcher thread, the device answers
\* them (a read waits at most Timeout = 1 s); a save in progress goes on and the
\* process ends after it.  Nobody has to start the program, to close it, or to
\* change a file.
Fairness ==
    /\ WF_vars(CatchUpStep)
    /\ WF_vars(ApplyStep)
    /\ WF_vars(BuildStep)
    /\ WF_vars(WatchStep)
    /\ WF_vars(SaveWrite)
    /\ WF_vars(Exit)

FairSpec == Spec /\ Fairness

-----------------------------------------------------------------------------
(* Properties *)

Unread(f, upto) == \E i \in upto + 1 .. Len(hist) : hist[i].frn = f

UnreadMeta(f, upto) ==
    \E i \in upto + 1 .. Len(hist) : hist[i].frn = f /\ hist[i].refresh

LinkStale(map, f) ==
    IF disk[f] = Absent THEN map[f] # Absent
    ELSE map[f] = Absent \/ map[f].link # disk[f].link

\* 0 is what an MFT read that failed leaves: unknown, not wrong.
WrongMeta(m, n) == m # n /\ ~("volume" \in Faults /\ m = NoMeta)

MetaStale(map, f) ==
    disk[f] # Absent /\ (map[f] = Absent \/ WrongMeta(map[f].meta, disk[f].meta))

\* Whatever map has wrong about a file, a record after hist[upto] will put
\* right, unless the file is one of `missed'.
Covers(map, upto, missed) ==
    \A f \in Frn \ missed :
        /\ LinkStale(map, f) => Unread(f, upto)
        /\ MetaStale(map, f) => UnreadMeta(f, upto)

(* Everything the live index has wrong is on its way: a record not applied
   yet will correct it, or it belongs to a file the index is known to have
   jumped over.  So no step of load, catch-up, scan, tail, retry or replay
   drops, misorders or half-applies a change in any other way. *)
StaleIsAccounted == Covers(records, applied, lost)

(* The same of a snapshot that LoadFromFile would accept, from the position
   it is tagged with: replaying records it already holds does no harm. *)
SnapshotIsAccounted == file.whole => Covers(file.recs, file.upto, file.lost)

(* A read of the journal begins with the record after the last one applied:
   no record is read twice in a run or passed over by a read, and no offset of
   a journal that was deleted is used in its successor. *)
ReadsAreContiguous == [][buffered' > buffered => applied' = applied]_vars

(* A catch-up that is accepted has applied everything journalled when it
   began, though the volume goes on changing under it. *)
CatchUpReachesItsTarget ==
    [][phase = "catchup" /\ basis' = "caughtup" /\ curId = jid
           => applied >= base + target]_vars

(* A build thread comes to an end even while the volume changes. *)
IndexingEnds == phase \in Building ~> phase \notin Building

(* An index that is watched and has lost nothing becomes the volume. *)
Converges ==
    <>[](phase = "watch" /\ lost = {}) => <>[](records = disk)

(* What the repository says of the program, and the runs refute. *)

(* The watcher takes over where the scan or the catch-up left off: what is
   stale when it starts is put right by a record it has yet to read. *)
Resumed == phase = "joined" /\ phase' = "watch" => Covers(records, applied', lost)

WatchResumes == [][Resumed]_vars

(* A snapshot of an index that has missed nothing lacks nothing from before
   the journal position it is tagged with. *)
HeldAsTagged ==
    saving = "tagged" /\ file'.whole /\ lost = {} => Covers(records, tag.upto, {})

SnapshotHoldsItsTag == [][HeldAsTagged]_vars

(* A snapshot is taken of an index that was loaded or built to the end. *)
SavedAnIndex == saving = "tagged" /\ file'.whole => basis \in {"caughtup", "built"}

SnapshotIsOfAnIndex == [][SavedAnIndex]_vars

(* A snapshot that catch-up has refused is never what is searched. *)
RefusedIsDiscarded ==
    phase \in {"joined", "watch", "unwatched"} => basis # "refused"
-----------------------------------------------------------------------------
(* The inductive invariant behind StaleIsAccounted and ReadsAreContiguous. *)

Tailing == {"catchup", "watch"}

\* The last record of a file says where the file is now.
HistSettled ==
    \A i \in 1 .. Len(hist) :
        (\A j \in i + 1 .. Len(hist) : hist[j].frn # hist[i].frn)
        => /\ hist[i].gone <=> disk[hist[i].frn] = Absent
           /\ ~hist[i].gone => disk[hist[i].frn].link = hist[i].link

\* A deleted file does not come back under its FRN.
GoneForGood ==
    /\ \A f \in fresh : disk[f] = Absent
    /\ \A i \in 1 .. Len(hist) :
           hist[i].gone => disk[hist[i].frn] = Absent /\ hist[i].frn \notin fresh

\* Where the offsets the code holds lie in the history of the volume.
Positions ==
    /\ applied + buffered <= Len(hist)
    /\ scanFrom <= Len(hist)
    /\ curId <= jid
    /\ phase \in Tailing \cup {"loaded"} /\ curId = jid
           => base + cursor = applied + buffered
    /\ saving = "tagged"
           => /\ tag.upto <= Len(hist) /\ tag.id <= jid
              /\ tag.id = jid => base + tag.usn = tag.upto
    /\ file.whole
           => /\ file.upto <= Len(hist) /\ file.id <= jid
              /\ file.id = jid => base + file.usn = file.upto

\* A buffer and a record in hand exist only while the journal is read.
Buffering ==
    /\ phase \notin Tailing => buffered = 0
    /\ buffered = 0 => pend = NotRead

\* An MFT answer that has become stale before its upsert will be read again.
PendCovers ==
    pend # NotRead =>
        /\ ~InHand.gone
        /\ InHand.refresh /\ disk[InHand.frn] # Absent
               /\ WrongMeta(pend, disk[InHand.frn].meta)
           => UnreadMeta(InHand.frn, applied + 1)

\* A scan in progress, in both passes, for the files it has visited.
ScanCovers ==
    /\ \A f \in Frn :
           \/ phase = "enum" /\ f \notin todo
           \/ phase = "meta"
           => /\ LinkStale(scan, f) => Unread(f, scanFrom)
              /\ scan[f] = Absent /\ disk[f] # Absent => UnreadMeta(f, scanFrom)
    /\ phase = "meta" =>
           \A f \in Frn :
               IF f \in todo THEN scan[f] # Absent
               ELSE MetaStale(scan, f) => UnreadMeta(f, scanFrom)

IInv ==
    /\ TypeOK
    /\ HistSettled
    /\ GoneForGood
    /\ Positions
    /\ Buffering
    /\ PendCovers
    /\ ScanCovers
    /\ StaleIsAccounted
    /\ SnapshotIsAccounted

-----------------------------------------------------------------------------
(* The same program on a volume that rests while it is indexed and whose    *)
(* journal is trimmed or reset only while the program is not running, saved *)
(* when the watcher has caught up.  It separates the two moments at which   *)
(* the code jumps over records from everything else it does.                *)
Resting == phase \in Building \cup {"joined"}

QuietNext ==
    /\ Next
    /\ Resting => UNCHANGED volumeVars
    /\ <<low, jid>>' # <<low, jid>> => phase = "off"
    /\ saving = "no" /\ saving' = "tagged"
           => phase \in {"watch", "unwatched"} /\ applied = Len(hist)

QuietSpec == Init /\ [][QuietNext]_vars

(* On such a volume no file is ever lost, in this run of the program or     *)
(* through the snapshot in the next: the scan, the hand-over to the watcher *)
(* and the replay of a snapshot leave no other hole.                        *)
QuietLosesNothing == phase \in {"watch", "unwatched"} => lost = {}

(* On such a volume no file is ever lost, and what comments and the README
   promise, and the code breaks on a volume that changes, it keeps: the watcher
   goes on where the scan or the catch-up left off, a snapshot holds everything
   up to its tag, it is of an index that was loaded or built to the end, and one
   that catch-up has refused is never what is searched. *)
QuietPromises ==
    [][/\ QuietLosesNothing' /\ RefusedIsDiscarded'
       /\ Resumed /\ HeldAsTagged /\ SavedAnIndex]_vars

\* The volume answers, and a build thread that fails ends the program.
QuietFaults == "volume" \notin Faults /\ ("memory" \in Faults => Host = "exe")

(* What makes QuietLosesNothing inductive: on its way to the watcher an index
   has lost nothing and lags behind nothing, and the watcher can always read on. *)
QuietInv ==
    /\ phase \in {"loaded", "catchup", "joined", "watch", "unwatched"} => lost = {}
    /\ phase = "catchup" => curId = jid /\ base + target = Len(hist)
    /\ phase \in {"enum", "meta"} => scanFrom = Len(hist)
    /\ phase = "joined" => applied = Len(hist)
    /\ phase = "watch" => curId = jid /\ low <= base + cursor
    /\ saving = "tagged" => phase \in {"watch", "unwatched"} /\ tag.upto <= applied
    /\ file.whole => file.lost = {}

\* Only an index that was brought up to date or built is watched and saved.
QuietBasis == phase \in {"joined", "watch", "unwatched"} => basis \in {"caughtup", "built"}
=============================================================================
