----------------------------- MODULE EngineApi ------------------------------
(***************************************************************************)
(* core_api.cpp: one handle of EverythingCore.dll with several volumes.    *)
(* The caller makes one call at a time.  A call runs against the watcher   *)
(* threads of this build and of earlier ones, and during a build against   *)
(* one build thread per drive.  What happens inside the building and the   *)
(* tailing of one volume is VolumeIndex's; here records only have an       *)
(* origin: which drive's file an entry of which index is.                  *)
(*                                                                         *)
(* `given' and `steady' are history: no guard uses them.                   *)
(***************************************************************************)
EXTENDS Naturals, Sequences, FiniteSets

CONSTANTS
    Drive,      \* drive letters, as numbers in the order of the alphabet
    Movable,    \* those that come and go, such as external disks
    None,       \* no drive
    NoSnapshot, \* no such file
    File,       \* file reference numbers; each volume has its own such file
    Memory,     \* bad_alloc, and failing to start a thread, may happen
    MaxBuilds,  \* bound: calls of EC_BuildIndex
    MaxMoves,   \* bound: drives that come or go
    MaxResults  \* bound: the largest maxResults

ASSUME EngineApiAssumption ==
    /\ Drive \in SUBSET Nat /\ IsFiniteSet(Drive) /\ IsFiniteSet(File)
    /\ Movable \subseteq Drive
    /\ None \notin Drive
    /\ NoSnapshot \notin [File -> Drive \cup {None}]
    /\ Memory \in BOOLEAN
    /\ MaxBuilds \in Nat /\ MaxMoves \in Nat /\ MaxResults \in Nat

VARIABLES
    attached,     \* the fixed NTFS drives there are
    moves,        \* how often that has changed
    builds,       \* calls of EC_BuildIndex
    volumes,      \* EC_State.volumes
    driveLetters, \* EC_State.driveLetters
    beyond,       \* what its storage holds after its last element
    given,        \* history: <<i, d>> when a build's i-th drive was d
    watchers,     \* EC_State.watcherThreads
    running,      \* EC_State.watcherRunning
    results,      \* EC_State.lastResults
    call,         \* where the call being made is
    \* locals of the calls, empty between them
    drives,       \* EC_BuildIndex: DetectNtfsFixedDrives()
    building,     \* EC_BuildIndex: the build threads not joined yet
    at,           \* the next volume the call's loop comes to
    cap,          \* EC_Search: maxResults
    steady,       \* history: the entries there since EC_Search began
    snapshots     \* the files index_<drive>.bin

machineVars == <<attached, moves>>
stateVars == <<volumes, driveLetters, beyond, given, running, results>>
callVars == <<drives, building, at, cap, steady>>
vars == <<machineVars, builds, stateVars, watchers, call, callVars, snapshots>>

Origin == Drive \cup {None}
Records == [File -> Origin]
NoRecords == [f \in File |-> None]

Volume == [letter : Origin, records : Records]
Watcher == [drive : Drive, volume : Nat \ {0}, state : {"tailing", "ended"}]

Calls == {"none", "building", "joined", "searching", "saving", "joining",
          "freed", "terminated"}

TypeOK ==
    /\ attached \in SUBSET Drive
    /\ moves \in Nat /\ builds \in Nat
    /\ volumes \in Seq(Volume)
    /\ driveLetters \in Seq(Drive) /\ beyond \in Seq(Drive) /\ drives \in Seq(Drive)
    /\ given \in SUBSET (Nat \X Drive)
    /\ watchers \in Seq(Watcher)
    /\ \A w \in DOMAIN watchers : watchers[w].volume \in DOMAIN volumes
    /\ running \in BOOLEAN
    /\ results \in SUBSET (Nat \X File)
    /\ call \in Calls
    /\ building \in SUBSET DOMAIN volumes
    /\ at \in Nat /\ cap \in Nat
    /\ steady \in SUBSET (Nat \X File)
    /\ snapshots \in [Drive -> Records \cup {NoSnapshot}]

Init ==
    /\ attached \in SUBSET Drive
    /\ moves = 0 /\ builds = 0
    /\ volumes = <<>> /\ driveLetters = <<>> /\ beyond = <<>> /\ given = {}
    /\ watchers = <<>> /\ running = TRUE
    /\ results = {}
    /\ call = "none"
    /\ drives = <<>> /\ building = {} /\ at = 0 /\ cap = 0 /\ steady = {}
    /\ snapshots \in [Drive -> {NoSnapshot}]

-----------------------------------------------------------------------------
(* The machine *)

Move ==
    /\ moves < MaxMoves
    /\ moves' = moves + 1
    /\ \E d \in Movable :
           attached' = IF d \in attached THEN attached \ {d} ELSE attached \cup {d}
    /\ UNCHANGED <<builds, stateVars, watchers, call, callVars, snapshots>>

-----------------------------------------------------------------------------
(* The watcher threads *)

Entries(i) == {f \in File : volumes[i].records[f] # None}

\* A record of the journal of the watcher's drive is applied to its index:
\* the file is there afterwards, or is not.
WatcherApplies(w) ==
    /\ watchers[w].state = "tailing"
    /\ watchers[w].drive \in attached
    /\ \E f \in File, origin \in {watchers[w].drive, None} :
           /\ volumes' = [volumes EXCEPT ![watchers[w].volume].records[f] = origin]
           /\ steady' = steady \ {<<watchers[w].volume, f>>}
    /\ UNCHANGED <<machineVars, builds, driveLetters, beyond, given, running, results, watchers,
                   call, drives, building, at, cap, snapshots>>

\* The loop has seen `running', or a device call has failed, or memory.
WatcherEnds(w) ==
    /\ watchers[w].state = "tailing"
    /\ watchers' = [watchers EXCEPT ![w].state = "ended"]
    /\ UNCHANGED <<machineVars, builds, stateVars, call, callVars, snapshots>>

-----------------------------------------------------------------------------
(* EC_BuildIndex *)

\* DetectNtfsFixedDrives goes from A to Z.
DetectNtfsFixedDrives ==
    CHOOSE s \in [1 .. Cardinality(attached) -> attached] :
        \A i, j \in DOMAIN s : i < j => s[i] < s[j]

Storage == driveLetters \o beyond

\* What std::vector's assignment leaves in the storage it keeps.
LeftBeyond(s) == SubSeq(Storage, Len(s) + 1, Len(Storage))

Unbuilt == [letter |-> None, records |-> NoRecords]

\* Mutant of Grown: the indexes of the first build are meant to do.
GrownOnce(n) == IF volumes = <<>> THEN [i \in 1 .. n |-> Unbuilt] ELSE volumes

\* Indexes are added by every build, and never removed.
Grown(n) == volumes \o [i \in 1 .. n |-> Unbuilt]

\* push_back may throw after having made some, or the first thread not start;
\* then the call is over.
BuildBegin ==
    /\ call = "none"
    /\ builds < MaxBuilds
    /\ builds' = builds + 1
    /\ driveLetters' = DetectNtfsFixedDrives
    /\ beyond' = LeftBeyond(driveLetters')
    /\ given' = given \cup {<<i, driveLetters'[i]>> : i \in DOMAIN driveLetters'}
    /\ \/ /\ drives' = DetectNtfsFixedDrives
          /\ volumes' = Grown(Len(drives'))
          /\ call' = "building"
          /\ building' = DOMAIN drives'
       \/ /\ Memory
          /\ \E made \in 0 .. Cardinality(attached) : volumes' = Grown(made)
          /\ UNCHANGED <<call, drives, building>>
    /\ UNCHANGED <<machineVars, watchers, running, results, at, cap, steady, snapshots>>

\* A later thread cannot be started, and the vector of those that were is
\* destroyed with them still joinable: std::terminate.
BuildTerminates ==
    /\ Memory
    /\ call = "building"
    /\ Len(drives) > 1 /\ building = DOMAIN drives
    /\ call' = "terminated"
    /\ UNCHANGED <<machineVars, builds, stateVars, watchers, callVars, snapshots>>

\* Mutant of BuildTarget: the index this build has made for the drive.
BuildTargetNewest(i) == Len(volumes) - Len(drives) + i

\* state->volumes[i], whichever build has made it.
BuildTarget(i) == i

buildRest == <<machineVars, builds, driveLetters, beyond, given, running, results, watchers,
               call, drives, at, cap, steady, snapshots>>

\* LoadFromFile, and CatchUp with the journal of the drive that has the letter
\* now; or no CatchUp, and BuildFromVolume fails.
BuildLoads(i) ==
    /\ i \in building
    /\ building' = building \ {i}
    /\ snapshots[drives[i]] # NoSnapshot
    /\ \E found \in Records :
           /\ \A f \in File : found[f] \in {snapshots[drives[i]][f], drives[i], None}
           /\ volumes' = [volumes EXCEPT
                  ![BuildTarget(i)] = [letter |-> drives[i], records |-> found]]
    /\ UNCHANGED buildRest

\* BuildFromVolume
BuildScans(i) ==
    /\ i \in building
    /\ building' = building \ {i}
    /\ \E found \in [File -> {drives[i], None}] :
           volumes' = [volumes EXCEPT
               ![BuildTarget(i)] = [letter |-> drives[i], records |-> found]]
    /\ UNCHANGED buildRest

\* BuildFromVolume fails, or bad_alloc comes before it has set driveLetter_.
BuildFails(i) ==
    /\ i \in building
    /\ building' = building \ {i}
    /\ \/ volumes' = [volumes EXCEPT ![BuildTarget(i)].letter = drives[i]]
       \/ Memory /\ UNCHANGED volumes
    /\ UNCHANGED buildRest

BuildJoin ==
    /\ call = "building"
    /\ building = {}
    /\ call' = "joined"
    /\ at' = 1
    /\ UNCHANGED <<machineVars, builds, stateVars, watchers, drives, building, cap,
                   steady, snapshots>>

BuildWatch ==
    /\ call = "joined"
    /\ at \in DOMAIN drives
    /\ \/ /\ Entries(at) # {}
          /\ watchers' = Append(watchers,
                [drive |-> drives[at], volume |-> at, state |-> "tailing"])
          /\ at' = at + 1
       \/ /\ Entries(at) = {}
          /\ at' = at + 1
          /\ UNCHANGED watchers
    /\ UNCHANGED call
    /\ UNCHANGED <<machineVars, builds, stateVars, drives, building, cap, steady, snapshots>>

\* A thread that cannot be started ends the call; those that were stay.
BuildReturns ==
    /\ call = "joined"
    /\ at \notin DOMAIN drives \/ Memory
    /\ call' = "none"
    /\ drives' = <<>> /\ at' = 0
    /\ UNCHANGED <<machineVars, builds, stateVars, watchers, building, cap, steady,
                   snapshots>>

-----------------------------------------------------------------------------
(* EC_Search *)

searchRest == <<machineVars, builds, volumes, driveLetters, beyond, given, running, watchers,
                drives, building, snapshots>>

SearchBegin ==
    /\ call = "none"
    /\ call' = "searching"
    /\ results' = {}
    /\ at' = 1
    /\ cap' \in 0 .. MaxResults
    /\ steady' = {e \in (DOMAIN volumes) \X File : e[2] \in Entries(e[1])}
    /\ UNCHANGED searchRest

\* Mutant of MoreWanted: the loop does not break at the cap.
MoreWantedAlways == TRUE

MoreWanted == Cardinality(results) < cap

\* What NtfsIndex::Search returns; it compares only after it has added one.
Found(entries, limit) ==
    LET most == IF limit = 0 THEN 1 ELSE limit
    IN  {part \in SUBSET entries :
            IF Cardinality(entries) <= most THEN part = entries ELSE Cardinality(part) = most}

\* One index after the other, each with what is left of the cap.
SearchVolume ==
    /\ call = "searching"
    /\ at \in DOMAIN volumes /\ MoreWanted
    /\ \E part \in Found(Entries(at),
                         IF Cardinality(results) < cap THEN cap - Cardinality(results) ELSE 0) :
           results' = results \cup ({at} \X part)
    /\ at' = at + 1
    /\ UNCHANGED <<searchRest, call, cap, steady>>

SearchReturns ==
    /\ call = "searching"
    /\ at \notin DOMAIN volumes \/ ~MoreWanted
    /\ call' = "none"
    /\ at' = 0 /\ cap' = 0 /\ steady' = {}
    /\ UNCHANGED <<searchRest, results>>

\* bad_alloc: an empty result.
SearchFails ==
    /\ Memory
    /\ call = "searching"
    /\ call' = "none"
    /\ results' = {}
    /\ at' = 0 /\ cap' = 0 /\ steady' = {}
    /\ UNCHANGED searchRest

-----------------------------------------------------------------------------
(* EC_SaveIndexes *)

SaveBegin ==
    /\ call = "none"
    /\ call' = "saving"
    /\ at' = 1
    /\ UNCHANGED <<machineVars, builds, stateVars, watchers, drives, building, cap, steady,
                   snapshots>>

\* driveLetters[i], whether it has an i-th element or not: past the storage any
\* letter.
LetterRead(i) == IF i \in DOMAIN Storage THEN {Storage[i]} ELSE Drive

\* SaveToFile opens the drive it has indexed, and gives up if it cannot.
SaveVolume ==
    /\ call = "saving"
    /\ at \in DOMAIN volumes
    /\ \/ /\ volumes[at].letter \in attached
          /\ \E letter \in LetterRead(at) :
                 snapshots' = [snapshots EXCEPT ![letter] = volumes[at].records]
       \/ UNCHANGED snapshots
    /\ at' = at + 1
    /\ UNCHANGED <<machineVars, builds, stateVars, watchers, call, drives, building, cap,
                   steady>>

SaveReturns ==
    /\ call = "saving"
    /\ at \notin DOMAIN volumes \/ Memory
    /\ call' = "none"
    /\ at' = 0
    /\ UNCHANGED <<machineVars, builds, stateVars, watchers, drives, building, cap, steady,
                   snapshots>>

-----------------------------------------------------------------------------
(* EC_Destroy *)

\* Mutant of DestroyBegin: nobody tells the watchers.
DestroyBeginUntold ==
    /\ call = "none"
    /\ call' = "joining"
    /\ UNCHANGED <<machineVars, builds, stateVars, watchers, callVars, snapshots>>

DestroyBegin ==
    /\ call = "none"
    /\ call' = "joining"
    /\ running' = FALSE
    /\ UNCHANGED <<machineVars, builds, volumes, driveLetters, beyond, given, results, watchers,
                   callVars, snapshots>>

Joined == \A w \in DOMAIN watchers : watchers[w].state = "ended"

DestroyEnd ==
    /\ call = "joining"
    /\ Joined
    /\ call' = "freed"
    /\ UNCHANGED <<machineVars, builds, stateVars, watchers, callVars, snapshots>>

-----------------------------------------------------------------------------
Build ==
    \/ BuildBegin \/ BuildTerminates
    \/ \E i \in building : BuildLoads(i) \/ BuildScans(i) \/ BuildFails(i)
    \/ BuildJoin \/ BuildWatch \/ BuildReturns
Search == SearchBegin \/ SearchVolume \/ SearchReturns \/ SearchFails
Save == SaveBegin \/ SaveVolume \/ SaveReturns
Destroy == DestroyBegin \/ DestroyEnd

\* A process that has been terminated does nothing any more.
Next ==
    /\ call # "terminated"
    /\ \/ Move
       \/ \E w \in DOMAIN watchers : WatcherApplies(w) \/ WatcherEnds(w)
       \/ Build \/ Search \/ Save \/ Destroy

Spec == Init /\ [][Next]_vars

\* A read of the journal lasts a second at most, and the thread in EC_Destroy
\* runs.
Fairness ==
    /\ \A w \in 1 .. MaxBuilds * Cardinality(Drive) :
           WF_vars(w \in DOMAIN watchers /\ ~running /\ WatcherEnds(w))
    /\ WF_vars(DestroyEnd)

FairSpec == Spec /\ Fairness

-----------------------------------------------------------------------------
(* Properties *)

\* Drives that have shared a position with another: between two builds a drive
\* has come or gone that is before them in the alphabet, or in their place.
Displaced == {d \in Drive : \E p, q \in given : p[1] = q[1] /\ p[2] = d /\ q[2] # d}

\* An index holds files of the drive whose letter it puts before their paths,
\* though EC_BuildIndex is called again, reuses the first indexes and leaves
\* the watchers of the build before at them.
OwnRecordsOnly ==
    \A i \in DOMAIN volumes : \A f \in Entries(i) :
        \/ volumes[i].records[f] = volumes[i].letter
        \/ {volumes[i].records[f], volumes[i].letter} \subseteq Displaced

\* And a drive is in one index only, so that no file is found twice.
OneIndexPerDrive ==
    \A i, j \in DOMAIN volumes :
        volumes[i].letter = volumes[j].letter /\ Entries(i) # {} =>
            i = j \/ Entries(j) = {} \/ volumes[i].letter \in Displaced

\* A snapshot file holds files of its own drive, which the next start will
\* search and catch up with that drive's journal.
SnapshotsOfTheirDrive ==
    \A d \in Drive : snapshots[d] # NoSnapshot =>
        \A f \in File :
            snapshots[d][f] \in {d, None} \/ {snapshots[d][f], d} \subseteq Displaced

\* Indexes, watchers and snapshots are matched to drives by position only.  So
\* drives that come and go mix them up, and the next start reads that from the
\* disk; but through any number of builds and saves it reaches only drives that
\* were displaced themselves.
MixingIsAccounted == OwnRecordsOnly /\ OneIndexPerDrive /\ SnapshotsOfTheirDrive

\* Each index and each snapshot belongs to one drive, and to the right one.
DrivesKeptApart ==
    /\ \A i \in DOMAIN volumes : \A f \in Entries(i) :
          volumes[i].records[f] = volumes[i].letter
    /\ \A d \in Drive : snapshots[d] # NoSnapshot =>
          \A f \in File : snapshots[d][f] \in {d, None}

\* EC_Search returns no more than maxResults in total, and if less, then
\* whatever was indexed all the time it took.
SearchIsExhaustive ==
    call = "searching" =>
        /\ Cardinality(results) <= cap
        /\ Cardinality(results) < cap => \A e \in steady : e[1] < at => e \in results

\* EC_Destroy returns, with any number of watchers of any build.
DestroyReturns == call = "joining" ~> call = "freed"

\* driveLetters is "parallel to volumes".
ParallelVectors == call = "none" => Len(driveLetters) = Len(volumes)
=============================================================================
