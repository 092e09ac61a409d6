--------------------------- MODULE MainWindowProofs ---------------------------
(***************************************************************************)
(* Proofs about MainWindow, for every set of files, values, tasks and      *)
(* choices, and any number of jobs, scans and clicks.                      *)
(***************************************************************************)
EXTENDS MainWindow, SequenceTheorems, FiniteSetTheorems, TLAPS

(* StartupManager has its finite sets from the same module. *)
LEMMA SameSets == /\ \A S : Startup!IsFiniteSet(S) <=> IsFiniteSet(S)
                  /\ \A S : Startup!Cardinality(S) = Cardinality(S)
<1>1. \A S : Startup!IsFiniteSet(S) <=> IsFiniteSet(S)
  BY DEF Startup!IsFiniteSet, IsFiniteSet
<1>2. \A S : Startup!Cardinality(S) = Cardinality(S)
  BY Zenon DEF Startup!Cardinality, Cardinality
<1> QED
  BY <1>1, <1>2

-----------------------------------------------------------------------------
(* The stack of dialogs *)

LEMMA PushType ==
    ASSUME dialogs \in Seq(Dialog), NEW k \in DialogKinds, NEW ps \in SUBSET File, Push(k, ps)
    PROVE  dialogs' \in Seq(Dialog)
<1> [kind |-> k, paths |-> ps] \in Dialog
  BY DEF Dialog
<1> QED
  BY DEF Push

LEMMA PopType ==
    ASSUME dialogs \in Seq(Dialog), dialogs # <<>>, Pop
    PROVE  /\ dialogs' \in Seq(Dialog)
           /\ Len(dialogs') = Len(dialogs) - 1
           /\ \A i \in 1 .. Len(dialogs) - 1 : dialogs'[i] = dialogs[i]
<1>1. 1 \in Int /\ Len(dialogs) - 1 \in Int /\ Len(dialogs) - 1 \in 0 .. Len(dialogs)
  OBVIOUS
<1>2. \A i \in 1 .. Len(dialogs) - 1 : dialogs[i] \in Dialog
  BY <1>1
<1>3. /\ SubSeq(dialogs, 1, Len(dialogs) - 1) \in Seq(Dialog)
      /\ Len(SubSeq(dialogs, 1, Len(dialogs) - 1))
            = IF 1 <= Len(dialogs) - 1 THEN Len(dialogs) - 1 - 1 + 1 ELSE 0
      /\ \A i \in 1 .. Len(dialogs) - 1 - 1 + 1 :
            SubSeq(dialogs, 1, Len(dialogs) - 1)[i] = dialogs[1 + i - 1]
  BY <1>1, <1>2, SubSeqProperties
<1>0. Len(dialogs) \in Nat \ {0}
  OBVIOUS
<1>4. Len(SubSeq(dialogs, 1, Len(dialogs) - 1)) = Len(dialogs) - 1
  <2> \A n \in Nat \ {0} : (IF 1 <= n - 1 THEN n - 1 - 1 + 1 ELSE 0) = n - 1
    OBVIOUS
  <2> QED
    BY <1>0, <1>3, Zenon
<1>5. \A i \in 1 .. Len(dialogs) - 1 :
          SubSeq(dialogs, 1, Len(dialogs) - 1)[i] = dialogs[i]
  BY <1>1, <1>3
<1> QED
  BY <1>3, <1>4, <1>5 DEF Pop

LEMMA LastType ==
    ASSUME NEW d, d \in Seq(Dialog), d # <<>>
    PROVE  Last(d) \in Dialog /\ Last(d) = d[Len(d)] /\ Len(d) \in DOMAIN d
  BY DEF Last

LEMMA BelowType ==
    ASSUME NEW ps \in SUBSET File
    PROVE  Below(ps) \in SUBSET File
  BY CleanupPageAssumption DEF Below

-----------------------------------------------------------------------------
(* Type correctness *)

LEMMA TypeInit == Init => TypeOK
<1> SUFFICES ASSUME Init PROVE TypeOK
  OBVIOUS
<1>1. CleanupTypeOK
  <2>1. Idle \in JobRecord
    BY DEF Idle, JobRecord, Kinds
  <2>2. dialogs \in Seq(Dialog)
    BY DEF Init
  <2>3. jobs \in [Job -> JobRecord]
    BY <2>1 DEF Init, CleanupInit
  <2>4. worker \in 0 .. MaxJobs
    BY CleanupPageAssumption DEF Init, CleanupInit
  <2>5. /\ disk \subseteq File /\ folders \subseteq File
        /\ bar \in BOOLEAN /\ stop \in {"hidden", "on", "off"}
    BY Zenon DEF Init, CleanupInit
  <2> QED
    BY <2>2, <2>3, <2>4, <2>5 DEF CleanupTypeOK
<1>2. Startup!StartupTypeOK
  BY MainWindowAssumption, SameSets
     DEF Init, Startup!StartupInit, Startup!StartupTypeOK, Startup!Begun, Startup!Scan,
         Startup!Entry
<1>3. Settings!ConfigTypeOK
  BY MainWindowAssumption
  DEF Init, Settings!ConfigInit, Settings!ConfigTypeOK, Settings!Default, Settings!Config,
      Settings!LookOf, Settings!Percent, Settings!None
<1> QED
  BY <1>1, <1>2, <1>3, MainWindowAssumption DEF Init, TypeOK

(* A job that is started is a job. *)
LEMMA StartType ==
    ASSUME CleanupTypeOK, NEW k \in Kinds, NEW ps \in SUBSET File, NEW t \in SUBSET File,
           Start(k, ps, t), disk' = disk, folders' = folders, dialogs' \in Seq(Dialog)
    PROVE  CleanupTypeOK'
<1>1. [kind |-> k, at |-> "running", paths |-> ps, todo |-> t, cancelled |-> FALSE]
          \in JobRecord
  BY DEF JobRecord
<1>2. worker + 1 \in Job /\ worker' \in 0 .. MaxJobs
  BY CleanupPageAssumption DEF CleanupTypeOK, Start, Job
<1> QED
  BY <1>1, <1>2 DEF CleanupTypeOK, Start, StartProgress

(* So is one whose result has been handled. *)
LEMMA HandleType ==
    ASSUME CleanupTypeOK, NEW j \in Job, NEW k, Handle(j, k), dialogs' \in Seq(Dialog)
    PROVE  CleanupTypeOK'
<1> [jobs[j] EXCEPT !.at = "handled"] \in JobRecord
  BY DEF CleanupTypeOK, JobRecord
<1> QED
  BY DEF CleanupTypeOK, Handle, EndProgress

LEMMA CleanupClickType ==
    ASSUME CleanupTypeOK, CleanupClick
    PROVE  CleanupTypeOK'
<1> dialogs \in Seq(Dialog)
  BY DEF CleanupTypeOK
<1>1. CASE BrowseForDuplicateFiles
  <2>1. PICK f \in File : Start("files", {f}, {})
    BY <1>1 DEF BrowseForDuplicateFiles
  <2>2. {f} \in SUBSET File /\ {} \in SUBSET File /\ "files" \in Kinds
    BY DEF Kinds
  <2>3. disk' = disk /\ folders' = folders /\ dialogs' \in Seq(Dialog)
    BY <1>1 DEF BrowseForDuplicateFiles
  <2> QED
    BY <2>1, <2>2, <2>3, StartType
<1>2. CASE AddImageFolder
  BY <1>2 DEF AddImageFolder, CleanupTypeOK, progressVars
<1>3. CASE RemoveImageFolder
  BY <1>3 DEF RemoveImageFolder, CleanupTypeOK, progressVars
<1>4. CASE StartImageScan
  <2>1. CASE folders = {}
    <3>1. "told" \in DialogKinds /\ {} \in SUBSET File /\ Push("told", {})
      BY <1>4, <2>1 DEF StartImageScan, DialogKinds
    <3>2. dialogs' \in Seq(Dialog)
      BY <3>1, PushType
    <3> QED
      BY <1>4, <2>1, <3>2 DEF StartImageScan, CleanupTypeOK, progressVars
  <2>2. CASE folders # {}
    <3>1. folders \in SUBSET File /\ {} \in SUBSET File /\ "images" \in Kinds
      BY DEF CleanupTypeOK, Kinds
    <3>2. Start("images", folders, {}) /\ disk' = disk /\ folders' = folders
      BY <1>4, <2>2 DEF StartImageScan
    <3>3. dialogs' \in Seq(Dialog)
      BY <1>4, <2>2 DEF StartImageScan
    <3> QED
      BY <3>1, <3>2, <3>3, StartType
  <2> QED
    BY <2>1, <2>2
<1>5. CASE AnalyzeDroppedPath
  <2>1. PICK f \in File : Start("analyze", {f}, {})
    BY <1>5 DEF AnalyzeDroppedPath
  <2>2. {f} \in SUBSET File /\ {} \in SUBSET File /\ "analyze" \in Kinds
    BY DEF Kinds
  <2>3. disk' = disk /\ folders' = folders /\ dialogs' \in Seq(Dialog)
    BY <1>5 DEF AnalyzeDroppedPath
  <2> QED
    BY <2>1, <2>2, <2>3, StartType
<1>6. CASE StopClicked
  BY <1>6 DEF StopClicked, CleanupTypeOK, JobRecord
<1>7. CASE Confirmed
  <2> DEFINE ps == Last(dialogs).paths
  <2>1. dialogs # <<>> /\ Start("execute", ps, Below(ps)) /\ Pop
        /\ disk' = disk /\ folders' = folders
    BY <1>7 DEF Confirmed, TopIs
  <2>2. ps \in SUBSET File
    BY <2>1, LastType DEF Dialog
  <2>3. Below(ps) \in SUBSET File /\ "execute" \in Kinds
    BY <2>2, BelowType DEF Kinds
  <2>4. dialogs' \in Seq(Dialog)
    BY <2>1, PopType
  <2> QED
    BY <2>1, <2>2, <2>3, <2>4, StartType
<1> QED
  BY <1>1, <1>2, <1>3, <1>4, <1>5, <1>6, <1>7 DEF CleanupClick

LEMMA CleanupThreadsType ==
    ASSUME CleanupTypeOK, CleanupThreads
    PROVE  CleanupTypeOK'
<1> dialogs \in Seq(Dialog) /\ {} \in SUBSET File
  BY DEF CleanupTypeOK
<1>1. ASSUME NEW j \in Job, DuplicateFilesReady(j) PROVE CleanupTypeOK'
  BY <1>1, HandleType DEF DuplicateFilesReady
<1>2. ASSUME NEW j \in Job, ImageScanReady(j) PROVE CleanupTypeOK'
  <2> Handle(j, "images") /\ dialogs' \in Seq(Dialog)
    BY <1>2, PushType DEF DialogKinds, ImageScanReady
  <2> QED
    BY HandleType
<1>3. ASSUME NEW j \in Job, AnalyzeReady(j) PROVE CleanupTypeOK'
  <2> jobs[j].paths \in SUBSET File
    BY DEF CleanupTypeOK, JobRecord
  <2> Handle(j, "analyze") /\ dialogs' \in Seq(Dialog)
    BY <1>3, PushType DEF DialogKinds, AnalyzeReady
  <2> QED
    BY HandleType
<1>4. ASSUME NEW j \in Job, ExecuteDone(j) PROVE CleanupTypeOK'
  <2> Handle(j, "execute") /\ dialogs' \in Seq(Dialog)
    BY <1>4, PushType DEF DialogKinds, ExecuteDone
  <2> QED
    BY HandleType
<1>5. ASSUME NEW j \in Job, Finish(j) PROVE CleanupTypeOK'
  BY <1>5 DEF Finish, CleanupTypeOK, JobRecord, threadRest, progressVars
<1>6. ASSUME NEW j \in Job, ExecuteEntry(j) PROVE CleanupTypeOK'
  BY <1>6 DEF ExecuteEntry, CleanupTypeOK, JobRecord, threadRest, progressVars
<1>7. ASSUME NEW j \in Job, ExecuteEnd(j) PROVE CleanupTypeOK'
  BY <1>7 DEF ExecuteEnd, CleanupTypeOK, JobRecord, threadRest, progressVars
<1> QED
  BY <1>1, <1>2, <1>3, <1>4, <1>5, <1>6, <1>7 DEF CleanupThreads

LEMMA DialogClosedType ==
    ASSUME CleanupTypeOK, DialogClosed
    PROVE  CleanupTypeOK'
<1> dialogs \in Seq(Dialog)
  BY DEF CleanupTypeOK
<1>1. dialogs # <<>> /\ Pop /\ UNCHANGED cleanupVars
  BY DEF DialogClosed, CloseDialog, TopIs, Startup!RemoveFailedRead, Startup!AddFailedRead,
         Startup!TopIs, Startup!Pop, Pop
<1>2. dialogs' \in Seq(Dialog)
  BY <1>1, PopType
<1> QED
  BY <1>1, <1>2 DEF CleanupTypeOK, cleanupVars, progressVars

LEMMA StartupClickDialogs ==
    ASSUME CleanupTypeOK, StartupClick
    PROVE  CleanupTypeOK'
<1> dialogs \in Seq(Dialog) /\ {} \in SUBSET File
  BY DEF CleanupTypeOK
<1>1. \/ UNCHANGED dialogs
      \/ Push("add failed", {}) \/ Push("remove failed", {})
  BY DEF StartupClick, Startup!ClickRefresh, Startup!AddEntry, Startup!RemoveSelected,
         Startup!Push, Push
<1>2. dialogs' \in Seq(Dialog)
  BY <1>1, PushType DEF DialogKinds
<1> QED
  BY <1>2 DEF StartupClick, CleanupTypeOK, cleanupVars, progressVars

(* A scan that is begun comes after the others. *)
LEMMA RefreshType ==
    ASSUME Startup!StartupTypeOK, Startup!Refresh
    PROVE  /\ scans' \in Seq(Startup!Scan) /\ scans' # <<>>
           /\ Len(scans') = Len(scans) + 1
           /\ scans'[Len(scans) + 1] = Startup!Begun
<1> Startup!Begun \in Startup!Scan
  BY DEF Startup!Begun, Startup!Scan
<1> QED
  BY DEF Startup!StartupTypeOK, Startup!Refresh

LEMMA StartupClickType ==
    ASSUME Startup!StartupTypeOK, StartupClick
    PROVE  Startup!StartupTypeOK'
<1> USE DEF Startup!StartupTypeOK
<1>1. CASE Startup!ClickRefresh
  BY <1>1, RefreshType DEF Startup!ClickRefresh
<1>2. CASE Startup!AddEntry
  <2>1. ASSUME NEW value \in Value, runKey' = Startup!Added(value), Startup!Refresh
        PROVE  Startup!StartupTypeOK'
    <3>1. runKey' \subseteq Value
      BY <2>1 DEF Startup!Added
    <3>2. \A v, w \in runKey' : v[1] = w[1] => v = w
      BY <2>1 DEF Startup!Added
    <3>3. Startup!IsFiniteSet(runKey')
      <4>1. IsFiniteSet({v \in runKey : v[1] # value[1]})
        BY SameSets, FS_Subset
      <4>2. IsFiniteSet({v \in runKey : v[1] # value[1]} \cup {value})
        BY <4>1, FS_AddElement
      <4> QED
        BY <2>1, <4>2, SameSets DEF Startup!Added
    <3>4. entries' = entries /\ handled' = handled
      BY <1>2 DEF Startup!AddEntry
    <3> QED
      BY <2>1, <3>1, <3>2, <3>3, <3>4, RefreshType
  <2>2. CASE UNCHANGED <<runKey, scans>>
    BY <1>2, <2>2 DEF Startup!AddEntry
  <2> QED
    BY <1>2, <2>1, <2>2 DEF Startup!AddEntry
<1>3. CASE Startup!RemoveSelected
  <2>1. runKey' \subseteq runKey /\ (Startup!Refresh \/ UNCHANGED scans)
        /\ UNCHANGED <<entries, handled>>
    BY <1>3 DEF Startup!RemoveSelected
  <2>2. Startup!IsFiniteSet(runKey')
    BY <2>1, SameSets, FS_Subset
  <2>3. CASE Startup!Refresh
    BY <2>1, <2>3, <2>2, RefreshType
  <2>4. CASE UNCHANGED scans
    BY <2>1, <2>4, <2>2
  <2> QED
    BY <2>1, <2>3, <2>4
<1> QED
  BY <1>1, <1>2, <1>3 DEF StartupClick

LEMMA ScanStepType ==
    ASSUME Startup!StartupTypeOK, NEW i \in DOMAIN scans, NEW scan \in Startup!Scan,
           scans' = [scans EXCEPT ![i] = scan]
    PROVE  /\ scans' \in Seq(Startup!Scan) /\ scans' # <<>> /\ Len(scans') = Len(scans)
           /\ scans'[i] = scan
           /\ \A k \in DOMAIN scans \ {i} : scans'[k] = scans[k]
  BY DEF Startup!StartupTypeOK

(* What a step of reading the key makes of a scan. *)
Read(before, after) ==
    \/ \E value \in runKey : after = [before EXCEPT !.found = @ \cup {value}]
    \/ \E ok \in BOOLEAN :
          /\ ok => Cardinality(before.found) >= Cardinality(runKey)
          /\ after = [before EXCEPT !.at = "waiting", !.ok = ok]

LEMMA ReadIs ==
    ASSUME Startup!StartupTypeOK, NEW i \in DOMAIN scans, Startup!ReadRunKey(i)
    PROVE  \E scan : scans' = [scans EXCEPT ![i] = scan] /\ Read(scans[i], scan)
<1>0. scans[i] \in Startup!Scan
  BY DEF Startup!StartupTypeOK
<1>1. CASE \E value \in runKey : scans' = [scans EXCEPT ![i].found = @ \cup {value}]
  <2>1. PICK value \in runKey : scans' = [scans EXCEPT ![i].found = @ \cup {value}]
    BY <1>1
  <2>2. scans' = [scans EXCEPT ![i] = [scans[i] EXCEPT !.found = @ \cup {value}]]
    BY <2>1
  <2> QED
    BY <2>2, Zenon DEF Read
<1>2. CASE \E ok \in BOOLEAN :
             /\ ok => Cardinality(scans[i].found) >= Cardinality(runKey)
             /\ scans' = [scans EXCEPT ![i].at = "waiting", ![i].ok = ok]
  <2>1. PICK ok \in BOOLEAN :
             /\ ok => Cardinality(scans[i].found) >= Cardinality(runKey)
             /\ scans' = [scans EXCEPT ![i].at = "waiting", ![i].ok = ok]
    BY <1>2
  <2>3. scans' = [scans EXCEPT ![i] = [scans[i] EXCEPT !.at = "waiting", !.ok = ok]]
    BY <2>1, <1>0 DEF Startup!Scan
  <2> QED
    BY <2>1, <2>3, Zenon DEF Read
<1> QED
  <2>1. \/ \E value \in runKey : scans' = [scans EXCEPT ![i].found = @ \cup {value}]
        \/ \E ok \in BOOLEAN :
              /\ ok => Cardinality(scans[i].found) >= Cardinality(runKey)
              /\ scans' = [scans EXCEPT ![i].at = "waiting", ![i].ok = ok]
    BY SameSets DEF Startup!ReadRunKey
  <2> QED
    BY <1>1, <1>2, <2>1

LEMMA ReadType ==
    ASSUME Startup!StartupTypeOK, NEW before \in Startup!Scan, NEW after, Read(before, after)
    PROVE  after \in Startup!Scan
<1> runKey \subseteq Startup!Entry
  BY DEF Startup!StartupTypeOK, Startup!Entry
<1>1. CASE \E value \in runKey : after = [before EXCEPT !.found = @ \cup {value}]
  BY <1>1 DEF Startup!Scan
<1>2. CASE \E ok \in BOOLEAN : after = [before EXCEPT !.at = "waiting", !.ok = ok]
  BY <1>2 DEF Startup!Scan
<1> QED
  BY <1>1, <1>2, Zenon DEF Read

(* A step of reading keeps what was read in the key; the end is the key. *)
LEMMA ReadAgrees ==
    ASSUME Startup!StartupTypeOK, NEW before \in Startup!Scan, before.found \subseteq runKey,
           NEW after, Read(before, after)
    PROVE  /\ after.found \subseteq runKey
           /\ after.at = before.at \/ (after.ok => runKey \subseteq after.found)
<1>1. CASE \E value \in runKey : after = [before EXCEPT !.found = @ \cup {value}]
  BY <1>1 DEF Startup!Scan
<1>2. CASE \E ok \in BOOLEAN :
             /\ ok => Cardinality(before.found) >= Cardinality(runKey)
             /\ after = [before EXCEPT !.at = "waiting", !.ok = ok]
  <2>1. after.found = before.found /\ (after.ok => Cardinality(before.found) >= Cardinality(runKey))
    BY <1>2 DEF Startup!Scan
  <2>2. IsFiniteSet(runKey)
    BY SameSets DEF Startup!StartupTypeOK
  <2>3. Cardinality(before.found) >= Cardinality(runKey) => before.found = runKey
    BY <2>2, FS_Subset, FS_CardinalityType
  <2> QED
    BY <2>1, <2>3
<1> QED
  BY <1>1, <1>2 DEF Read

LEMMA StartupThreadsType ==
    ASSUME Startup!StartupTypeOK, StartupThreads
    PROVE  Startup!StartupTypeOK'
<1> SUFFICES ASSUME NEW i \in DOMAIN scans,
                    \/ Startup!ReadRunKey(i) \/ Startup!QueryScheduledTasks(i)
                    \/ Startup!ScanReady(i)
             PROVE  Startup!StartupTypeOK'
  BY DEF StartupThreads
<1>0. scans[i] \in Startup!Scan
  BY DEF Startup!StartupTypeOK
<1>1. CASE Startup!ReadRunKey(i)
  <2>1. PICK scan : scans' = [scans EXCEPT ![i] = scan] /\ Read(scans[i], scan)
    BY <1>1, ReadIs
  <2>2. scan \in Startup!Scan
    BY <1>0, <2>1, ReadType
  <2> QED
    BY <1>1, <2>1, <2>2, ScanStepType DEF Startup!ReadRunKey, Startup!StartupTypeOK
<1>2. CASE Startup!QueryScheduledTasks(i)
  <2>1. PICK tasks \in {{}, Task} : scans' =
            [scans EXCEPT ![i] = [scans[i] EXCEPT !.at = "posted", !.found = @ \cup tasks]]
    BY <1>2 DEF Startup!QueryScheduledTasks
  <2>2. [scans[i] EXCEPT !.at = "posted", !.found = @ \cup tasks] \in Startup!Scan
    BY <1>0 DEF Startup!Scan, Startup!Entry
  <2> QED
    BY <1>2, <2>1, <2>2, ScanStepType DEF Startup!QueryScheduledTasks, Startup!StartupTypeOK
<1>3. CASE Startup!ScanReady(i)
  <2>1. scans' = [scans EXCEPT ![i] = [scans[i] EXCEPT !.at = "handled"]]
    BY <1>3 DEF Startup!ScanReady
  <2>2. [scans[i] EXCEPT !.at = "handled"] \in Startup!Scan /\ scans[i].found \subseteq Startup!Entry
    BY <1>0 DEF Startup!Scan
  <2>3. entries' \subseteq Startup!Entry /\ handled' \in 0 .. Len(scans)
    BY <1>3, <2>2 DEF Startup!ScanReady, Startup!StartupTypeOK
  <2> QED
    BY <1>3, <2>1, <2>2, <2>3, ScanStepType DEF Startup!ScanReady, Startup!StartupTypeOK
<1> QED
  BY <1>1, <1>2, <1>3

LEMMA SaveType ==
    ASSUME Settings!ConfigTypeOK, NEW c \in Settings!Config, Settings!SaveConfig(c)
    PROVE  file'.whole => file'.values \in Settings!Config
  BY DEF Settings!ConfigTypeOK, Settings!SaveConfig

(* What the user chooses on the settings page is a configuration, saved somehow. *)
LEMMA SettingsStep ==
    ASSUME Settings!ConfigTypeOK, Settings!ConfigNext, look = Settings!LookOf(config)
    PROVE  /\ config' \in Settings!Config
           /\ chosen' = chosen \cup {config'}
           /\ Settings!SaveConfig(config')
           /\ look' = Settings!LookOf(config')
           /\ slider' \in 29 .. 100
<1> USE DEF Settings!ConfigTypeOK
<1>1. CASE Settings!SetTheme
  <2> PICK theme \in Theme : Settings!Choose([config EXCEPT !.theme = theme])
    BY <1>1 DEF Settings!SetTheme
  <2> config' = [config EXCEPT !.theme = theme]
    BY DEF Settings!Choose
  <2> config' \in Settings!Config
    BY DEF Settings!Config
  <2> look' = Settings!LookOf(config')
    BY <1>1 DEF Settings!SetTheme, Settings!LookOf, Settings!Config
  <2> QED
    BY <1>1 DEF Settings!SetTheme, Settings!Choose
<1>2. CASE Settings!SetAlwaysOnTop
  <2> Settings!Choose([config EXCEPT !.always_on_top = ~@])
    BY <1>2 DEF Settings!SetAlwaysOnTop
  <2> config' = [config EXCEPT !.always_on_top = ~@]
    BY DEF Settings!Choose
  <2> config' \in Settings!Config
    BY DEF Settings!Config
  <2> look' = Settings!LookOf(config')
    BY <1>2 DEF Settings!SetAlwaysOnTop, Settings!LookOf, Settings!Config
  <2> QED
    BY <1>2 DEF Settings!SetAlwaysOnTop, Settings!Choose
<1>3. CASE Settings!SetOpacity
  <2> PICK opacity \in Opacity :
          /\ slider' = opacity
          /\ config' = [config EXCEPT !.opacity = opacity]
          /\ chosen' = chosen \cup {config'}
          /\ Settings!SaveConfig(config')
    BY <1>3 DEF Settings!SetOpacity
  <2> config' \in Settings!Config /\ slider' \in 29 .. 100
    BY MainWindowAssumption DEF Settings!Config
  <2> look' = Settings!LookOf(config')
    BY <1>3 DEF Settings!SetOpacity, Settings!LookOf, Settings!Config
  <2> QED
    OBVIOUS
<1>4. CASE Settings!ApplyQuarantineDir
  <2> PICK folder \in Folder : Settings!Choose([config EXCEPT !.quarantine_dir = {folder}])
    BY <1>4 DEF Settings!ApplyQuarantineDir
  <2> config' = [config EXCEPT !.quarantine_dir = {folder}]
    BY DEF Settings!Choose
  <2> config' \in Settings!Config
    BY DEF Settings!Config
  <2> look' = Settings!LookOf(config') /\ slider' = slider
    BY <1>4 DEF Settings!ApplyQuarantineDir, Settings!LookOf, Settings!Config
  <2> QED
    BY DEF Settings!Choose
<1> QED
  BY <1>1, <1>2, <1>3, <1>4 DEF Settings!ConfigNext

LEMMA DefaultType == Settings!Default \in Settings!Config
  BY MainWindowAssumption DEF Settings!Default, Settings!Config, Settings!None

LEMMA LoadType ==
    ASSUME Settings!ConfigTypeOK, Settings!Load
    PROVE  /\ config' \in Settings!Config /\ config' = Settings!LoadConfig(file)
           /\ look' = Settings!LookOf(config')
           /\ slider' \in 29 .. 100 /\ UNCHANGED <<file, chosen>>
<1>1. config' \in Settings!Config
  BY DefaultType DEF Settings!Load, Settings!LoadConfig, Settings!ConfigTypeOK
<1>2. Settings!Percent(config'.opacity) \in 29 .. 100
  <2> config'.opacity \in 30 .. 100
    BY <1>1, MainWindowAssumption DEF Settings!Config
  <2> QED
    BY DEF Settings!Percent
<1> QED
  BY <1>1, <1>2 DEF Settings!Load

-----------------------------------------------------------------------------
(* The inductive invariant *)

(* Threads that have not been started have nothing to delete. *)
JobsInOrder == \A j \in Job : j > worker => jobs[j].todo = {}

(* The configuration in use, the file and the window are of one time each, and
the defaults can always be fallen back on. *)
ConfigKept == ConfigIsWhole /\ Settings!Default \in chosen

(* The newest scan agrees with the key as far as it has read it, unless a message
stands before the next scan; the table shows the result that was handled last. *)
ScansAgree ==
    /\ LET newest == scans[Len(scans)] IN
          Startup!NoMessage =>
              /\ newest.found \cap Value \subseteq runKey
              /\ newest.at = "reading" => newest.found \subseteq runKey
              /\ newest.at # "reading" /\ newest.ok => runKey \subseteq newest.found
    /\ handled = Len(scans) =>
          scans[handled].at = "handled" /\ entries = scans[handled].found

Inv == TypeOK /\ JobsInOrder /\ StopHasATarget /\ ConfigKept /\ ScansAgree

LEMMA InitInv == Init => Inv
<1> SUFFICES ASSUME Init PROVE Inv
  OBVIOUS
<1>1. TypeOK
  BY TypeInit
<1>2. JobsInOrder
  BY DEF Init, CleanupInit, JobsInOrder, Idle
<1>3. StopHasATarget
  BY DEF Init, CleanupInit, StopHasATarget
<1>4. ConfigKept
  BY DEF Init, Settings!ConfigInit, ConfigKept, ConfigIsWhole, Settings!ConfigIsWhole,
         Settings!LoadConfig
<1>5. ScansAgree
  BY DEF Init, Startup!StartupInit, ScansAgree, Startup!Begun
<1> QED
  BY <1>1, <1>2, <1>3, <1>4, <1>5 DEF Inv

LEMMA MainType ==
    ASSUME TypeOK, Main
    PROVE  CleanupTypeOK' /\ Startup!StartupTypeOK'
<1>1. Idle \in JobRecord
  BY DEF Idle, JobRecord, Kinds
<1>2. jobs' \in [Job -> JobRecord] /\ dialogs' \in Seq(Dialog)
  BY <1>1 DEF Main
<1>3. worker' \in 0 .. MaxJobs
  BY CleanupPageAssumption DEF Main
<1>4. /\ disk' \subseteq File /\ folders' \subseteq File
      /\ bar' \in BOOLEAN /\ stop' \in {"hidden", "on", "off"}
  BY Zenon DEF Main, TypeOK, CleanupTypeOK
<1>5. Startup!Begun \in Startup!Scan
  BY DEF Startup!Begun, Startup!Scan
<1>6. Startup!StartupTypeOK'
  BY <1>5 DEF Main, TypeOK, Startup!StartupTypeOK
<1> QED
  BY <1>2, <1>3, <1>4, <1>6 DEF CleanupTypeOK

LEMMA ClickType ==
    ASSUME TypeOK, Click
    PROVE  running' \in BOOLEAN /\ clicks' \in 0 .. MaxClicks
<1>1. running' \in BOOLEAN
  BY Zenon DEF TypeOK, Click
<1>2. clicks' \in 0 .. MaxClicks
  BY MainWindowAssumption DEF TypeOK, Click
<1> QED
  BY <1>1, <1>2

LEMMA LookType ==
    ASSUME NEW c \in Settings!Config
    PROVE  Settings!LookOf(c) \in
              [theme : Theme, always_on_top : BOOLEAN, opacity : Opacity]
  BY DEF Settings!Config, Settings!LookOf

LEMMA TypeStep ==
    ASSUME Inv, [Next]_vars
    PROVE  TypeOK'
<1> USE DEF TypeOK
<1> TypeOK /\ look = Settings!LookOf(config)
  BY DEF Inv, ConfigKept, ConfigIsWhole, Settings!ConfigIsWhole
<1>a. ASSUME UNCHANGED startupVars PROVE Startup!StartupTypeOK'
  BY <1>a DEF startupVars, Startup!StartupTypeOK
<1>b. ASSUME UNCHANGED configVars PROVE Settings!ConfigTypeOK'
  BY <1>b DEF configVars, Settings!ConfigTypeOK
<1>c. ASSUME UNCHANGED processVars PROVE running' \in BOOLEAN /\ clicks' \in 0 .. MaxClicks
  BY <1>c DEF processVars
<1>d. ASSUME UNCHANGED <<cleanupVars, dialogs>> PROVE CleanupTypeOK'
  BY <1>d DEF cleanupVars, progressVars, CleanupTypeOK
<1>1. CASE CleanupClick
  BY <1>1, <1>a, <1>b, CleanupClickType, ClickType DEF CleanupClick
<1>2. CASE StartupClick
  BY <1>2, <1>b, StartupClickDialogs, StartupClickType, ClickType DEF StartupClick
<1>3. CASE SettingsClick
  <2>1. Settings!ConfigTypeOK'
    <3>1. Settings!ConfigNext
      BY <1>3 DEF SettingsClick
    <3>2. look' \in [theme : Theme, always_on_top : BOOLEAN, opacity : Opacity]
      BY <3>1, SettingsStep, LookType
    <3> QED
      BY <3>1, <3>2, SettingsStep, SaveType DEF Settings!ConfigTypeOK
  <2> QED
    BY <1>3, <2>1, <1>a, <1>d, ClickType DEF SettingsClick
<1>4. CASE DialogClosed
  <2>1. Startup!StartupTypeOK'
    <3>1. CASE UNCHANGED startupVars
      BY <3>1, <1>a
    <3>2. CASE Startup!RemoveFailedRead
      <4>1. Startup!StartupTypeOK
        OBVIOUS
      <4>2. Startup!Refresh /\ UNCHANGED <<runKey, entries, handled>>
        BY <3>2 DEF Startup!RemoveFailedRead
      <4>3. /\ scans' \in Seq(Startup!Scan) /\ scans' # <<>>
            /\ Len(scans') = Len(scans) + 1
        BY <4>1, <4>2, RefreshType
      <4> QED
        BY <4>1, <4>2, <4>3 DEF Startup!StartupTypeOK
    <3>3. CASE Startup!AddFailedRead
      BY <3>3, <1>a DEF Startup!AddFailedRead, Startup!startupVars, startupVars
    <3> QED
      BY <1>4, <3>1, <3>2, <3>3 DEF DialogClosed
  <2> QED
    BY <1>4, <2>1, <1>b, <1>c, DialogClosedType DEF DialogClosed
<1>5. CASE CleanupThreads
  BY <1>5, <1>a, <1>b, <1>c, CleanupThreadsType DEF CleanupThreads
<1>6. CASE StartupThreads
  <2>1. UNCHANGED dialogs
    BY <1>6 DEF StartupThreads, Startup!ReadRunKey, Startup!QueryScheduledTasks,
                Startup!ScanReady
  <2> QED
    BY <1>6, <2>1, <1>b, <1>c, <1>d, StartupThreadsType DEF StartupThreads
<1>7. CASE Quit
  <2>1. running' \in BOOLEAN /\ clicks' = clicks
    BY <1>7, Zenon DEF Quit
  <2> QED
    BY <1>7, <2>1, <1>a, <1>b, <1>d DEF Quit
<1>8. CASE Main
  <2>1. Settings!ConfigTypeOK'
    <3>1. Settings!Load
      BY <1>8 DEF Main
    <3>2. look' \in [theme : Theme, always_on_top : BOOLEAN, opacity : Opacity]
      BY <3>1, LoadType, LookType
    <3> QED
      BY <3>1, <3>2, LoadType DEF Settings!ConfigTypeOK
  <2>2. running' \in BOOLEAN
    BY <1>8, Zenon DEF Main
  <2>3. clicks' \in 0 .. MaxClicks
    BY <1>8, MainWindowAssumption DEF Main
  <2> QED
    BY <1>8, <2>1, <2>2, <2>3, MainType
<1>9. CASE UNCHANGED vars
  BY <1>9, <1>a, <1>b, <1>c, <1>d DEF vars
<1> QED
  BY <1>1, <1>2, <1>3, <1>4, <1>5, <1>6, <1>7, <1>8, <1>9 DEF Next

(* What a thread or a handler of the cleanup page can do to the jobs. *)
LEMMA JobStep ==
    ASSUME CleanupTypeOK, CleanupThreads
    PROVE  /\ worker' = worker
           /\ \A i \in Job : /\ jobs'[i].todo \subseteq jobs[i].todo
                             /\ jobs'[i].kind = jobs[i].kind
                             /\ jobs'[i].cancelled = jobs[i].cancelled
           /\ stop' = "on" =>
                 /\ stop = "on"
                 /\ \A i \in Job : jobs[i].at \in {"running", "posted"}
                                     => jobs'[i].at \in {"running", "posted"}
<1>0. jobs \in [Job -> JobRecord]
  BY DEF CleanupTypeOK
<1>1. ASSUME NEW j \in Job, NEW k, Handle(j, k)
      PROVE  /\ worker' = worker /\ stop' # "on"
             /\ \A i \in Job : /\ jobs'[i].todo \subseteq jobs[i].todo
                               /\ jobs'[i].kind = jobs[i].kind
                               /\ jobs'[i].cancelled = jobs[i].cancelled
  BY <1>0, <1>1 DEF Handle, EndProgress, JobRecord
<1>2. ASSUME NEW j \in Job, Finish(j) \/ ExecuteEntry(j) \/ ExecuteEnd(j)
      PROVE  /\ worker' = worker /\ stop' = stop
             /\ \A i \in Job : /\ jobs'[i].todo \subseteq jobs[i].todo
                               /\ jobs'[i].kind = jobs[i].kind
                               /\ jobs'[i].cancelled = jobs[i].cancelled
                               /\ jobs[i].at \in {"running", "posted"}
                                     => jobs'[i].at \in {"running", "posted"}
  <2> worker' = worker /\ stop' = stop
    BY <1>2 DEF Finish, ExecuteEntry, ExecuteEnd, threadRest, progressVars
  <2>1. CASE Finish(j)
    BY <1>0, <2>1 DEF Finish, JobRecord
  <2>2. CASE ExecuteEntry(j)
    BY <1>0, <2>2 DEF ExecuteEntry, JobRecord
  <2>3. CASE ExecuteEnd(j)
    BY <1>0, <2>3 DEF ExecuteEnd, JobRecord
  <2> QED
    BY <1>2, <2>1, <2>2, <2>3
<1>3. PICK j \in Job : (\E k \in Kinds : Handle(j, k)) \/ Finish(j) \/ ExecuteEntry(j) \/ ExecuteEnd(j)
  BY DEF CleanupThreads, DuplicateFilesReady, ImageScanReady, AnalyzeReady, ExecuteDone, Kinds
<1>4. CASE \E k \in Kinds : Handle(j, k)
  <2> PICK k \in Kinds : Handle(j, k)
    BY <1>4
  <2>1. /\ worker' = worker /\ stop' # "on"
        /\ \A i \in Job : /\ jobs'[i].todo \subseteq jobs[i].todo
                          /\ jobs'[i].kind = jobs[i].kind
                          /\ jobs'[i].cancelled = jobs[i].cancelled
    BY <1>1
  <2> QED
    BY <2>1
<1>5. CASE Finish(j) \/ ExecuteEntry(j) \/ ExecuteEnd(j)
  <2>1. /\ worker' = worker /\ stop' = stop
        /\ \A i \in Job : /\ jobs'[i].todo \subseteq jobs[i].todo
                          /\ jobs'[i].kind = jobs[i].kind
                          /\ jobs'[i].cancelled = jobs[i].cancelled
                          /\ jobs[i].at \in {"running", "posted"}
                                => jobs'[i].at \in {"running", "posted"}
    BY <1>2, <1>5
  <2> QED
    BY <2>1
<1> QED
  BY <1>3, <1>4, <1>5

(* What a click on the cleanup page can do to the jobs. *)
LEMMA JobClick ==
    ASSUME CleanupTypeOK, CleanupClick
    PROVE  \/ UNCHANGED <<jobs, worker, stop>>
           \/ \E k \in Kinds, ps \in SUBSET File : Start(k, ps, {})
           \/ Confirmed /\ Start("execute", Last(dialogs).paths, Below(Last(dialogs).paths))
           \/ StopClicked
<1> folders \in SUBSET File
  BY DEF CleanupTypeOK
<1>1. CASE BrowseForDuplicateFiles
  <2> PICK f \in File : Start("files", {f}, {})
    BY <1>1 DEF BrowseForDuplicateFiles
  <2> {f} \in SUBSET File /\ "files" \in Kinds
    BY DEF Kinds
  <2> QED
    BY Zenon
<1>2. CASE AddImageFolder \/ RemoveImageFolder
  BY <1>2 DEF AddImageFolder, RemoveImageFolder, progressVars
<1>3. CASE StartImageScan
  <2>1. UNCHANGED <<jobs, worker, stop>> \/ Start("images", folders, {})
    BY <1>3 DEF StartImageScan, progressVars
  <2>2. "images" \in Kinds
    BY DEF Kinds
  <2> QED
    BY <2>1, <2>2, Zenon
<1>4. CASE AnalyzeDroppedPath
  <2> PICK f \in File : Start("analyze", {f}, {})
    BY <1>4 DEF AnalyzeDroppedPath
  <2> {f} \in SUBSET File /\ "analyze" \in Kinds
    BY DEF Kinds
  <2> QED
    BY Zenon
<1>5. CASE Confirmed
  BY <1>5 DEF Confirmed
<1> QED
  BY <1>1, <1>2, <1>3, <1>4, <1>5 DEF CleanupClick

LEMMA JobsInOrderStep ==
    ASSUME Inv, [Next]_vars
    PROVE  JobsInOrder'
<1> CleanupTypeOK /\ JobsInOrder
  BY DEF Inv, TypeOK
<1> USE DEF JobsInOrder
<1>1. CASE CleanupClick
  <2>1. CASE UNCHANGED <<jobs, worker, stop>>
    BY <2>1
  <2>2. ASSUME NEW k, NEW ps, NEW t, Start(k, ps, t) PROVE JobsInOrder'
    BY <2>2, CleanupPageAssumption DEF Start, Job, CleanupTypeOK
  <2>3. CASE StopClicked
    BY <2>3 DEF StopClicked, CleanupTypeOK, JobRecord
  <2> QED
    BY <1>1, <2>1, <2>2, <2>3, JobClick
<1>2. CASE CleanupThreads
  BY <1>2, JobStep
<1>3. CASE Main
  BY <1>3 DEF Main, Idle
<1>4. CASE UNCHANGED cleanupVars
  BY <1>4 DEF cleanupVars, progressVars
<1> QED
  BY <1>1, <1>2, <1>3, <1>4
  DEF Next, StartupClick, SettingsClick, DialogClosed, CloseDialog, StartupThreads, Quit, vars

LEMMA StopStep ==
    ASSUME Inv, [Next]_vars
    PROVE  StopHasATarget'
<1> CleanupTypeOK /\ StopHasATarget
  BY DEF Inv, TypeOK
<1> USE DEF StopHasATarget
<1>1. CASE CleanupClick
  <2>1. CASE UNCHANGED <<jobs, worker, stop>>
    BY <2>1
  <2>2. ASSUME NEW k, NEW ps, NEW t, Start(k, ps, t) PROVE StopHasATarget'
    BY <2>2, CleanupPageAssumption DEF Start, StartProgress, Job, CleanupTypeOK
  <2>3. CASE StopClicked
    BY <2>3 DEF StopClicked
  <2> QED
    BY <1>1, <2>1, <2>2, <2>3, JobClick
<1>2. CASE CleanupThreads
  <2> worker # 0 => worker \in Job
    BY DEF CleanupTypeOK, Job
  <2> QED
    BY <1>2, JobStep
<1>3. CASE Main
  BY <1>3 DEF Main
<1>4. CASE UNCHANGED cleanupVars
  BY <1>4 DEF cleanupVars, progressVars
<1> QED
  BY <1>1, <1>2, <1>3, <1>4
  DEF Next, StartupClick, SettingsClick, DialogClosed, CloseDialog, StartupThreads, Quit, vars

LEMMA ConfigStep ==
    ASSUME Inv, [Next]_vars
    PROVE  ConfigKept'
<1> Settings!ConfigTypeOK /\ ConfigKept
  BY DEF Inv, TypeOK
<1> USE DEF ConfigKept, ConfigIsWhole, Settings!ConfigIsWhole
<1>1. CASE SettingsClick
  <2>1. Settings!ConfigNext
    BY <1>1 DEF SettingsClick
  <2>2. /\ chosen' = chosen \cup {config'} /\ Settings!SaveConfig(config')
        /\ look' = Settings!LookOf(config')
    BY <2>1, SettingsStep
  <2>3. Settings!LoadConfig(file)' \in chosen'
    BY <2>2 DEF Settings!SaveConfig, Settings!LoadConfig
  <2> QED
    BY <2>2, <2>3 DEF Settings!LookOf
<1>2. CASE Main
  <2>1. Settings!Load
    BY <1>2 DEF Main
  <2> QED
    BY <2>1, LoadType DEF Settings!LoadConfig, Settings!LookOf
<1>3. CASE UNCHANGED configVars
  BY <1>3 DEF configVars, Settings!LoadConfig, Settings!LookOf
<1> QED
  BY <1>1, <1>2, <1>3
  DEF Next, CleanupClick, StartupClick, DialogClosed, CleanupThreads, StartupThreads, Quit, vars

LEMMA PushMessage ==
    ASSUME dialogs \in Seq(Dialog), NEW k, NEW ps, Push(k, ps)
    PROVE  /\ Startup!NoMessage' => Startup!NoMessage
           /\ k = "remove failed" => ~Startup!NoMessage'
<1> DEFINE d == [kind |-> k, paths |-> ps]
<1>1. /\ Len(dialogs') = Len(dialogs) + 1 /\ dialogs'[Len(dialogs) + 1] = d
      /\ \A i \in 1 .. Len(dialogs) : dialogs'[i] = dialogs[i]
      /\ DOMAIN dialogs = 1 .. Len(dialogs) /\ DOMAIN dialogs' = 1 .. Len(dialogs) + 1
      /\ Len(dialogs) \in Nat
  BY DEF Push
<1>2. ASSUME Startup!NoMessage', NEW i \in DOMAIN dialogs
      PROVE  dialogs[i].kind # "remove failed"
  <2> i \in DOMAIN dialogs' /\ dialogs'[i] = dialogs[i]
    BY <1>1
  <2> QED
    BY <1>2 DEF Startup!NoMessage
<1>3. ASSUME k = "remove failed" PROVE ~Startup!NoMessage'
  <2> Len(dialogs) + 1 \in DOMAIN dialogs' /\ dialogs'[Len(dialogs) + 1].kind = k
    BY <1>1
  <2> QED
    BY <1>3 DEF Startup!NoMessage
<1> QED
  BY <1>2, <1>3 DEF Startup!NoMessage

LEMMA LastOrBefore ==
    ASSUME NEW n \in Nat, NEW i \in 1 .. n
    PROVE  i = n \/ i \in 1 .. n - 1
  OBVIOUS

LEMMA PopMessage ==
    ASSUME dialogs \in Seq(Dialog), dialogs # <<>>, Pop,
           Last(dialogs).kind # "remove failed"
    PROVE  Startup!NoMessage' => Startup!NoMessage
<1>1. /\ dialogs' \in Seq(Dialog) /\ Len(dialogs') = Len(dialogs) - 1
      /\ \A i \in 1 .. Len(dialogs) - 1 : dialogs'[i] = dialogs[i]
  BY PopType
<1>2. Len(dialogs) \in Nat /\ Len(dialogs) # 0 /\ DOMAIN dialogs = 1 .. Len(dialogs)
  BY LenProperties, EmptySeq
<1>3. DOMAIN dialogs' = 1 .. Len(dialogs')
  BY <1>1, LenProperties
<1>4. Last(dialogs) = dialogs[Len(dialogs)]
  BY LastType
<1>5. ASSUME Startup!NoMessage', NEW i \in DOMAIN dialogs PROVE dialogs[i].kind # "remove failed"
  <2>1. CASE i = Len(dialogs)
    BY <1>4, <2>1
  <2>2. CASE i \in 1 .. Len(dialogs) - 1
    <3> i \in DOMAIN dialogs' /\ dialogs'[i] = dialogs[i]
      BY <1>1, <1>3, <2>2
    <3> QED
      BY <1>5 DEF Startup!NoMessage
  <2>3. i = Len(dialogs) \/ i \in 1 .. Len(dialogs) - 1
    BY <1>2, LastOrBefore, Zenon
  <2> QED
    BY <2>1, <2>2, <2>3
<1> QED
  BY <1>5 DEF Startup!NoMessage

(* Only the message about values that could not be removed keeps the page from
reading the key again; no step of another page closes it. *)
LEMMA CleanupMessage ==
    ASSUME CleanupTypeOK, CleanupClick \/ CleanupThreads, Startup!NoMessage'
    PROVE  Startup!NoMessage
<1> dialogs \in Seq(Dialog)
  BY DEF CleanupTypeOK
<1>1. \/ UNCHANGED dialogs \/ (\E k, ps : Push(k, ps)) \/ Confirmed
  <2>1. CASE CleanupClick
    BY <2>1 DEF CleanupClick, BrowseForDuplicateFiles, AddImageFolder, RemoveImageFolder,
                StartImageScan, AnalyzeDroppedPath, StopClicked
  <2>2. CASE CleanupThreads
    BY <2>2, Zenon DEF CleanupThreads, DuplicateFilesReady, ImageScanReady, AnalyzeReady,
                ExecuteDone, Finish, ExecuteEntry, ExecuteEnd, threadRest
  <2> QED
    BY <2>1, <2>2
<1>2. CASE UNCHANGED dialogs
  BY <1>2 DEF Startup!NoMessage
<1>3. CASE \E k, ps : Push(k, ps)
  BY <1>3, PushMessage
<1>4. CASE Confirmed
  <2> dialogs # <<>> /\ Last(dialogs).kind = "confirm" /\ Pop
    BY <1>4 DEF Confirmed, TopIs
  <2> QED
    BY PopMessage
<1> QED
  BY <1>1, <1>2, <1>3, <1>4

LEMMA ScansKept ==
    ASSUME ScansAgree, UNCHANGED startupVars, Startup!NoMessage' => Startup!NoMessage
    PROVE  ScansAgree'
  BY DEF ScansAgree, startupVars

(* A scan that has just begun has read nothing. *)
LEMMA RefreshAgrees ==
    ASSUME Startup!StartupTypeOK, Startup!Refresh, handled' = handled
    PROVE  ScansAgree'
<1>1. /\ scans'[Len(scans')].at = "reading"
      /\ scans'[Len(scans')].found = {}
  BY RefreshType DEF Startup!Begun
<1>2. handled' # Len(scans')
  BY RefreshType DEF Startup!StartupTypeOK
<1> QED
  BY <1>1, <1>2 DEF ScansAgree

LEMMA ScanThreadAgrees ==
    ASSUME Inv, StartupThreads
    PROVE  ScansAgree'
<1> Startup!StartupTypeOK /\ ScansAgree
  BY DEF Inv, TypeOK
<1> PICK i \in DOMAIN scans :
        Startup!ReadRunKey(i) \/ Startup!QueryScheduledTasks(i) \/ Startup!ScanReady(i)
  BY DEF StartupThreads
<1> DEFINE n == Len(scans)
<1>0. n \in Nat \ {0} /\ DOMAIN scans = 1 .. n /\ n \in DOMAIN scans
      /\ scans[i] \in Startup!Scan /\ handled \in 0 .. n
  BY DEF Startup!StartupTypeOK
<1>a. UNCHANGED <<runKey, dialogs>>
  BY DEF Startup!ReadRunKey, Startup!QueryScheduledTasks, Startup!ScanReady
<1>1. CASE Startup!ReadRunKey(i)
  <2>1. PICK scan : scans' = [scans EXCEPT ![i] = scan] /\ Read(scans[i], scan)
    BY <1>1, ReadIs
  <2>2. scan \in Startup!Scan
    BY <1>0, <2>1, ReadType
  <2>3. /\ Len(scans') = n
        /\ scans'[i] = scan
        /\ \A k \in DOMAIN scans \ {i} : scans'[k] = scans[k]
    BY <2>1, <2>2, ScanStepType
  <2>4. scans[i].at = "reading" /\ UNCHANGED <<entries, handled>>
    BY <1>1 DEF Startup!ReadRunKey
  <2>5. Startup!NoMessage' = Startup!NoMessage
    BY <1>a DEF Startup!NoMessage
  <2>6. handled' = n => n # i /\ scans'[n] = scans[n]
    BY <1>0, <2>3, <2>4 DEF ScansAgree
  <2>7. CASE i = n
    <3>1. ASSUME Startup!NoMessage
          PROVE  /\ scan.found \subseteq runKey
                 /\ scan.at = "reading" \/ (scan.ok => runKey \subseteq scan.found)
      BY <1>0, <2>1, <2>4, <2>7, <3>1, ReadAgrees DEF ScansAgree
    <3>2. Len(scans') = n /\ scans'[n] = scan /\ runKey' = runKey /\ handled' # n
      BY <1>a, <2>3, <2>6, <2>7
    <3> QED
      BY <2>5, <3>1, <3>2 DEF ScansAgree
  <2>8. CASE i # n
    <3> scans'[n] = scans[n]
      BY <1>0, <2>3, <2>8
    <3> QED
      BY <1>0, <1>a, <2>3, <2>4, <2>5 DEF ScansAgree
  <2> QED
    BY <2>7, <2>8
<1>2. CASE Startup!QueryScheduledTasks(i)
  <2>1. PICK tasks \in {{}, Task} : scans' =
            [scans EXCEPT ![i] = [scans[i] EXCEPT !.at = "posted", !.found = @ \cup tasks]]
    BY <1>2 DEF Startup!QueryScheduledTasks
  <2>2. [scans[i] EXCEPT !.at = "posted", !.found = @ \cup tasks] \in Startup!Scan
    BY <1>0 DEF Startup!Scan, Startup!Entry
  <2>3. /\ Len(scans') = n
        /\ scans'[i] = [scans[i] EXCEPT !.at = "posted", !.found = @ \cup tasks]
        /\ \A k \in DOMAIN scans \ {i} : scans'[k] = scans[k]
    BY <2>1, <2>2, ScanStepType
  <2>4. scans[i].at = "waiting" /\ UNCHANGED <<entries, handled>>
    BY <1>2 DEF Startup!QueryScheduledTasks
  <2>5. /\ scans'[i].found \cap Value = scans[i].found \cap Value
        /\ scans[i].found \subseteq scans'[i].found
        /\ scans'[i].ok = scans[i].ok /\ scans'[i].at = "posted"
    BY <1>0, <2>3, MainWindowAssumption DEF Startup!Scan
  <2>6. Startup!NoMessage' = Startup!NoMessage
    BY <1>a DEF Startup!NoMessage
  <2>7. CASE i = n
    <3>1. Len(scans') = n /\ runKey' = runKey /\ handled' # n
      BY <1>0, <1>a, <2>3, <2>4, <2>7 DEF ScansAgree
    <3>2. ASSUME Startup!NoMessage
          PROVE  /\ scans[n].found \cap Value \subseteq runKey
                 /\ scans[n].ok => runKey \subseteq scans[n].found
      BY <2>4, <2>7, <3>2 DEF ScansAgree
    <3> QED
      BY <2>5, <2>6, <2>7, <3>1, <3>2 DEF ScansAgree
  <2>8. CASE i # n
    <3> scans'[n] = scans[n]
      BY <1>0, <2>3, <2>8
    <3> QED
      BY <1>0, <1>a, <2>3, <2>4, <2>6 DEF ScansAgree
  <2> QED
    BY <2>7, <2>8
<1>3. CASE Startup!ScanReady(i)
  <2>1. scans' = [scans EXCEPT ![i] = [scans[i] EXCEPT !.at = "handled"]]
    BY <1>3 DEF Startup!ScanReady
  <2>2. [scans[i] EXCEPT !.at = "handled"] \in Startup!Scan
    BY <1>0 DEF Startup!Scan
  <2>3. /\ Len(scans') = n
        /\ scans'[i] = [scans[i] EXCEPT !.at = "handled"]
        /\ \A k \in DOMAIN scans \ {i} : scans'[k] = scans[k]
    BY <2>1, <2>2, ScanStepType
  <2>4. scans[i].at = "posted" /\ entries' = scans[i].found /\ handled' = i
    BY <1>3 DEF Startup!ScanReady
  <2>5. /\ scans'[i].found = scans[i].found /\ scans'[i].ok = scans[i].ok
        /\ scans'[i].at = "handled"
    BY <1>0, <2>3 DEF Startup!Scan
  <2> QED
    BY <1>0, <1>a, <2>3, <2>4, <2>5 DEF ScansAgree, Startup!NoMessage
<1> QED
  BY <1>1, <1>2, <1>3

LEMMA ScansStep ==
    ASSUME Inv, [Next]_vars
    PROVE  ScansAgree'
<1> /\ CleanupTypeOK /\ Startup!StartupTypeOK /\ ScansAgree
    /\ dialogs \in Seq(Dialog)
  BY DEF Inv, TypeOK, CleanupTypeOK
<1>1. CASE CleanupClick \/ CleanupThreads
  <2> UNCHANGED startupVars
    BY <1>1 DEF CleanupClick, CleanupThreads
  <2> QED
    BY <1>1, CleanupMessage, ScansKept
<1>2. CASE StartupClick
  <2>1. CASE Startup!Refresh
    <3> handled' = handled
      BY <1>2 DEF StartupClick, Startup!ClickRefresh, Startup!AddEntry, Startup!RemoveSelected
    <3> QED
      BY <2>1, RefreshAgrees
  <2>2. CASE Push("add failed", {}) /\ UNCHANGED startupVars
    BY <2>2, PushMessage, ScansKept
  <2>3. CASE Push("remove failed", {}) /\ UNCHANGED <<scans, entries, handled>>
    <3> ~Startup!NoMessage'
      BY <2>3, PushMessage
    <3> QED
      BY <2>3 DEF ScansAgree
  <2> QED
    BY <1>2, <2>1, <2>2, <2>3
    DEF StartupClick, Startup!ClickRefresh, Startup!AddEntry, Startup!RemoveSelected,
        Startup!Push, Push, startupVars
<1>3. CASE DialogClosed
  <2>1. CASE Startup!RemoveFailedRead
    BY <2>1, RefreshAgrees DEF Startup!RemoveFailedRead
  <2>2. CASE CloseDialog \/ Startup!AddFailedRead
    <3> dialogs # <<>> /\ Pop
      BY <2>2 DEF CloseDialog, TopIs, Startup!AddFailedRead, Startup!TopIs, Startup!Pop, Pop
    <3>1. Last(dialogs).kind # "remove failed"
      <4>1. CASE CloseDialog
        <5> Last(dialogs).kind \in {"confirm", "told", "review"}
          BY <4>1, Zenon DEF CloseDialog, TopIs
        <5> \A x : x \in {"confirm", "told", "review"} => x # "remove failed"
          OBVIOUS
        <5> QED
          BY Zenon
      <4>2. CASE Startup!AddFailedRead
        BY <4>2 DEF Startup!AddFailedRead, Startup!TopIs, Startup!Last, Last
      <4> QED
        BY <2>2, <4>1, <4>2
    <3>2. Startup!NoMessage' => Startup!NoMessage
      BY <3>1, PopMessage
    <3>3. CASE Startup!AddFailedRead
      BY <3>2, <3>3, ScansKept DEF Startup!AddFailedRead, Startup!startupVars, startupVars
    <3>4. CASE UNCHANGED startupVars
      BY <3>2, <3>4, ScansKept
    <3>5. CASE Startup!RemoveFailedRead
      BY <2>1, <3>5
    <3> QED
      BY <1>3, <3>3, <3>4, <3>5 DEF DialogClosed
  <2> QED
    BY <1>3, <2>1, <2>2 DEF DialogClosed
<1>4. CASE StartupThreads
  BY <1>4, ScanThreadAgrees
<1>5. CASE Main
  <2> /\ scans' = <<Startup!Begun>> /\ handled' = 0
    BY <1>5 DEF Main
  <2> QED
    BY DEF ScansAgree, Startup!Begun
<1>6. CASE UNCHANGED <<startupVars, dialogs>>
  BY <1>6, ScansKept DEF Startup!NoMessage
<1> QED
  BY <1>1, <1>2, <1>3, <1>4, <1>5, <1>6 DEF Next, SettingsClick, Quit, vars

-----------------------------------------------------------------------------
(* What disappears is what was agreed to *)

AskedIn(d) == Below(UNION {e.paths : e \in {f \in ToSet(d) : f.kind = "confirm"}})
Approved == UNION {jobs[j].todo : j \in Job}

LEMMA DeletionIs ==
    /\ Deletion!Init <=> disk \subseteq File /\ AskedIn(dialogs) = {} /\ Approved = {}
    /\ Deletion!Ask <=> AskedIn(dialogs') \subseteq File /\ disk' = disk /\ Approved' = Approved
    /\ Deletion!Approve <=>
          /\ Approved \subseteq Approved'
          /\ Approved' \subseteq Approved \cup AskedIn(dialogs)
          /\ AskedIn(dialogs') \subseteq AskedIn(dialogs)
          /\ disk' = disk
    /\ Deletion!Remove <=>
          /\ disk' \subseteq disk
          /\ disk \ disk' \subseteq Approved
          /\ Approved' \subseteq Approved
          /\ AskedIn(dialogs') \subseteq AskedIn(dialogs)
    /\ Deletion!vars = <<disk, AskedIn(dialogs), Approved>>
  BY DEF Deletion!Init, Deletion!Ask, Deletion!Approve, Deletion!Remove, Deletion!vars,
         AskedIn, Approved, Below

LEMMA AskedType ==
    ASSUME NEW d \in Seq(Dialog)
    PROVE  AskedIn(d) \subseteq File
<1> DEFINE ps == UNION {e.paths : e \in {f \in ToSet(d) : f.kind = "confirm"}}
<1>1. \A e \in ToSet(d) : e \in Dialog
  BY DEF ToSet
<1>2. ps \subseteq File
  BY <1>1 DEF Dialog
<1> HIDE DEF ps
<1>3. Below(ps) \subseteq File
  BY <1>2, BelowType
<1> QED
  BY <1>3 DEF AskedIn, ps

LEMMA AskedSubset ==
    ASSUME NEW d, NEW e, ToSet(e) \subseteq ToSet(d)
    PROVE  AskedIn(e) \subseteq AskedIn(d)
  BY DEF AskedIn, Below

LEMMA PopAsked ==
    ASSUME dialogs \in Seq(Dialog), dialogs # <<>>, Pop
    PROVE  AskedIn(dialogs') \subseteq AskedIn(dialogs)
<1>1. /\ dialogs' \in Seq(Dialog) /\ Len(dialogs') = Len(dialogs) - 1
      /\ \A i \in 1 .. Len(dialogs) - 1 : dialogs'[i] = dialogs[i]
  BY PopType
<1>2. Len(dialogs) \in Nat /\ DOMAIN dialogs = 1 .. Len(dialogs)
      /\ DOMAIN dialogs' = 1 .. Len(dialogs')
  BY <1>1, LenProperties
<1>3. ASSUME NEW i \in DOMAIN dialogs'
      PROVE  i \in DOMAIN dialogs /\ dialogs'[i] = dialogs[i]
  BY <1>1, <1>2
<1>4. ToSet(dialogs') \subseteq ToSet(dialogs)
  BY <1>3 DEF ToSet
<1> QED
  BY <1>4, AskedSubset

(* The question on top is one of those that are put. *)
LEMMA TopIsAsked ==
    ASSUME dialogs \in Seq(Dialog), dialogs # <<>>, Last(dialogs).kind = "confirm"
    PROVE  Below(Last(dialogs).paths) \subseteq AskedIn(dialogs)
<1> Last(dialogs) \in ToSet(dialogs)
  BY LastType DEF ToSet
<1> QED
  BY DEF AskedIn, Below

LEMMA SameApproved ==
    ASSUME \A j \in Job : jobs'[j].todo = jobs[j].todo
    PROVE  Approved' = Approved
  BY DEF Approved

(* A thread that deletes loses entries only from what it has still to come to. *)
LEMMA EntryStep ==
    ASSUME CleanupTypeOK, NEW j \in Job, ExecuteEntry(j) \/ ExecuteEnd(j)
    PROVE  Deletion!Remove
<1>1. dialogs' = dialogs
  BY DEF ExecuteEntry, ExecuteEnd, threadRest
<1>2. \A i \in Job : jobs'[i].todo \subseteq jobs[i].todo
  BY DEF ExecuteEntry, ExecuteEnd, CleanupTypeOK, JobRecord
<1>3. disk' \subseteq disk /\ disk \ disk' \subseteq jobs[j].todo
  BY DEF ExecuteEntry, ExecuteEnd
<1>4. disk \ disk' \subseteq Approved /\ Approved' \subseteq Approved
  BY <1>2, <1>3 DEF Approved
<1> QED
  BY <1>1, <1>3, <1>4, DeletionIs

LEMMA AskStep ==
    ASSUME disk' = disk, \A j \in Job : jobs'[j].todo = jobs[j].todo, CleanupTypeOK'
    PROVE  Deletion!Ask
<1> dialogs' \in Seq(Dialog)
  BY DEF CleanupTypeOK
<1> AskedIn(dialogs') \subseteq File
  BY AskedType
<1> QED
  BY SameApproved, DeletionIs

LEMMA StartTodo ==
    ASSUME Inv, NEW k, NEW ps, NEW t, Start(k, ps, t)
    PROVE  /\ worker + 1 \in Job /\ jobs[worker + 1].todo = {}
           /\ jobs'[worker + 1].todo = t
           /\ \A j \in Job \ {worker + 1} : jobs'[j].todo = jobs[j].todo
<1>1. worker + 1 \in Job /\ worker + 1 > worker
  BY CleanupPageAssumption DEF Inv, TypeOK, CleanupTypeOK, Start, Job
<1>2. jobs[worker + 1].todo = {}
  BY <1>1 DEF Inv, JobsInOrder
<1> QED
  BY <1>1, <1>2 DEF Start, Inv, TypeOK, CleanupTypeOK

LEMMA ConfirmedStep ==
    ASSUME Inv, Confirmed
    PROVE  Deletion!Approve
<1> DEFINE top == Below(Last(dialogs).paths)
<1>0. dialogs \in Seq(Dialog)
  BY DEF Inv, TypeOK, CleanupTypeOK
<1>1. /\ dialogs # <<>> /\ Last(dialogs).kind = "confirm" /\ Pop /\ disk' = disk
      /\ Start("execute", Last(dialogs).paths, top)
  BY DEF Confirmed, TopIs
<1>2. top \subseteq AskedIn(dialogs)
  BY <1>0, <1>1, TopIsAsked
<1>3. AskedIn(dialogs') \subseteq AskedIn(dialogs)
  BY <1>0, <1>1, PopAsked
<1> HIDE DEF top
<1>4. /\ worker + 1 \in Job /\ jobs[worker + 1].todo = {}
      /\ jobs'[worker + 1].todo = top
      /\ \A j \in Job \ {worker + 1} : jobs'[j].todo = jobs[j].todo
  BY <1>1, StartTodo
<1>5. Approved' = Approved \cup top
  BY <1>4 DEF Approved
<1> QED
  BY <1>1, <1>2, <1>3, <1>5, DeletionIs

LEMMA DeletionStep ==
    ASSUME Inv, [Next]_vars
    PROVE  [Deletion!Next]_(Deletion!vars)
<1> USE DEF Deletion!Next
<1>0. CleanupTypeOK /\ CleanupTypeOK'
  BY TypeStep DEF Inv, TypeOK
<1>1. CASE CleanupClick
  <2>0. disk' = disk
    BY <1>1 DEF CleanupClick, BrowseForDuplicateFiles, AddImageFolder, RemoveImageFolder,
                StartImageScan, AnalyzeDroppedPath, StopClicked, Confirmed
  <2>1. CASE UNCHANGED <<jobs, worker, stop>>
    BY <1>0, <2>0, <2>1, AskStep
  <2>2. ASSUME NEW k, NEW ps, Start(k, ps, {}) PROVE Deletion!Ask
    <3> \A j \in Job : jobs'[j].todo = jobs[j].todo
      BY <2>2, StartTodo
    <3> QED
      BY <1>0, <2>0, AskStep
  <2>3. CASE Confirmed
    BY <2>3, ConfirmedStep
  <2>4. CASE StopClicked
    <3> \A j \in Job : jobs'[j].todo = jobs[j].todo
      BY <1>0, <2>4 DEF StopClicked, CleanupTypeOK, JobRecord
    <3> QED
      BY <1>0, <2>0, AskStep
  <2> QED
    BY <1>0, <1>1, <2>1, <2>2, <2>3, <2>4, JobClick
<1>2. CASE CleanupThreads
  <2>1. ASSUME NEW j \in Job, NEW k, Handle(j, k) PROVE Deletion!Ask
    <3> disk' = disk /\ \A i \in Job : jobs'[i].todo = jobs[i].todo
      BY <1>0, <2>1 DEF Handle, CleanupTypeOK, JobRecord
    <3> QED
      BY <1>0, AskStep
  <2>2. ASSUME NEW j \in Job, Finish(j) PROVE Deletion!Ask
    <3> disk' = disk /\ \A i \in Job : jobs'[i].todo = jobs[i].todo
      BY <1>0, <2>2 DEF Finish, CleanupTypeOK, JobRecord
    <3> QED
      BY <1>0, AskStep
  <2>3. ASSUME NEW j \in Job, ExecuteEntry(j) \/ ExecuteEnd(j) PROVE Deletion!Remove
    BY <1>0, <2>3, EntryStep
  <2> QED
    BY <1>2, <2>1, <2>2, <2>3
    DEF CleanupThreads, DuplicateFilesReady, ImageScanReady, AnalyzeReady, ExecuteDone
<1>3. CASE UNCHANGED cleanupVars
  BY <1>0, <1>3, AskStep DEF cleanupVars
<1>4. CASE Main
  <2>1. \A j \in Job : jobs'[j].todo = {}
    BY <1>4 DEF Main, Idle
  <2>2. Approved' \subseteq Approved
    BY <2>1 DEF Approved
  <2>3. ToSet(dialogs') \subseteq ToSet(dialogs)
    BY <1>4 DEF Main, ToSet
  <2>4. AskedIn(dialogs') \subseteq AskedIn(dialogs)
    BY <2>3, AskedSubset
  <2>5. disk' = disk
    BY <1>4 DEF Main
  <2> QED
    BY <2>2, <2>4, <2>5, DeletionIs
<1> QED
  BY <1>1, <1>2, <1>3, <1>4
  DEF Next, StartupClick, SettingsClick, DialogClosed, CloseDialog, StartupThreads, Quit, vars

LEMMA DeletionInit ==
    ASSUME Init
    PROVE  Deletion!Init
<1>1. disk \subseteq File /\ dialogs = <<>> /\ \A j \in Job : jobs[j].todo = {}
  BY DEF Init, CleanupInit, Idle
<1>2. ToSet(dialogs) = {}
  BY <1>1 DEF ToSet
<1>3. AskedIn(dialogs) = {}
  BY <1>2 DEF AskedIn, Below
<1>4. Approved = {}
  BY <1>1 DEF Approved
<1> QED
  BY <1>1, <1>3, <1>4, DeletionIs

-----------------------------------------------------------------------------
(* The theorems *)

LEMMA InvStep ==
    ASSUME Inv, [Next]_vars
    PROVE  Inv'
  BY TypeStep, JobsInOrderStep, StopStep, ConfigStep, ScansStep DEF Inv

THEOREM Invariance == Spec => []Inv
<1>1. Init => Inv
  BY InitInv
<1>2. Inv /\ [Next]_vars => Inv'
  BY InvStep
<1> QED
  BY <1>1, <1>2, PTL DEF Spec

(* The state of the pages has the values it is documented to have, through any
number of jobs, scans, dialogs and starts. *)
THEOREM PagesTyped == Spec => []TypeOK
<1>1. Inv => TypeOK
  BY DEF Inv
<1> QED
  BY <1>1, Invariance, PTL

(* CleanupPage: whatever jobs overlap, a stop button that can be pressed belongs
to the newest job, which can still be cancelled. *)
THEOREM StopWorks == Spec => []StopHasATarget
<1>1. Inv => StopHasATarget
  BY DEF Inv
<1> QED
  BY <1>1, Invariance, PTL

(* AppConfig: whatever becomes of a save, what is in use and what the next start
reads is a configuration the user once had. *)
THEOREM ConfigurationWhole == Spec => []ConfigIsWhole
<1>1. Inv => ConfigIsWhole
  BY DEF Inv, ConfigKept
<1> QED
  BY <1>1, Invariance, PTL

(* StartupManager: once the newest scan was the last to be handled, the table
shows what is in the Run key. *)
THEOREM TableFollowsRunKey == Spec => []TableIsRunKey
<1>1. Inv => TableIsRunKey
  BY DEF Inv, ScansAgree, TableIsRunKey, Startup!TableIsRunKey
<1> QED
  BY <1>1, Invariance, PTL

(* The cleanup page deletes what the user agreed to and nothing else: with the
rest of the window around it, it implements ConfirmedDeletion. *)
THEOREM CleanupImplementsDeletion == Spec => OnlyConfirmedGone
<1>1. Init => Deletion!Init
  BY DeletionInit
<1>2. Inv /\ [Next]_vars => [Deletion!Next]_(Deletion!vars)
  BY DeletionStep
<1> QED
  BY <1>1, <1>2, Invariance, PTL DEF Spec, OnlyConfirmedGone, Deletion!Spec
=============================================================================
