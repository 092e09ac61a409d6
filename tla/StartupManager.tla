---------------------------- MODULE StartupManager ----------------------------
(***************************************************************************)
(* Memory Master's startup page: the values of the Run key and the         *)
(* scheduled tasks, as a thread reads them (the key value by value, the    *)
(* tasks with a program that may take half a minute), and the buttons that *)
(* change the key meanwhile.                                               *)
(***************************************************************************)
EXTENDS Naturals, FiniteSets, SequencesExt

CONSTANTS
    Value,      \* what may be in the Run key, as <<name, command>>
    Task,       \* the scheduled tasks that run a command
    Installed,  \* the values that are in the key at first
    MaxScans    \* bound: threads started

VARIABLES
    runKey,     \* the values that are in the key
    entries,    \* _entries, which is what the rows of the table show
    scans,      \* the threads, in the order they were started
    handled,    \* the scan whose result was handled last, or 0
    dialogs     \* the modal dialogs of the application, the innermost last

startupVars == <<runKey, entries, scans, handled>>

Entry == Value \cup Task   \* source "registry", and "task_scheduler"

Listening == dialogs = <<>>
Push(kind) == dialogs' = Append(dialogs, [kind |-> kind, paths |-> {}])
Pop == dialogs' = SubSeq(dialogs, 1, Len(dialogs) - 1)
TopIs(kind) == dialogs # <<>> /\ Last(dialogs).kind = kind

\* at: "reading" the key, "waiting" for schtasks, "posted" or "handled".
\* ok: the key was read to its end.
Begun == [at |-> "reading", found |-> {}, ok |-> TRUE]

\* The page is built, which starts a scan.
StartupInit ==
    /\ runKey = Installed
    /\ entries = {}
    /\ scans = <<Begun>>
    /\ handled = 0

-----------------------------------------------------------------------------
(* The thread: list_startup_entries *)

\* EnumValue gives the value of the next index, until there is none or it cannot
\* be read, which is told by the same exception; all processes are looked at
\* between two values.  Which index a value has is left open.
ReadRunKey(i) ==
    /\ scans[i].at = "reading"
    /\ LET index == Cardinality(scans[i].found) IN
       \/ /\ index < Cardinality(runKey)
          /\ \E value \in runKey \ scans[i].found :
                scans' = [scans EXCEPT ![i].found = @ \cup {value}]
       \/ \E ok \in BOOLEAN :
             /\ ok => index >= Cardinality(runKey)
             /\ scans' = [scans EXCEPT ![i].at = "waiting", ![i].ok = ok]
    /\ UNCHANGED <<runKey, entries, handled, dialogs>>

\* schtasks fails, takes more than 30 seconds, or lists the tasks.
QueryScheduledTasks(i) ==
    /\ scans[i].at = "waiting"
    /\ \E tasks \in {{}, Task} :
          scans' = [scans EXCEPT ![i].at = "posted", ![i].found = @ \cup tasks]
    /\ UNCHANGED <<runKey, entries, handled, dialogs>>

-----------------------------------------------------------------------------
(* The page *)

Refresh ==
    /\ Len(scans) < MaxScans
    /\ scans' = Append(scans, Begun)

ClickRefresh ==
    /\ Listening
    /\ Refresh
    /\ UNCHANGED <<runKey, entries, handled, dialogs>>

ScanReady(i) ==
    /\ scans[i].at = "posted"
    /\ scans' = [scans EXCEPT ![i].at = "handled"]
    /\ entries' = scans[i].found
    /\ handled' = i
    /\ UNCHANGED <<runKey, dialogs>>

\* Mutant of Added: a value of that name stays beside it.
AddedBeside(value) == runKey \cup {value}

\* A value of that name is replaced.
Added(value) == {v \in runKey : v[1] # value[1]} \cup {value}

AddEntry ==
    /\ Listening
    /\ \/ /\ \E value \in Value : runKey' = Added(value)
          /\ Refresh
          /\ UNCHANGED dialogs
       \/ /\ Push("add failed")
          /\ UNCHANGED <<runKey, scans>>
    /\ UNCHANGED <<entries, handled>>

\* Mutant of RemoveSelected: the table is read again only if a value failed.
RemoveSelectedUnread ==
    /\ Listening
    /\ \E sel \in SUBSET entries :
          LET names == {e[1] : e \in sel \ Task} IN
          \E removed \in SUBSET {v \in runKey : v[1] \in names} :
              /\ runKey' = runKey \ removed
              /\ {v[1] : v \in removed} # names => Push("remove failed")
              /\ {v[1] : v \in removed} = names => UNCHANGED dialogs
    /\ UNCHANGED <<scans, entries, handled>>

\* By name, whatever the value says by now; a value that is gone, or may not be
\* removed, fails.  Tasks are passed over.  The failure is told before the
\* table is read again.
RemoveSelected ==
    /\ Listening
    /\ \E sel \in SUBSET entries :
          LET names == {e[1] : e \in sel \ Task} IN
          \E removed \in SUBSET {v \in runKey : v[1] \in names} :
              /\ runKey' = runKey \ removed
              /\ IF {v[1] : v \in removed} = names
                 THEN Refresh /\ UNCHANGED dialogs
                 ELSE Push("remove failed") /\ UNCHANGED scans
    /\ UNCHANGED <<entries, handled>>

RemoveFailedRead ==
    /\ TopIs("remove failed")
    /\ Pop
    /\ Refresh
    /\ UNCHANGED <<runKey, entries, handled>>

AddFailedRead ==
    /\ TopIs("add failed")
    /\ Pop
    /\ UNCHANGED startupVars

StartupNext ==
    \/ ClickRefresh \/ AddEntry \/ RemoveSelected \/ RemoveFailedRead \/ AddFailedRead
    \/ \E i \in DOMAIN scans : ReadRunKey(i) \/ QueryScheduledTasks(i) \/ ScanReady(i)

-----------------------------------------------------------------------------
(* Properties *)

Scan == [at : {"reading", "waiting", "posted", "handled"}, found : SUBSET Entry, ok : BOOLEAN]

StartupTypeOK ==
    /\ runKey \subseteq Value /\ IsFiniteSet(runKey)
    /\ \A v, w \in runKey : v[1] = w[1] => v = w
    /\ entries \subseteq Entry
    /\ scans \in Seq(Scan) /\ scans # <<>>
    /\ handled \in 0 .. Len(scans)

\* The page is not about to read the key again.
NoMessage == \A i \in DOMAIN dialogs : dialogs[i].kind # "remove failed"

\* Values are added and removed while scans read the key and wait for schtasks:
\* once the newest scan was the last to be handled, the table shows the values
\* that are in the key, and no other.
TableIsRunKey ==
    handled = Len(scans) /\ NoMessage =>
        /\ entries \cap Value \subseteq runKey
        /\ scans[handled].ok => runKey \subseteq entries

(* What is said of the code, and does not hold. *)

\* "What's configured to launch at sign-in (the HKCU Run registry key)" is
\* listed when every scan has ended: an older one may have ended last.
RefreshedTableIsRunKey ==
    (\A i \in DOMAIN scans : scans[i].at = "handled") /\ NoMessage =>
        entries \cap Value \subseteq runKey
=============================================================================
