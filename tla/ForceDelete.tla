---------------------------- MODULE ForceDelete ----------------------------
(***************************************************************************)
(* core/force_delete.py: analyze() computes what it would kill and erase,  *)
(* a dialog shows it, execute() does it: kills the processes of the list,  *)
(* lists the tree, and erases it bottom-up, one entry at a time.  Between  *)
(* any two of its steps other processes start, exit, open and close files  *)
(* and create new ones; Windows gives the id of a process that has ended   *)
(* to another.                                                             *)
(*                                                                         *)
(* `listed', `reissued', `killed' and `wiped' are history: no guard uses   *)
(* them.                                                                   *)
(***************************************************************************)
EXTENDS Naturals, FiniteSets

CONSTANTS
    Node, Root,  \* the paths at and under the target; the target
    Dirs,        \* those that are folders
    Parent,      \* the folder each path other than Root is in
    Proc,        \* processes
    Critical,    \* those with a name in CRITICAL_PROCESS_NAMES
    Pid,         \* process ids
    FixedPid,    \* those is_critical knows by number: 0, 4, this program's own
    Nobody,      \* no process has this id
    NoNode,      \* no entry is being erased
    Admin,       \* this program runs as administrator
    MaxEvents    \* bound: what other processes do

ASSUME ForceDeleteAssumption ==
    /\ IsFiniteSet(Node) /\ Root \in Node /\ Dirs \in SUBSET Node
    /\ Parent \in [Node \ {Root} -> Dirs]
    \* Every path is below Root: no set of others is closed under Parent.
    /\ \A S \in SUBSET (Node \ {Root}) : (\A n \in S : Parent[n] \in S) => S = {}
    /\ Critical \in SUBSET Proc /\ FixedPid \in SUBSET Pid
    /\ Nobody \notin Proc /\ NoNode \notin Node
    /\ Admin \in BOOLEAN
    /\ MaxEvents \in Nat

VARIABLES
    exists,    \* the nodes that are there
    denied,    \* those whose access rights keep this program out
    opens,     \* the files each process holds open
    running,   \* the process that has each id
    events,    \* how much other processes have done
    phase,     \* where analyze, the dialog or execute is
    left,      \* the ids still to look at, or to kill
    kills,     \* the list analyze() returns
    shred,     \* options.secure_shred
    entries,   \* the list execute() makes
    todo,      \* those it has not come to
    current,   \* the one it is at
    erased, failed, scheduled,  \* what has become of the others
    cancel,    \* cancel() has been called
    cancelled, \* ExecuteResult.cancelled
    listed,    \* history: the ids of `kills', each with the process shown
    reissued,  \* history: those given to a process since they were listed
    killed,    \* history: the processes killed, each with its id
    wiped      \* history: the files whose content has been overwritten

fileVars == <<exists, denied>>
procVars == <<opens, running>>
resultVars == <<erased, failed, scheduled, cancelled>>
workVars == <<left, kills, shred, entries, todo, current>>
historyVars == <<listed, reissued, killed, wiped>>
vars == <<fileVars, procVars, events, phase, workVars, resultVars, cancel,
          historyVars>>

Phases == {"idle", "scanning", "asking", "killing", "listing", "erasing",
           "removing", "retrying", "done"}

TypeOK ==
    /\ exists \in SUBSET Node /\ denied \in SUBSET Node
    /\ opens \in [Proc -> SUBSET Node]
    /\ running \in [Pid -> Proc \cup {Nobody}]
    /\ events \in Nat
    /\ phase \in Phases
    /\ left \in SUBSET Pid /\ kills \in SUBSET Pid
    /\ shred \in BOOLEAN
    /\ entries \in SUBSET Node /\ todo \in SUBSET Node
    /\ current \in Node \cup {NoNode}
    /\ erased \in SUBSET Node /\ failed \in SUBSET Node /\ scheduled \in SUBSET Node
    /\ cancel \in BOOLEAN /\ cancelled \in BOOLEAN
    /\ listed \in SUBSET (Pid \X Proc) /\ killed \in SUBSET (Pid \X Proc)
    /\ reissued \in SUBSET Pid /\ wiped \in SUBSET Node

Init ==
    /\ exists = Node
    /\ denied \in SUBSET Node
    /\ opens = [p \in Proc |-> {}]
    /\ running = [i \in Pid |-> Nobody]
    /\ events = 0
    /\ phase = "idle"
    /\ left = {} /\ kills = {} /\ shred = FALSE
    /\ entries = {} /\ todo = {} /\ current = NoNode
    /\ erased = {} /\ failed = {} /\ scheduled = {}
    /\ cancel = FALSE /\ cancelled = FALSE
    /\ listed = {} /\ reissued = {} /\ killed = {} /\ wiped = {}

-----------------------------------------------------------------------------
(* Other processes *)

Alive == {running[i] : i \in Pid} \ {Nobody}

Happens ==
    /\ events < MaxEvents
    /\ events' = events + 1
    /\ UNCHANGED <<denied, phase, workVars, resultVars, cancel, listed, killed, wiped>>

StartProcess(p, i) ==
    /\ p \notin Alive /\ running[i] = Nobody
    /\ running' = [running EXCEPT ![i] = p]
    /\ reissued' = reissued \cup ({i} \cap kills)
    /\ Happens
    /\ UNCHANGED <<exists, opens>>

Without(i) ==
    /\ running' = [running EXCEPT ![i] = Nobody]
    /\ opens' = [opens EXCEPT ![running[i]] = {}]

ExitProcess(i) ==
    /\ running[i] # Nobody
    /\ Without(i)
    /\ Happens
    /\ UNCHANGED <<exists, reissued>>

OpenFile(p, f) ==
    /\ p \in Alive /\ f \in exists \ Dirs
    /\ opens' = [opens EXCEPT ![p] = @ \cup {f}]
    /\ Happens
    /\ UNCHANGED <<exists, running, reissued>>

CloseFile(p, f) ==
    /\ f \in opens[p]
    /\ opens' = [opens EXCEPT ![p] = @ \ {f}]
    /\ Happens
    /\ UNCHANGED <<exists, running, reissued>>

CreateNode(n) ==
    /\ n \in Node \ (exists \cup {Root}) /\ Parent[n] \in exists
    /\ exists' = exists \cup {n}
    /\ Happens
    /\ UNCHANGED <<procVars, reissued>>

Others ==
    \/ \E p \in Proc, i \in Pid : StartProcess(p, i)
    \/ \E i \in Pid : ExitProcess(i)
    \/ \E p \in Proc, f \in Node : OpenFile(p, f) \/ CloseFile(p, f)
    \/ \E n \in Node : CreateNode(n)

-----------------------------------------------------------------------------
(* analyze and the confirmation dialog *)

quiet == <<fileVars, procVars, events>>

\* A path that is protected or not there is refused: nothing else happens.
Analyze ==
    /\ phase = "idle"
    /\ Root \in exists
    /\ phase' = "scanning"
    /\ left' = Pid /\ kills' = {}
    /\ UNCHANGED <<quiet, shred, entries, todo, current, resultVars, cancel, historyVars>>

Locks(p) == opens[p] # {}

\* find_locking_processes looks at one process after the other.
ScanProcess(i) ==
    /\ phase = "scanning"
    /\ i \in left
    /\ left' = left \ {i}
    /\ LET p == running[i]
           found == p # Nobody /\ Locks(p) /\ p \notin Critical /\ i \notin FixedPid
       IN  /\ kills' = IF found THEN kills \cup {i} ELSE kills
           /\ listed' = IF found THEN listed \cup {<<i, p>>} ELSE listed
    /\ UNCHANGED <<quiet, phase, shred, entries, todo, current, resultVars,
                   cancel, reissued, killed, wiped>>

ShowDialog ==
    /\ phase = "scanning"
    /\ left = {}
    /\ phase' = "asking"
    /\ UNCHANGED <<quiet, workVars, resultVars, cancel, historyVars>>

Reject ==
    /\ phase = "asking"
    /\ phase' = "idle"
    /\ kills' = {}
    /\ listed' = {} /\ reissued' = {}
    /\ UNCHANGED <<quiet, left, shred, entries, todo, current, resultVars,
                   cancel, killed, wiped>>

\* Mutant of Accept: execute() finds the processes again.
AcceptRecomputed ==
    /\ phase = "asking"
    /\ shred' \in BOOLEAN
    /\ phase' = "killing"
    /\ left' = {i \in Pid : running[i] # Nobody /\ Locks(running[i])}
    /\ UNCHANGED <<quiet, kills, entries, todo, current, resultVars, cancel,
                   historyVars>>

Accept ==
    /\ phase = "asking"
    /\ shred' \in BOOLEAN
    /\ phase' = "killing"
    /\ left' = kills
    /\ UNCHANGED <<quiet, kills, entries, todo, current, resultVars, cancel,
                   historyVars>>

\* The batch of the search page: no analysis, nothing killed, nothing shredded.
AcceptBatch ==
    /\ phase = "idle"
    /\ phase' = "killing"
    /\ left' = {} /\ shred' = FALSE
    /\ UNCHANGED <<quiet, kills, entries, todo, current, resultVars, cancel,
                   historyVars>>

-----------------------------------------------------------------------------
(* execute *)

\* is_protected is asked again; a target that has become protected is refused.
Refuse ==
    /\ phase = "killing" /\ left = kills
    /\ phase' = "done"
    /\ failed' = {Root}
    /\ UNCHANGED <<quiet, workVars, erased, scheduled, cancelled, cancel, historyVars>>

\* Whoever has the id now is ended; is_critical is not told the name.
KillProcess(i) ==
    /\ phase = "killing"
    /\ i \in left
    /\ left' = left \ {i}
    /\ \/ /\ running[i] # Nobody /\ i \notin FixedPid
          /\ killed' = killed \cup {<<i, running[i]>>}
          /\ Without(i)
       \/ UNCHANGED <<procVars, killed>>
    /\ UNCHANGED <<fileVars, events, phase, kills, shred, entries, todo, current,
                   resultVars, cancel, listed, reissued, wiped>>

ListEntries ==
    /\ phase = "killing"
    /\ left = {}
    /\ phase' = "erasing"
    /\ entries' = exists \cup {Root}
    /\ todo' = exists \cup {Root}
    /\ UNCHANGED <<quiet, left, kills, shred, current, resultVars, cancel, historyVars>>

Locked(n) == \E p \in Proc : n \in opens[p]
Children(n) == {c \in exists \ {Root} : Parent[c] = n}
Writable(n) == n \in exists /\ n \notin denied /\ ~Locked(n)
Removable(n) == Writable(n) /\ Children(n) = {}

\* os.walk(topdown=False): a folder comes after everything in it.
NextEntry == {n \in todo : \A c \in todo \ {Root} : Parent[c] # n}

\* Without administrator rights the first error is the last; with them attrib,
\* takeown and icacls may let the program in.
Denied(n) ==
    IF Admin
    THEN /\ phase' = "retrying"
         /\ current' = n
         /\ denied' \in {denied, denied \ {n}}
         /\ UNCHANGED failed
    ELSE /\ phase' = "erasing"
         /\ current' = NoNode
         /\ failed' = failed \cup {n}
         /\ UNCHANGED denied

\* The content is overwritten first, if that was asked for and can be done.
TakeEntry(n) ==
    /\ phase = "erasing" /\ ~cancel
    /\ n \in NextEntry
    /\ todo' = todo \ {n}
    /\ IF shred /\ n \notin Dirs /\ n \in exists /\ ~Writable(n)
       THEN Denied(n) /\ UNCHANGED wiped
       ELSE /\ phase' = "removing"
            /\ current' = n
            /\ wiped' = IF shred /\ n \notin Dirs /\ n \in exists THEN wiped \cup {n} ELSE wiped
            /\ UNCHANGED <<denied, failed>>
    /\ UNCHANGED <<exists, procVars, events, left, kills, shred, entries, erased,
                   scheduled, cancelled, cancel, listed, reissued, killed>>

TakeAway(n) ==
    /\ exists' = exists \ {n}
    /\ erased' = erased \cup {n}
    /\ phase' = "erasing"
    /\ current' = NoNode

removeRest == <<procVars, events, left, kills, shred, entries, todo, cancelled,
                cancel, historyVars>>

RemoveEntry ==
    /\ phase = "removing"
    /\ IF Removable(current)
       THEN TakeAway(current) /\ UNCHANGED <<denied, failed>>
       ELSE Denied(current) /\ UNCHANGED <<exists, erased>>
    /\ UNCHANGED <<scheduled, removeRest>>

\* A file that still resists may be left to the next start of Windows.
RetryEntry ==
    /\ phase = "retrying"
    /\ IF Removable(current)
       THEN TakeAway(current) /\ UNCHANGED <<failed, scheduled>>
       ELSE /\ phase' = "erasing" /\ current' = NoNode
            /\ \/ failed' = failed \cup {current} /\ UNCHANGED scheduled
               \/ /\ current \notin Dirs
                  /\ scheduled' = scheduled \cup {current} /\ UNCHANGED failed
            /\ UNCHANGED <<exists, erased>>
    /\ UNCHANGED <<denied, removeRest>>

RequestCancel ==
    /\ phase \in {"killing", "erasing", "removing", "retrying"}
    /\ ~cancel
    /\ cancel' = TRUE
    /\ UNCHANGED <<quiet, phase, workVars, resultVars, historyVars>>

\* Mutant of Finish: the end is not told apart from a cancellation.
FinishUncancelled ==
    /\ phase = "erasing"
    /\ todo = {} \/ cancel
    /\ phase' = "done"
    /\ UNCHANGED <<quiet, workVars, resultVars, cancel, historyVars>>

\* Mutant of Finish: a cancellation does not leave the loop.
FinishAtEnd ==
    /\ phase = "erasing"
    /\ todo = {}
    /\ phase' = "done"
    /\ cancelled' = FALSE
    /\ UNCHANGED <<quiet, workVars, erased, failed, scheduled, cancel, historyVars>>

Finish ==
    /\ phase = "erasing"
    /\ todo = {} \/ cancel
    /\ phase' = "done"
    /\ cancelled' = (todo # {})
    /\ UNCHANGED <<quiet, workVars, erased, failed, scheduled, cancel, historyVars>>

-----------------------------------------------------------------------------
Execute ==
    \/ \E i \in Pid : KillProcess(i)
    \/ ListEntries
    \/ \E n \in Node : TakeEntry(n)
    \/ RemoveEntry \/ RetryEntry \/ Finish

Next ==
    \/ Others
    \/ Analyze \/ (\E i \in Pid : ScanProcess(i)) \/ ShowDialog
    \/ Reject \/ Accept \/ AcceptBatch
    \/ Refuse \/ Execute \/ RequestCancel

Spec == Init /\ [][Next]_vars

\* The worker thread runs; every wait in it has a time limit.
FairSpec == Spec /\ WF_vars(Execute)

-----------------------------------------------------------------------------
(* Properties *)

\* A process that is killed was in the list shown, with the id it has; or it was
\* started after its id had been listed, and got the id of a process of the list.
\* So whatever was running when the list was made and is not in it stays, in any
\* order of starts, exits, the answer and the kills.
KillsAreAccounted ==
    \A k \in killed :
        \/ k \in listed
        \/ k[1] \in reissued /\ \E l \in listed : l[1] = k[1]

\* What is shown to the user and what gets killed cannot "drift apart".
KilledIsShown == killed \subseteq listed

\* A result without a failure, a cancellation or a file left for the next
\* restart means that the whole tree is gone, whatever others did to it while
\* it was being erased; and in every result each entry listed has exactly one
\* outcome, or is why the result says cancelled.
ResultIsHonest ==
    phase = "done" =>
        /\ failed = {} /\ scheduled = {} /\ ~cancelled => exists = {}
        /\ entries # {} =>
              /\ Cardinality(erased) + Cardinality(failed) + Cardinality(scheduled)
                   + Cardinality(todo) = Cardinality(entries)
              /\ cancelled <=> todo # {}

\* However files are opened, closed and created meanwhile, execute ends.
ExecuteEnds == phase = "killing" ~> phase = "done"

\* secure_shred overwrites a file "before deletion".
ErasedIsWiped == shred => erased \ Dirs \subseteq wiped
=============================================================================
