--------------------------- MODULE DeletionProofs ---------------------------
(***************************************************************************)
(* Proofs about what may be deleted, PathGuard, and how it is, ForceDelete: *)
(* for every set of drives and names, every place the roots may be at and  *)
(* every link; for every finite tree, every set of processes and ids, and  *)
(* whatever other processes do, as often as they like.                     *)
(***************************************************************************)
EXTENDS ForceDelete, PathGuard, FiniteSetTheorems, SequenceTheorems, TLAPS

-----------------------------------------------------------------------------
(* The inductive invariants *)

BeforeErasing == {"idle", "scanning", "asking", "killing"}

\* An id on the list still belongs to the process that was shown or to nobody, if
\* it has not been given to another since.
ListIsCurrent ==
    /\ \A i \in kills : \E p \in Proc :
          <<i, p>> \in listed /\ (running[i] \in {p, Nobody} \/ i \in reissued)
    /\ phase = "idle" => kills = {}
    /\ phase = "killing" => left \subseteq kills
    /\ phase \in {"idle", "scanning", "asking"} => killed = {}
    /\ KillsAreAccounted

\* What exists is a tree, whatever is created in it and erased from it.
TreeKept == \A n \in exists \ {Root} : Parent[n] \in exists

Now == {current} \ {NoNode}

\* Each entry of the list has one outcome, or is still to come, or is the one
\* being erased.
EachHasOneOutcome ==
    /\ entries = erased \cup failed \cup scheduled \cup todo \cup Now
    /\ erased \cap failed = {}
    /\ (erased \cup failed) \cap scheduled = {}
    /\ (erased \cup failed \cup scheduled) \cap todo = {}
    /\ (erased \cup failed \cup scheduled \cup todo) \cap Now = {}

ResultInv ==
    /\ TreeKept
    /\ phase \in BeforeErasing =>
          /\ entries = {} /\ todo = {} /\ current = NoNode /\ ~cancelled
          /\ erased = {} /\ failed = {} /\ scheduled = {}
    /\ phase \in {"removing", "retrying"} <=> current # NoNode
    /\ phase \in {"erasing", "removing", "retrying"} => entries # {}
    /\ phase = "done" /\ entries = {} => failed = {Root}
    /\ entries # {} => Root \in entries /\ EachHasOneOutcome
    /\ Root \in erased => Root \notin exists
    /\ phase = "done" /\ entries # {} => (cancelled <=> todo # {})

-----------------------------------------------------------------------------
(* Type correctness *)

LEMMA TypeInit == Init => TypeOK
<1> SUFFICES ASSUME Init PROVE TypeOK
  OBVIOUS
<1>1. /\ opens \in [Proc -> SUBSET Node] /\ running \in [Pid -> Proc \cup {Nobody}]
      /\ events \in Nat /\ phase \in Phases
  BY DEF Init, Phases
<1>2. shred \in BOOLEAN /\ cancel \in BOOLEAN /\ cancelled \in BOOLEAN
  BY DEF Init
<1>3. /\ exists \in SUBSET Node /\ denied \in SUBSET Node /\ reissued \in SUBSET Pid
      /\ left \in SUBSET Pid /\ kills \in SUBSET Pid
      /\ entries \in SUBSET Node /\ todo \in SUBSET Node /\ current \in Node \cup {NoNode}
      /\ erased \in SUBSET Node /\ failed \in SUBSET Node /\ scheduled \in SUBSET Node
      /\ listed \in SUBSET (Pid \X Proc) /\ killed \in SUBSET (Pid \X Proc)
      /\ wiped \in SUBSET Node
  BY DEF Init
<1> QED
  BY <1>1, <1>2, <1>3 DEF TypeOK

LEMMA OthersType ==
    ASSUME TypeOK, Others
    PROVE  TypeOK'
<1>1. ASSUME NEW p \in Proc, NEW i \in Pid, StartProcess(p, i) PROVE TypeOK'
  BY <1>1 DEF TypeOK, StartProcess, Happens, workVars, resultVars, historyVars
<1>2. ASSUME NEW i \in Pid, ExitProcess(i) PROVE TypeOK'
  BY <1>2 DEF TypeOK, ExitProcess, Without, Happens, workVars, resultVars, historyVars
<1>3. ASSUME NEW p \in Proc, NEW f \in Node, OpenFile(p, f) PROVE TypeOK'
  BY <1>3 DEF TypeOK, OpenFile, Happens, workVars, resultVars, historyVars
<1>4. ASSUME NEW p \in Proc, NEW f \in Node, CloseFile(p, f) PROVE TypeOK'
  BY <1>4 DEF TypeOK, CloseFile, Happens, workVars, resultVars, historyVars
<1>5. ASSUME NEW n \in Node, CreateNode(n) PROVE TypeOK'
  BY <1>5 DEF TypeOK, CreateNode, procVars, Happens, workVars, resultVars, historyVars
<1> QED
  BY <1>1, <1>2, <1>3, <1>4, <1>5 DEF Others

LEMMA DialogType ==
    ASSUME TypeOK,
           Analyze \/ (\E i \in Pid : ScanProcess(i)) \/ ShowDialog \/ Reject
              \/ Accept \/ AcceptBatch \/ Refuse \/ RequestCancel
    PROVE  TypeOK'
<1> USE DEF quiet, fileVars, procVars, workVars, resultVars, historyVars
<1>1. CASE Analyze
  BY <1>1 DEF TypeOK, Analyze, Phases
<1>2. ASSUME NEW i \in Pid, ScanProcess(i) PROVE TypeOK'
  BY <1>2 DEF TypeOK, ScanProcess
<1>3. CASE ShowDialog
  BY <1>3 DEF TypeOK, ShowDialog, Phases
<1>4. CASE Reject
  BY <1>4 DEF TypeOK, Reject, Phases
<1>5. CASE Accept
  BY <1>5 DEF TypeOK, Accept, Phases
<1>6. CASE AcceptBatch
  BY <1>6 DEF TypeOK, AcceptBatch, Phases
<1>7. CASE Refuse
  BY <1>7, ForceDeleteAssumption DEF TypeOK, Refuse, Phases
<1>8. CASE RequestCancel
  BY <1>8 DEF TypeOK, RequestCancel
<1> QED
  BY <1>1, <1>2, <1>3, <1>4, <1>5, <1>6, <1>7, <1>8

LEMMA DeniedType ==
    ASSUME TypeOK, NEW n \in Node, Denied(n)
    PROVE  /\ phase' \in Phases /\ current' \in Node \cup {NoNode}
           /\ denied' \in SUBSET Node /\ failed' \in SUBSET Node
  BY DEF TypeOK, Denied, Phases

LEMMA ExecuteType ==
    ASSUME TypeOK, Execute, current # NoNode \/ phase \notin {"removing", "retrying"}
    PROVE  TypeOK'
<1>1. ASSUME NEW i \in Pid, KillProcess(i) PROVE TypeOK'
  BY <1>1 DEF TypeOK, KillProcess, Without, fileVars, procVars, resultVars
<1>2. CASE ListEntries
  BY <1>2, ForceDeleteAssumption
  DEF TypeOK, ListEntries, Phases, quiet, fileVars, procVars, resultVars, historyVars
<1>3. ASSUME NEW n \in Node, TakeEntry(n) PROVE TypeOK'
  <2>1. /\ phase' \in Phases /\ current' \in Node \cup {NoNode}
        /\ denied' \in SUBSET Node /\ failed' \in SUBSET Node
        /\ wiped' \in SUBSET Node
    BY <1>3, DeniedType DEF TypeOK, TakeEntry, Phases
  <2> QED
    BY <1>3, <2>1 DEF TypeOK, TakeEntry, procVars
<1>4. CASE RemoveEntry
  <2>1. current \in Node
    BY <1>4 DEF TypeOK, RemoveEntry
  <2>2. /\ phase' \in Phases /\ current' \in Node \cup {NoNode}
        /\ denied' \in SUBSET Node /\ failed' \in SUBSET Node
        /\ exists' \in SUBSET Node /\ erased' \in SUBSET Node
    BY <1>4, <2>1, DeniedType DEF TypeOK, RemoveEntry, TakeAway, Phases
  <2> QED
    BY <1>4, <2>2 DEF TypeOK, RemoveEntry, removeRest, procVars, historyVars
<1>5. CASE RetryEntry
  <2>1. current \in Node
    BY <1>5 DEF TypeOK, RetryEntry
  <2> QED
    BY <1>5, <2>1 DEF TypeOK, RetryEntry, TakeAway, Phases, removeRest, procVars, historyVars
<1>6. CASE Finish
  BY <1>6 DEF TypeOK, Finish, Phases, quiet, fileVars, procVars, workVars, historyVars
<1> QED
  BY <1>1, <1>2, <1>3, <1>4, <1>5, <1>6 DEF Execute

-----------------------------------------------------------------------------
(* KillsAreAccounted *)

(* Nothing other processes do changes whose the ids of the list are, except  *)
(* that an id may be given again.                                            *)
LEMMA OthersList ==
    ASSUME TypeOK, ListIsCurrent, Others
    PROVE  ListIsCurrent'
<1> USE DEF ListIsCurrent, KillsAreAccounted, Happens, workVars, resultVars, historyVars
<1>1. ASSUME NEW p \in Proc, NEW i \in Pid, StartProcess(p, i) PROVE ListIsCurrent'
  BY <1>1 DEF TypeOK, StartProcess
<1>2. ASSUME NEW i \in Pid, ExitProcess(i) PROVE ListIsCurrent'
  BY <1>2 DEF TypeOK, ExitProcess, Without
<1>3. ASSUME NEW p \in Proc, NEW f \in Node, OpenFile(p, f) \/ CloseFile(p, f)
      PROVE  ListIsCurrent'
  BY <1>3 DEF OpenFile, CloseFile
<1>4. ASSUME NEW n \in Node, CreateNode(n) PROVE ListIsCurrent'
  BY <1>4 DEF CreateNode, procVars
<1> QED
  BY <1>1, <1>2, <1>3, <1>4 DEF Others

LEMMA ListStep ==
    ASSUME TypeOK, ListIsCurrent, [Next]_vars
    PROVE  ListIsCurrent'
<1> USE DEF ListIsCurrent, KillsAreAccounted
<1>1. CASE Others
  BY <1>1, OthersList
<1>2. CASE Analyze
  BY <1>2 DEF Analyze, quiet, procVars, historyVars
<1>3. ASSUME NEW i \in Pid, ScanProcess(i) PROVE ListIsCurrent'
  BY <1>3 DEF TypeOK, ScanProcess, quiet, procVars
<1>4. CASE ShowDialog
  BY <1>4 DEF ShowDialog, quiet, procVars, workVars, historyVars
<1>5. CASE Reject
  BY <1>5 DEF Reject, quiet, procVars
<1>6. CASE Accept
  BY <1>6 DEF Accept, quiet, procVars, historyVars
<1>7. CASE AcceptBatch
  BY <1>7 DEF AcceptBatch, quiet, procVars, historyVars
<1>8. CASE Refuse
  BY <1>8 DEF Refuse, quiet, procVars, workVars, historyVars
<1>9. ASSUME NEW i \in Pid, KillProcess(i) PROVE ListIsCurrent'
  <2>1. CASE UNCHANGED <<procVars, killed>>
    BY <1>9, <2>1 DEF KillProcess, procVars
  <2>2. CASE running[i] # Nobody /\ killed' = killed \cup {<<i, running[i]>>} /\ Without(i)
    <3>0. phase = "killing" /\ i \in kills
      BY <1>9 DEF KillProcess
    <3>1. PICK p \in Proc : <<i, p>> \in listed /\ (running[i] = p \/ i \in reissued)
      BY <2>2, <3>0
    <3> DEFINE k == <<i, running[i]>>
               l == <<i, p>>
    <3>2. k[1] = i /\ l[1] = i /\ l \in listed /\ (k = l \/ i \in reissued)
      BY <3>1
    <3>3. /\ killed' = killed \cup {k}
          /\ UNCHANGED <<phase, kills, listed, reissued>> /\ left' \subseteq left
      BY <1>9, <2>2 DEF KillProcess
    <3> HIDE DEF k, l
    <3>4. KillsAreAccounted'
      BY <3>2, <3>3
    <3>5. \A j \in kills : running'[j] \in {running[j], Nobody}
      BY <1>9, <2>2 DEF TypeOK, Without
    <3> QED
      BY <3>0, <3>3, <3>4, <3>5
  <2> QED
    BY <1>9, <2>1, <2>2 DEF KillProcess
<1>10. CASE ListEntries
  BY <1>10 DEF ListEntries, quiet, procVars, historyVars
<1>11. ASSUME NEW n \in Node, TakeEntry(n) PROVE ListIsCurrent'
  BY <1>11 DEF TakeEntry, Denied, procVars
<1>12. CASE RemoveEntry
  BY <1>12 DEF RemoveEntry, Denied, TakeAway, removeRest, procVars, historyVars
<1>13. CASE RetryEntry
  BY <1>13 DEF RetryEntry, TakeAway, removeRest, procVars, historyVars
<1>14. CASE Finish
  BY <1>14 DEF Finish, quiet, procVars, workVars, historyVars
<1>15. CASE RequestCancel
  BY <1>15 DEF RequestCancel, quiet, procVars, workVars, historyVars
<1>16. CASE UNCHANGED vars
  BY <1>16 DEF vars, procVars, workVars, historyVars
<1> QED
  BY <1>1, <1>2, <1>3, <1>4, <1>5, <1>6, <1>7, <1>8, <1>9, <1>10, <1>11, <1>12, <1>13,
     <1>14, <1>15, <1>16
  DEF Next, Execute

-----------------------------------------------------------------------------
(* ResultIsHonest *)

(* Creating a path in a folder that exists keeps the tree; nothing else that *)
(* other processes do is seen by execute's counts.                           *)
LEMMA OthersResult ==
    ASSUME TypeOK, ResultInv, Others
    PROVE  ResultInv'
<1>1. UNCHANGED <<phase, entries, todo, current, erased, failed, scheduled, cancelled>>
  BY DEF Others, StartProcess, ExitProcess, OpenFile, CloseFile, CreateNode, Happens,
         workVars, resultVars
<1>2. TreeKept' /\ (Root \in exists' => Root \in exists)
  <2>1. CASE exists' = exists
    BY <2>1 DEF ResultInv, TreeKept
  <2>2. ASSUME NEW n \in Node, CreateNode(n) PROVE TreeKept' /\ (Root \in exists' => Root \in exists)
    BY <2>2 DEF CreateNode, ResultInv, TreeKept
  <2> QED
    BY <2>1, <2>2 DEF Others, StartProcess, ExitProcess, OpenFile, CloseFile
<1> QED
  BY <1>1, <1>2 DEF ResultInv, EachHasOneOutcome, Now

LEMMA DialogResult ==
    ASSUME TypeOK, ResultInv,
           Analyze \/ (\E i \in Pid : ScanProcess(i)) \/ ShowDialog \/ Reject
              \/ Accept \/ AcceptBatch \/ RequestCancel \/ (\E i \in Pid : KillProcess(i))
    PROVE  ResultInv'
<1>1. /\ UNCHANGED <<exists, entries, todo, current, resultVars>>
      /\ phase' = phase \/ {phase, phase'} \subseteq BeforeErasing
  BY DEF Analyze, ScanProcess, ShowDialog, Reject, Accept, AcceptBatch, RequestCancel,
         KillProcess, quiet, fileVars, workVars, resultVars, BeforeErasing
<1>2. TreeKept'
  BY <1>1 DEF ResultInv, TreeKept
<1> QED
  BY <1>1, <1>2 DEF ResultInv, EachHasOneOutcome, Now, resultVars, BeforeErasing

(* An entry that is erased has nothing in it. *)
LEMMA RemoveTree ==
    ASSUME TreeKept, NEW n, Removable(n), exists' = exists \ {n}
    PROVE  TreeKept'
  BY DEF TreeKept, Removable, Children

LEMMA ExecuteResult ==
    ASSUME TypeOK, ResultInv, Refuse \/ Execute
    PROVE  ResultInv'
<1>1. CASE Refuse
  BY <1>1 DEF Refuse, ResultInv, TreeKept, BeforeErasing, quiet, fileVars, workVars
<1>2. ASSUME NEW i \in Pid, KillProcess(i) PROVE ResultInv'
  BY <1>2, DialogResult
<1>3. CASE ListEntries
  <2>1. TreeKept' /\ Root \in entries'
    BY <1>3 DEF ListEntries, ResultInv, TreeKept, quiet, fileVars
  <2> QED
    BY <1>3, <2>1 DEF ListEntries, ResultInv, EachHasOneOutcome, Now, BeforeErasing, quiet,
                      fileVars, resultVars
<1>4. ASSUME NEW n \in Node, TakeEntry(n) PROVE ResultInv'
  <2>1. /\ n \in todo /\ todo' = todo \ {n} /\ current = NoNode /\ n # NoNode
        /\ phase = "erasing" /\ entries # {} /\ EachHasOneOutcome
        /\ UNCHANGED <<exists, entries, erased, scheduled, cancelled>>
    BY <1>4, ForceDeleteAssumption DEF TakeEntry, NextEntry, ResultInv
  <2>2. \/ /\ phase' \in {"removing", "retrying"} /\ current' = n
           /\ failed' = failed
        \/ /\ phase' = "erasing" /\ current' = NoNode
           /\ failed' = failed \cup {n}
    BY <1>4 DEF TakeEntry, Denied
  <2>3. EachHasOneOutcome'
    BY <2>1, <2>2 DEF EachHasOneOutcome, Now
  <2>4. TreeKept'
    BY <2>1 DEF ResultInv, TreeKept
  <2> QED
    BY <2>1, <2>2, <2>3, <2>4 DEF ResultInv, BeforeErasing
<1>5. CASE RemoveEntry \/ RetryEntry
  <2>1. /\ current # NoNode /\ phase \in {"removing", "retrying"}
        /\ entries # {} /\ EachHasOneOutcome /\ UNCHANGED <<entries, todo, cancelled>>
    BY <1>5 DEF RemoveEntry, RetryEntry, removeRest, ResultInv
  <2>2. CASE Removable(current) /\ TakeAway(current) /\ UNCHANGED <<failed, scheduled>>
    <3>1. TreeKept'
      BY <2>2, RemoveTree DEF TakeAway, ResultInv
    <3>2. EachHasOneOutcome'
      BY <2>1, <2>2 DEF EachHasOneOutcome, Now, TakeAway
    <3> QED
      BY <2>1, <2>2, <3>1, <3>2 DEF ResultInv, TakeAway, BeforeErasing
  <2>3. CASE /\ phase' = "retrying" /\ current' = current
             /\ UNCHANGED <<exists, erased, failed, scheduled>>
    BY <2>1, <2>3 DEF ResultInv, TreeKept, EachHasOneOutcome, Now, BeforeErasing
  <2>4. CASE /\ phase' = "erasing" /\ current' = NoNode /\ UNCHANGED <<exists, erased>>
             /\ \/ failed' = failed \cup {current} /\ UNCHANGED scheduled
                \/ scheduled' = scheduled \cup {current} /\ UNCHANGED failed
    <3>1. EachHasOneOutcome'
      BY <2>1, <2>4 DEF EachHasOneOutcome, Now
    <3>2. TreeKept'
      BY <2>4 DEF ResultInv, TreeKept
    <3> QED
      BY <2>1, <2>4, <3>1, <3>2 DEF ResultInv, BeforeErasing
  <2>5. CASE RemoveEntry
    BY <2>2, <2>3, <2>4, <2>5 DEF RemoveEntry, Denied, TakeAway
  <2>6. CASE RetryEntry
    BY <2>2, <2>4, <2>6 DEF RetryEntry, TakeAway
  <2> QED
    BY <1>5, <2>5, <2>6
<1>6. CASE Finish
  <2>1. /\ phase = "erasing" /\ phase' = "done" /\ cancelled' = (todo # {})
        /\ entries # {} /\ EachHasOneOutcome
        /\ UNCHANGED <<exists, entries, todo, current, erased, failed, scheduled>>
    BY <1>6 DEF Finish, ResultInv, quiet, fileVars, workVars
  <2>2. EachHasOneOutcome' /\ TreeKept'
    BY <2>1 DEF ResultInv, EachHasOneOutcome, Now, TreeKept
  <2> QED
    BY <2>1, <2>2 DEF ResultInv, BeforeErasing
<1> QED
  BY <1>1, <1>2, <1>3, <1>4, <1>5, <1>6 DEF Execute

LEMMA ResultStep ==
    ASSUME TypeOK, ResultInv, [Next]_vars
    PROVE  ResultInv'
<1>1. CASE UNCHANGED vars
  BY <1>1 DEF vars, fileVars, workVars, resultVars, ResultInv, TreeKept, EachHasOneOutcome, Now
<1> QED
  BY <1>1, OthersResult, DialogResult, ExecuteResult DEF Next

LEMMA ResultInit == Init => ResultInv
  BY ForceDeleteAssumption DEF Init, ResultInv, TreeKept, BeforeErasing

(* The counts of a result add up because the outcomes are disjoint. *)
LEMMA DisjointCount ==
    ASSUME NEW S, IsFiniteSet(S), NEW T, IsFiniteSet(T), S \cap T = {}
    PROVE  /\ IsFiniteSet(S \cup T) /\ Cardinality(S) \in Nat /\ Cardinality(T) \in Nat
           /\ Cardinality(S \cup T) = Cardinality(S) + Cardinality(T)
<1>1. Cardinality(S \cap T) = 0
  BY FS_EmptySet
<1>2. Cardinality(S) \in Nat /\ Cardinality(T) \in Nat
  BY FS_CardinalityType
<1>3. IsFiniteSet(S \cup T)
  BY FS_Union
<1>4. Cardinality(S \cup T) = Cardinality(S) + Cardinality(T) - Cardinality(S \cap T)
  BY FS_Union
<1> QED
  BY <1>1, <1>2, <1>3, <1>4

(* An empty tree is one whose root is gone. *)
LEMMA RootGone ==
    ASSUME TypeOK, TreeKept, Root \notin exists
    PROVE  exists = {}
<1>1. exists \in SUBSET (Node \ {Root}) /\ \A n \in exists : Parent[n] \in exists
  BY DEF TypeOK, TreeKept
<1> QED
  BY <1>1, ForceDeleteAssumption

LEMMA HonestFromInv ==
    ASSUME TypeOK, ResultInv
    PROVE  ResultIsHonest
<1> SUFFICES ASSUME phase = "done" PROVE ResultIsHonest
  BY DEF ResultIsHonest
<1>0. current = NoNode
  BY DEF ResultInv
<1>1. failed = {} /\ scheduled = {} /\ ~cancelled => exists = {}
  <2> SUFFICES ASSUME failed = {}, scheduled = {}, ~cancelled PROVE exists = {}
    OBVIOUS
  <2>1. entries # {} /\ todo = {} /\ EachHasOneOutcome /\ Root \in entries
    BY DEF ResultInv
  <2>2. Root \in erased
    BY <1>0, <2>1 DEF EachHasOneOutcome, Now
  <2> QED
    BY <2>2, RootGone DEF ResultInv
<1>2. ASSUME entries # {}
      PROVE  /\ Cardinality(erased) + Cardinality(failed) + Cardinality(scheduled)
                   + Cardinality(todo) = Cardinality(entries)
             /\ cancelled <=> todo # {}
  <2>1. EachHasOneOutcome /\ (cancelled <=> todo # {})
    BY <1>2 DEF ResultInv
  <2>2. /\ IsFiniteSet(erased) /\ IsFiniteSet(failed) /\ IsFiniteSet(scheduled)
        /\ IsFiniteSet(todo)
    BY ForceDeleteAssumption, FS_Subset DEF TypeOK
  <2>3. /\ IsFiniteSet(erased \cup failed)
        /\ Cardinality(erased \cup failed) = Cardinality(erased) + Cardinality(failed)
    BY <2>1, <2>2, DisjointCount DEF EachHasOneOutcome
  <2>4. /\ IsFiniteSet(erased \cup failed \cup scheduled)
        /\ Cardinality(erased \cup failed \cup scheduled)
             = Cardinality(erased \cup failed) + Cardinality(scheduled)
    BY <2>1, <2>2, <2>3, DisjointCount DEF EachHasOneOutcome
  <2>5. Cardinality(erased \cup failed \cup scheduled \cup todo)
             = Cardinality(erased \cup failed \cup scheduled) + Cardinality(todo)
    BY <2>1, <2>2, <2>4, DisjointCount DEF EachHasOneOutcome
  <2>6. entries = erased \cup failed \cup scheduled \cup todo
    BY <1>0, <2>1 DEF EachHasOneOutcome, Now
  <2> QED
    BY <2>1, <2>3, <2>4, <2>5, <2>6
<1> QED
  BY <1>1, <1>2 DEF ResultIsHonest

-----------------------------------------------------------------------------
(* The theorems *)

LEMMA TypeStep ==
    ASSUME TypeOK, ResultInv, [Next]_vars
    PROVE  TypeOK'
<1>1. CASE UNCHANGED vars
  BY <1>1 DEF vars, fileVars, procVars, workVars, resultVars, historyVars, TypeOK
<1>2. CASE Execute
  BY <1>2, ExecuteType DEF ResultInv
<1> QED
  BY <1>1, <1>2, OthersType, DialogType DEF Next

LEMMA ResultInvAlways == Spec => [](TypeOK /\ ResultInv)
<1>1. Init => TypeOK /\ ResultInv
  BY TypeInit, ResultInit
<1>2. TypeOK /\ ResultInv /\ [Next]_vars => (TypeOK /\ ResultInv)'
  BY TypeStep, ResultStep
<1> QED
  BY <1>1, <1>2, PTL DEF Spec

(* Whoever force_delete.py kills was shown in the dialog before, or has been *)
(* started since and given the id of a process that was: what ran already    *)
(* and was not shown is not killed, whatever starts and exits meanwhile.     *)
THEOREM KillsAlwaysAccounted == Spec => []KillsAreAccounted
<1>1. Init => ListIsCurrent
  BY DEF Init, ListIsCurrent, KillsAreAccounted
<1>2. TypeOK /\ ListIsCurrent /\ [Next]_vars => ListIsCurrent'
  BY ListStep
<1>3. ListIsCurrent => KillsAreAccounted
  BY DEF ListIsCurrent
<1> QED
  BY <1>1, <1>2, <1>3, ResultInvAlways, PTL DEF Spec

(* A result of force_delete.py accounts for every entry it listed, and one   *)
(* without failures means that the tree is gone.                             *)
THEOREM ResultAlwaysHonest == Spec => []ResultIsHonest
<1>1. TypeOK /\ ResultInv => ResultIsHonest
  BY HonestFromInv
<1> QED
  BY <1>1, ResultInvAlways, PTL

-----------------------------------------------------------------------------
(* PathGuard *)

Part == Drive \cup Name

-----------------------------------------------------------------------------
(* Paths and prefixes *)

LEMMA PathType ==
    ASSUME NEW p \in Paths
    PROVE  p \in Seq(Part) /\ Len(p) >= 1
<1>1. PICK d \in Drive, s \in BoundedSeq(Name, MaxDepth) : p = <<d>> \o s
  BY DEF Paths
<1>2. PICK m \in 0 .. MaxDepth : s \in [1 .. m -> Name]
  BY <1>1 DEF BoundedSeq, SeqOf
<1>3. m \in Nat
  BY <1>2, PathGuardAssumption
<1>4. s \in Seq(Name)
  BY <1>2, <1>3
<1>5. s \in Seq(Part) /\ <<d>> \in Seq(Part)
  BY <1>4 DEF Part
<1> QED
  BY <1>1, <1>5

LEMMA PrefixDef ==
    ASSUME NEW s \in Seq(Part), NEW t \in Seq(Part)
    PROVE  IsPrefix(s, t) <=> Len(s) <= Len(t) /\ \A i \in 1 .. Len(s) : s[i] = t[i]
<1> SUFFICES ASSUME Len(s) <= Len(t)
             PROVE  SubSeq(s, 1, Len(s)) = SubSeq(t, 1, Len(s))
                      <=> \A i \in 1 .. Len(s) : s[i] = t[i]
  BY DEF IsPrefix
<1>1. SubSeq(s, 1, Len(s)) = [i \in 1 .. Len(s) |-> s[i]]
  OBVIOUS
<1>2. SubSeq(t, 1, Len(s)) = [i \in 1 .. Len(s) |-> t[i]]
  OBVIOUS
<1> QED
  BY <1>1, <1>2

(* Two prefixes of a path are prefixes of one another. *)
LEMMA PrefixesCompare ==
    ASSUME NEW r \in Seq(Part), NEW s \in Seq(Part), NEW t \in Seq(Part),
           IsPrefix(r, t), IsPrefix(s, t)
    PROVE  IsPrefix(r, s) \/ IsPrefix(s, r)
  BY PrefixDef

LEMMA PrefixTrans ==
    ASSUME NEW r \in Seq(Part), NEW s \in Seq(Part), NEW t \in Seq(Part),
           IsPrefix(r, s), IsPrefix(s, t)
    PROVE  IsPrefix(r, t)
  BY PrefixDef

LEMMA PrefixAntisym ==
    ASSUME NEW s \in Seq(Part), NEW t \in Seq(Part), IsPrefix(s, t), IsPrefix(t, s)
    PROVE  s = t
  BY PrefixDef

(* A path with a proper part of it above is longer than that part. *)
LEMMA UnderTrans ==
    ASSUME NEW r \in Seq(Part), NEW s \in Seq(Part), NEW t \in Seq(Part),
           Under(s, r), WithinOrEqual(t, s)
    PROVE  Under(t, r)
  BY PrefixTrans, PrefixAntisym DEF Under, WithinOrEqual

LEMMA RootTypes ==
    \A root \in FullyProtected \cup {ProgramData, Installer} :
        root \in Seq(Part) /\ root \in Paths
  BY PathGuardAssumption, PathType

-----------------------------------------------------------------------------
(* What the decision looks at *)

GuardInv ==
    /\ target \in Paths
    /\ link \in Links \cup {NoLink}
    /\ verdict \in {"none", "refused", "allowed"}
    /\ verdict = "refused" => IsProtected(target)
    /\ verdict = "allowed" => ~IsProtected(target)

LEMMA RealPathType ==
    ASSUME GuardInv
    PROVE  RealPath(target) \in Seq(Part) /\ RealPath(target) # <<>>
<1>1. target \in Seq(Part) /\ target # <<>>
  BY PathType DEF GuardInv
<1>2. CASE link # NoLink /\ WithinOrEqual(target, link.from)
  <2>1. link.from \in Seq(Part) /\ link.to \in Seq(Part) /\ Len(link.to) >= 1
    BY <1>2, PathType, PathGuardAssumption DEF GuardInv
  <2>2. SubSeq(target, Len(link.from) + 1, Len(target)) \in Seq(Part)
    BY <1>1, <2>1
  <2>3. \A s \in Seq(Part), t \in Seq(Part) :
            Len(s) >= 1 => s \o t \in Seq(Part) /\ Len(s \o t) >= 1
    OBVIOUS
  <2>4. RealPath(target) = link.to \o SubSeq(target, Len(link.from) + 1, Len(target))
    BY <1>2 DEF RealPath
  <2>5. RealPath(target) \in Seq(Part) /\ Len(RealPath(target)) >= 1
    BY <2>1, <2>2, <2>3, <2>4, Zenon
  <2> QED
    BY <2>5
<1> QED
  BY <1>1, <1>2 DEF RealPath

(* The root whose contents are allowed that decides is one of the two, and   *)
(* lies above or at the path; without one neither does.                      *)
LEMMA Deciding ==
    ASSUME NEW p
    PROVE  LET deciding == {i \in DOMAIN ContentsAllowed : WithinOrEqual(p, ContentsAllowed[i])}
               first == CHOOSE i \in deciding : \A j \in deciding : i <= j
           IN  /\ deciding # {} =>
                     /\ ContentsAllowed[first] \in {ProgramData, Installer}
                     /\ WithinOrEqual(p, ContentsAllowed[first])
                     /\ WithinOrEqual(p, ProgramData) => ContentsAllowed[first] = ProgramData
               /\ deciding = {} => ~WithinOrEqual(p, ProgramData) /\ ~WithinOrEqual(p, Installer)
<1> DEFINE deciding == {i \in DOMAIN ContentsAllowed : WithinOrEqual(p, ContentsAllowed[i])}
           first == CHOOSE i \in deciding : \A j \in deciding : i <= j
<1>1. /\ DOMAIN ContentsAllowed = {1, 2}
      /\ ContentsAllowed[1] = ProgramData /\ ContentsAllowed[2] = Installer
  BY DEF ContentsAllowed
<1>2. deciding = {} => ~WithinOrEqual(p, ProgramData) /\ ~WithinOrEqual(p, Installer)
  BY <1>1
<1>3. ASSUME deciding # {}
      PROVE  first \in deciding /\ \A j \in deciding : first <= j
  <2>1. \E i \in deciding : \A j \in deciding : i <= j
    <3>1. CASE 1 \in deciding
      BY <1>1, <3>1
    <3>2. CASE 1 \notin deciding
      <4>1. deciding = {2}
        BY <1>1, <1>3, <3>2
      <4> QED
        BY <4>1
    <3> QED
      BY <3>1, <3>2
  <2> QED
    BY <2>1
<1>4. ASSUME deciding # {}, WithinOrEqual(p, ProgramData) PROVE first = 1
  <2>1. 1 \in deciding
    BY <1>1, <1>4
  <2>2. first <= 1 /\ first \in {1, 2}
    BY <1>1, <1>3, <1>4, <2>1
  <2>3. \A x \in {1, 2} : x <= 1 => x = 1
    OBVIOUS
  <2> QED
    BY <2>2, <2>3, Zenon
<1> QED
  BY <1>1, <1>2, <1>3, <1>4

(* What is_protected lets pass: a path below one of the two roots, or one    *)
(* apart from every fully protected root; and in each case deep enough.      *)
LEMMA Unprotected ==
    ASSUME NEW p, ~CheckSingle(p)
    PROVE  /\ ~CheckDepth(p)
           /\ \/ Under(p, ProgramData)
              \/ Under(p, Installer) /\ ~WithinOrEqual(p, ProgramData)
              \/ /\ ~WithinOrEqual(p, ProgramData) /\ ~WithinOrEqual(p, Installer)
                 /\ \A root \in FullyProtected : ~WithinOrEqual(p, root) /\ ~Under(root, p)
<1> DEFINE deciding == {i \in DOMAIN ContentsAllowed : WithinOrEqual(p, ContentsAllowed[i])}
           first == CHOOSE i \in deciding : \A j \in deciding : i <= j
<1>1. CASE deciding # {}
  <2>1. p # ContentsAllowed[first] /\ ~CheckDepth(p)
    BY <1>1 DEF CheckSingle
  <2>2. /\ ContentsAllowed[first] \in {ProgramData, Installer}
        /\ WithinOrEqual(p, ContentsAllowed[first])
        /\ WithinOrEqual(p, ProgramData) => ContentsAllowed[first] = ProgramData
    BY <1>1, Deciding
  <2>3. Under(p, ContentsAllowed[first])
    BY <2>1, <2>2 DEF Under, WithinOrEqual
  <2> QED
    BY <2>1, <2>2, <2>3
<1>2. CASE deciding = {}
  <2>1. ~WithinOrEqual(p, ProgramData) /\ ~WithinOrEqual(p, Installer)
    BY <1>2, Deciding
  <2> QED
    BY <1>2, <2>1 DEF CheckSingle
<1> QED
  BY <1>1, <1>2

(* What is_protected refuses. *)
LEMMA Protected ==
    ASSUME NEW p, CheckSingle(p)
    PROVE  \/ CheckDepth(p)
           \/ p \in {ProgramData, Installer}
           \/ /\ ~WithinOrEqual(p, ProgramData) /\ ~WithinOrEqual(p, Installer)
              /\ \E root \in FullyProtected : WithinOrEqual(p, root) \/ Under(root, p)
<1> DEFINE deciding == {i \in DOMAIN ContentsAllowed : WithinOrEqual(p, ContentsAllowed[i])}
           first == CHOOSE i \in deciding : \A j \in deciding : i <= j
<1>1. CASE deciding # {}
  <2>1. p = ContentsAllowed[first] \/ CheckDepth(p)
    BY <1>1 DEF CheckSingle
  <2> QED
    BY <1>1, <2>1, Deciding
<1>2. CASE deciding = {}
  <2>1. ~WithinOrEqual(p, ProgramData) /\ ~WithinOrEqual(p, Installer)
    BY <1>2, Deciding
  <2> QED
    BY <1>2, <2>1 DEF CheckSingle
<1> QED
  BY <1>1, <1>2

-----------------------------------------------------------------------------
(* What a deletion that is allowed takes away *)

(* Where the roots are, and the program is not, on a system in the usual     *)
(* layout: C:\ProgramData right below the drive, Installer in SystemRoot,    *)
(* the program in neither.                                                   *)
UsualPlaces ==
    /\ Len(ProgramData) = 2
    /\ Under(Installer, SystemRoot) /\ ~WithinOrEqual(Installer, ProgramData)
    /\ ~WithinOrEqual(AppDir, ProgramData) /\ ~WithinOrEqual(AppDir, Installer)

LEMMA TakenFacts ==
    ASSUME GuardInv, verdict = "allowed", NEW p \in Taken
    PROVE  /\ p \in Seq(Part) /\ RealPath(target) \in Seq(Part)
           /\ IsPrefix(RealPath(target), p)
           /\ ~CheckSingle(RealPath(target))
           /\ Len(RealPath(target)) >= 3 /\ Len(p) >= Len(RealPath(target))
<1> DEFINE r == RealPath(target)
<1>1. p \in Seq(Part) /\ r \in Seq(Part) /\ IsPrefix(r, p)
  BY PathType, RealPathType DEF Taken, WithinOrEqual
<1>2. ~CheckSingle(r)
  BY DEF GuardInv, IsProtected
<1>3. ~CheckDepth(r)
  BY <1>2, Unprotected
<1>4. Len(r) >= 3
  BY <1>1, <1>3 DEF CheckDepth, DepthBelowRoot, MinPathDepth, UserProfileMinDepth
<1>5. Len(p) >= Len(r)
  BY <1>1, PrefixDef
<1> QED
  BY <1>1, <1>2, <1>4, <1>5

LEMMA SystemKeptFromInv ==
    ASSUME GuardInv
    PROVE  SystemKept
<1> SUFFICES ASSUME verdict = "allowed", NEW p \in Taken
             PROVE  /\ \A root \in {SystemRoot, ProgramFiles} :
                           WithinOrEqual(p, root) => Releasable(p)
                    /\ Len(p) > 1
                    /\ p[2] = Users => Len(p) > 3
  BY DEF SystemKept
<1> DEFINE r == RealPath(target)
<1>1. /\ p \in Seq(Part) /\ r \in Seq(Part) /\ IsPrefix(r, p) /\ ~CheckSingle(r)
      /\ Len(r) >= 3 /\ Len(p) >= Len(r)
  BY TakenFacts
<1>2. ASSUME NEW root \in {SystemRoot, ProgramFiles}, WithinOrEqual(p, root)
      PROVE  Releasable(p)
  <2>1. root \in Seq(Part) /\ root \in FullyProtected
    BY RootTypes DEF FullyProtected
  <2>2. WithinOrEqual(r, root) \/ Under(root, r)
    BY <1>1, <1>2, <2>1, PrefixesCompare DEF WithinOrEqual, Under
  <2>3. Under(r, ProgramData) \/ Under(r, Installer)
    BY <1>1, <2>1, <2>2, Unprotected
  <2> QED
    BY <1>1, <2>3, UnderTrans, RootTypes DEF Releasable, WithinOrEqual
<1>3. ASSUME p[2] = Users PROVE Len(p) > 3
  <2>1. r[2] = Users
    BY <1>1, <1>3, PrefixDef
  <2>2. ~CheckDepth(r)
    BY <1>1, Unprotected
  <2>3. Len(r) - 1 >= 3
    BY <1>1, <2>1, <2>2 DEF CheckDepth, DepthBelowRoot, UserProfileMinDepth
  <2> QED
    BY <1>1, <2>3
<1> QED
  BY <1>1, <1>2, <1>3

LEMMA ContentsRootsKeptFromInv ==
    ASSUME GuardInv, UsualPlaces
    PROVE  ContentsRootsKept
<1> SUFFICES ASSUME verdict = "allowed", NEW p \in {ProgramData, Installer}, p \in Taken
             PROVE  FALSE
  BY DEF ContentsRootsKept
<1> DEFINE r == RealPath(target)
<1>1. /\ p \in Seq(Part) /\ r \in Seq(Part) /\ IsPrefix(r, p) /\ ~CheckSingle(r)
      /\ Len(r) >= 3 /\ Len(p) >= Len(r)
  BY TakenFacts
<1>2. p = Installer
  <2>1. Len(p) # 2
    <3>1. Len(p) \in Nat /\ Len(r) \in Nat
      BY <1>1, LenProperties
    <3>2. \A m, n \in Nat : n >= 3 /\ m >= n => m # 2
      OBVIOUS
    <3> QED
      BY <1>1, <3>1, <3>2, Zenon
  <2>2. Len(ProgramData) = 2
    BY DEF UsualPlaces
  <2> QED
    BY <2>1, <2>2
<1>3. SystemRoot \in Seq(Part) /\ ProgramData \in Seq(Part) /\ SystemRoot \in FullyProtected
  BY RootTypes DEF FullyProtected
<1>4. ~WithinOrEqual(r, ProgramData)
  BY <1>1, <1>2, <1>3, PrefixTrans DEF UsualPlaces, WithinOrEqual
<1>5. ~Under(r, Installer)
  BY <1>1, <1>2, PrefixAntisym DEF Under
<1>6. WithinOrEqual(r, SystemRoot) \/ Under(SystemRoot, r)
  BY <1>1, <1>2, <1>3, PrefixesCompare DEF UsualPlaces, WithinOrEqual, Under
<1> QED
  BY <1>1, <1>3, <1>4, <1>5, <1>6, Unprotected DEF Under, WithinOrEqual

LEMMA OwnDirectoryKeptFromInv ==
    ASSUME GuardInv, UsualPlaces
    PROVE  OwnDirectoryKept
<1> SUFFICES ASSUME verdict = "allowed", AppDir \in Taken
             PROVE  FALSE
  BY DEF OwnDirectoryKept
<1> DEFINE r == RealPath(target)
<1>1. /\ AppDir \in Seq(Part) /\ r \in Seq(Part) /\ IsPrefix(r, AppDir) /\ ~CheckSingle(r)
  BY TakenFacts
<1>2. /\ ProgramData \in Seq(Part) /\ Installer \in Seq(Part)
      /\ AppDir \in FullyProtected
  BY RootTypes DEF FullyProtected
<1>3. ~WithinOrEqual(r, ProgramData) /\ ~WithinOrEqual(r, Installer)
  BY <1>1, <1>2, PrefixTrans DEF UsualPlaces, WithinOrEqual
<1>4. WithinOrEqual(r, AppDir) \/ Under(AppDir, r)
  BY <1>1 DEF WithinOrEqual, Under
<1> QED
  BY <1>1, <1>2, <1>3, <1>4, Unprotected DEF Under, WithinOrEqual

LEMMA RestDeletableFromInv ==
    ASSUME GuardInv
    PROVE  RestDeletable
<1> SUFFICES ASSUME verdict = "refused" PROVE RestDeletable
  BY DEF RestDeletable
<1>1. PICK p \in {target, RealPath(target)} : CheckSingle(p)
  BY DEF GuardInv, IsProtected
<1>2. p \in Seq(Part) /\ p # <<>>
  BY RealPathType, PathType DEF GuardInv
<1>3. CASE CheckDepth(p)
  <2>1. DepthBelowRoot(p) < (IF Len(p) > 1 /\ p[2] = Users THEN 3 ELSE 2)
    BY <1>2, <1>3 DEF CheckDepth, DepthBelowRoot, MinPathDepth, UserProfileMinDepth
  <2> QED
    BY <2>1 DEF RestDeletable
<1>4. CASE p \in {ProgramData, Installer}
  BY <1>4 DEF RestDeletable
<1>5. CASE /\ ~WithinOrEqual(p, ProgramData) /\ ~WithinOrEqual(p, Installer)
           /\ \E root \in FullyProtected : WithinOrEqual(p, root) \/ Under(root, p)
  <2>1. ~Releasable(p)
    BY <1>5 DEF Releasable, Under, WithinOrEqual
  <2>2. \E root \in FullyProtected : WithinOrEqual(p, root) \/ WithinOrEqual(root, p)
    BY <1>5 DEF Under, WithinOrEqual
  <2> QED
    BY <2>1, <2>2 DEF RestDeletable
<1> QED
  BY <1>1, <1>3, <1>4, <1>5, Protected

-----------------------------------------------------------------------------
(* The theorems *)

LEMMA GuardInvAlways == GuardSpec => []GuardInv
<1>1. GuardInit => GuardInv
  BY DEF GuardInit, GuardInv
<1>2. GuardInv /\ [GuardNext]_guardVars => GuardInv'
  <2> SUFFICES ASSUME GuardInv, [GuardNext]_guardVars PROVE GuardInv'
    OBVIOUS
  <2>1. CASE Decide
    <3>1. target' = target /\ link' = link
      BY <2>1 DEF Decide
    <3>2. IsProtected(target)' <=> IsProtected(target)
      BY <3>1 DEF IsProtected, CheckSingle, CheckDepth, DepthBelowRoot, RealPath
    <3> QED
      BY <2>1, <3>1, <3>2 DEF Decide, GuardInv
  <2>2. CASE UNCHANGED guardVars
    BY <2>2 DEF guardVars, GuardInv, IsProtected, RealPath
  <2> QED
    BY <2>1, <2>2 DEF GuardNext
<1> QED
  BY <1>1, <1>2, PTL DEF GuardSpec

(* What path_guard.py allows to be deleted never takes away a part of        *)
(* C:\Windows or C:\Program Files, a drive or a user's profile, wherever the *)
(* roots are and whatever link leads there; only what is inside ProgramData  *)
(* or Installer may go.                                                      *)
THEOREM SystemAlwaysKept == GuardSpec => []SystemKept
  BY GuardInvAlways, SystemKeptFromInv, PTL

(* In the usual layout of Windows neither the two roots whose contents may   *)
(* be deleted nor the program's own directory is taken away either.          *)
THEOREM ProtectedAlwaysKept ==
    ASSUME UsualPlaces
    PROVE  GuardSpec => []ProtectedKept
<1>1. GuardInv => ProtectedKept
  BY SystemKeptFromInv, ContentsRootsKeptFromInv, OwnDirectoryKeptFromInv DEF ProtectedKept
<1> QED
  BY <1>1, GuardInvAlways, PTL

(* is_protected refuses nothing but shallow paths, the two roots, and what   *)
(* is in, at or above a fully protected root.                                *)
THEOREM RestAlwaysDeletable == GuardSpec => []RestDeletable
  BY GuardInvAlways, RestDeletableFromInv, PTL
=============================================================================
