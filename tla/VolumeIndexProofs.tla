------------------------- MODULE VolumeIndexProofs -------------------------
(***************************************************************************)
(* Proofs about VolumeIndex, for every number of files, records, journals  *)
(* and runs of the program, for both hosts and every set of faults.        *)
(***************************************************************************)
EXTENDS VolumeIndex, Integers, TLAPS

-----------------------------------------------------------------------------
(* Type correctness *)

LEMMA VolumeTypeInit == VolumeInit => VolumeTypeOK
  BY DEF VolumeInit, VolumeTypeOK

(* A batch of records journalled by a change leaves the volume well typed. *)
LEMMA JournalType ==
    ASSUME VolumeTypeOK, NEW rs \in Seq(Record), Journal(rs)
    PROVE  /\ hist' \in Seq(Record)
           /\ base' \in Nat /\ low' \in Nat /\ jid' \in Nat
           /\ base' <= low' /\ low' <= Len(hist')
           /\ Len(hist') = Len(hist) + Len(rs)
  BY DEF VolumeTypeOK, Journal

LEMMA VolumeTypeStep == VolumeTypeOK /\ VolumeNext => VolumeTypeOK'
<1> SUFFICES ASSUME VolumeTypeOK, VolumeNext PROVE VolumeTypeOK'
  OBVIOUS
<1>1. ASSUME NEW f \in Frn, NEW l \in Link, NEW m \in Meta, CreateFile(f, l, m)
      PROVE  VolumeTypeOK'
  <2>1. <<Said(f, l, TRUE)>> \in Seq(Record)
    BY DEF Said, Record
  <2>2. disk' \in [Frn -> File \cup {Absent}] /\ fresh' \in SUBSET Frn
    BY <1>1 DEF CreateFile, VolumeTypeOK, File
  <2> QED
    BY <1>1, <2>1, <2>2, JournalType DEF CreateFile, VolumeTypeOK
<1>2. ASSUME NEW f \in Frn, NEW m \in Meta, WriteFile(f, m)
      PROVE  VolumeTypeOK'
  <2>1. disk[f] \in File
    BY <1>2 DEF WriteFile, VolumeTypeOK
  <2>2. <<Said(f, disk[f].link, TRUE)>> \in Seq(Record)
    BY <2>1 DEF Said, Record, File
  <2>3. disk' \in [Frn -> File \cup {Absent}] /\ fresh' \in SUBSET Frn
    BY <1>2, <2>1 DEF WriteFile, VolumeTypeOK, File
  <2> QED
    BY <1>2, <2>2, <2>3, JournalType DEF WriteFile, VolumeTypeOK
<1>3. ASSUME NEW f \in Frn, TouchFile(f)
      PROVE  VolumeTypeOK'
  <2>1. disk[f] \in File
    BY <1>3 DEF TouchFile, VolumeTypeOK
  <2>2. <<Said(f, disk[f].link, FALSE)>> \in Seq(Record)
    BY <2>1 DEF Said, Record, File
  <2> QED
    BY <1>3, <2>2, JournalType DEF TouchFile, VolumeTypeOK
<1>4. ASSUME NEW f \in Frn, NEW l \in Link, RenameFile(f, l)
      PROVE  VolumeTypeOK'
  <2>1. disk[f] \in File
    BY <1>4 DEF RenameFile, VolumeTypeOK
  <2>2. <<Said(f, disk[f].link, FALSE), Said(f, l, TRUE)>> \in Seq(Record)
    BY <2>1 DEF Said, Record, File
  <2>3. disk' \in [Frn -> File \cup {Absent}] /\ fresh' \in SUBSET Frn
    BY <1>4, <2>1 DEF RenameFile, VolumeTypeOK, File
  <2> QED
    BY <1>4, <2>2, <2>3, JournalType DEF RenameFile, VolumeTypeOK
<1>5. ASSUME NEW f \in Frn, DeleteFile(f)
      PROVE  VolumeTypeOK'
  <2>1. disk[f] \in File
    BY <1>5 DEF DeleteFile, VolumeTypeOK
  <2>2. <<Gone(f)>> \in Seq(Record)
    BY <2>1 DEF Gone, Record, File
  <2> QED
    BY <1>5, <2>2, JournalType DEF DeleteFile, VolumeTypeOK
<1>6. CASE TrimJournal
  BY <1>6 DEF TrimJournal, VolumeTypeOK
<1>7. CASE ResetJournal
  BY <1>7 DEF ResetJournal, VolumeTypeOK
<1> QED
  BY <1>1, <1>2, <1>3, <1>4, <1>5, <1>6, <1>7 DEF VolumeNext, ChangeFile

USE DEF vars, volumeVars, threadVars, scanVars, saveVars, indexVars

LEMMA NothingType == Nothing \in Map
  BY DEF Nothing, Map

LEMMA TornType == ASSUME NEW recs \in Map PROVE Torn(recs) \in Snapshot
  BY DEF Torn, Snapshot

LEMMA WrittenType ==
    ASSUME records \in Map, NEW kept \in SUBSET Frn PROVE Written(kept) \in Snapshot
<1>1. [f \in Frn |-> IF f \in kept THEN records[f] ELSE Absent] \in Map
  BY DEF Map
<1> QED
  BY <1>1, TornType DEF Written

LEMMA InHandType ==
    ASSUME TypeOK, Positions, buffered > 0
    PROVE  InHand \in Record /\ applied + 1 \in 1 .. Len(hist)
  BY DEF TypeOK, VolumeTypeOK, Positions, InHand

LEMMA HistFrn ==
    ASSUME VolumeTypeOK, NEW i \in 1 .. Len(hist)
    PROVE  hist[i].frn \in Frn
<1>1. hist[i] \in Record
  BY DEF VolumeTypeOK
<1> QED
  BY <1>1 DEF Record

LEMMA SkippedType ==
    ASSUME VolumeTypeOK, NEW from \in Nat, NEW to \in Nat, to <= Len(hist)
    PROVE  Skipped(from, to) \in SUBSET Frn
<1> SUFFICES ASSUME NEW i \in from + 1 .. to PROVE hist[i].frn \in Frn
  BY DEF Skipped
<1>1. i \in 1 .. Len(hist)
  BY DEF VolumeTypeOK
<1> QED
  BY <1>1, HistFrn

LEMMA TerminateType ==
    ASSUME TypeOK, NEW left \in Snapshot, Terminate(left) PROVE TypeOK'
  BY NothingType DEF TypeOK, VolumeTypeOK, Terminate, EndReading, EndScan, Phases,
     Bases, Tag, NoTag

LEMMA DieType == ASSUME TypeOK, Die PROVE TypeOK'
<1>1. CASE saving = "tagged"
  <2>1. PICK kept \in SUBSET {f \in Frn : records[f] # Absent} :
            Terminate(Written(kept))
    BY <1>1 DEF Die
  <2> QED
    BY <2>1, WrittenType, TerminateType DEF TypeOK
<1>2. CASE saving # "tagged"
  BY <1>2, TerminateType DEF Die, TypeOK
<1> QED
  BY <1>1, <1>2

LEMMA MftAnswersType ==
    ASSUME VolumeTypeOK, NEW f \in Frn
    PROVE  MftAnswers(f) \in SUBSET (Meta \cup {NoMeta})
<1>1. disk[f] # Absent => disk[f].meta \in Meta
  BY DEF VolumeTypeOK, File
<1> QED
  BY <1>1 DEF MftAnswers

LEMMA TypeInit == Init => TypeOK
<1> SUFFICES ASSUME Init PROVE TypeOK
  OBVIOUS
<1>1. drive \in BOOLEAN
  BY DEF Init
<1> QED
  BY <1>1, VolumeTypeInit, NothingType, TornType
  DEF Init, TypeOK, Phases, Bases, Tag, NoTag

LEMMA TypeStep == IInv /\ [Next]_vars => TypeOK'
<1> SUFFICES ASSUME IInv, [Next]_vars PROVE TypeOK'
  OBVIOUS
<1> USE DEF IInv, TypeOK
<1>1. CASE VolumeStep
  BY <1>1, VolumeTypeStep DEF VolumeStep
<1>2. CASE LoadFromFile
  <2>1. drive' \in BOOLEAN
    BY <1>2 DEF LoadFromFile
  <2> QED
    BY <1>2, <2>1 DEF LoadFromFile, Snapshot, Phases, Bases, VolumeTypeOK
<1>3. CASE LoadThrow
  BY <1>3 DEF LoadThrow, Phases, VolumeTypeOK
<1>4. CASE CatchUpStep
  <2>1. CASE CatchUpBegin
    BY <2>1 DEF CatchUpBegin, Phases, VolumeTypeOK, NextUsn
  <2>2. CASE CatchUpRead
    BY <2>2 DEF CatchUpRead, FillBuffer, VolumeTypeOK
  <2>3. CASE Refuse
    BY <2>3 DEF Refuse, EndReading, Phases, Bases, VolumeTypeOK
  <2>4. CASE CatchUpDone
    BY <2>4 DEF CatchUpDone, EndReading, Phases, Bases, VolumeTypeOK
  <2> QED
    BY <1>4, <2>1, <2>2, <2>3, <2>4 DEF CatchUpStep, CatchUpRefuse, CatchUpFail
<1>5. CASE ApplyStep
  <2>1. buffered > 0 /\ InHand \in Record
    BY <1>5, InHandType DEF ApplyStep, ApplyDelete, ApplyReadMft, ApplyUpsert
  <2>2. CASE ApplyDelete
    <3>1. [records EXCEPT ![InHand.frn] = Absent] \in Map
      BY DEF Map
    <3> QED
      BY <2>1, <2>2, <3>1 DEF ApplyDelete, Applied, VolumeTypeOK
  <2>3. CASE ApplyReadMft
    BY <2>1, <2>3, MftAnswersType DEF ApplyReadMft, Record, VolumeTypeOK
  <2>4. CASE ApplyUpsert
    <3> DEFINE kept == ~InHand.refresh /\ records[InHand.frn] # Absent
    <3> DEFINE entry == [link |-> InHand.link,
                         meta |-> IF kept THEN records[InHand.frn].meta ELSE pend]
    <3>1. pend \in Meta \cup {NoMeta}
      BY <2>4 DEF ApplyUpsert
    <3>2. entry \in Entry
      BY <2>1, <3>1 DEF Record, Map, Entry
    <3>3. Applied([records EXCEPT ![InHand.frn] = entry])
      BY <2>4 DEF ApplyUpsert
    <3> HIDE DEF entry
    <3>4. [records EXCEPT ![InHand.frn] = entry] \in Map
      BY <3>2 DEF Map
    <3> QED
      BY <2>1, <3>3, <3>4 DEF Applied, VolumeTypeOK
  <2> QED
    BY <1>5, <2>2, <2>3, <2>4 DEF ApplyStep
<1>6. CASE BuildStep
  <2>1. CASE BuildBegin
    BY <2>1, NothingType DEF BuildBegin, Phases, VolumeTypeOK
  <2>2. ASSUME NEW f \in Frn, EnumFile(f) PROVE TypeOK'
    <3>1. scan' \in Map
      BY <2>2 DEF EnumFile, Map, Entry, File, VolumeTypeOK
    <3> QED
      BY <2>2, <3>1 DEF EnumFile, VolumeTypeOK
  <2>3. ASSUME NEW f \in Frn, MetaFile(f) PROVE TypeOK'
    <3>1. scan[f] # Absent => scan[f] \in Entry
      BY DEF Map
    <3>2. PICK m \in Meta \cup {NoMeta} : scan' = [scan EXCEPT ![f].meta = m]
      BY <2>3, MftAnswersType DEF MetaFile
    <3>3. scan[f] # Absent
      BY <2>3 DEF MetaFile, ScanCovers
    <3>4. scan' \in Map
      BY <3>1, <3>2, <3>3 DEF Map, Entry
    <3> QED
      BY <2>3, <3>4 DEF MetaFile, VolumeTypeOK
  <2>4. CASE EnumDone
    BY <2>4 DEF EnumDone, Phases, VolumeTypeOK
  <2>5. CASE BuildPublish
    BY <2>5, NothingType DEF BuildPublish, EndScan, Phases, Bases, VolumeTypeOK
  <2> QED
    BY <1>6, <2>1, <2>2, <2>3, <2>4, <2>5 DEF BuildStep
<1>7. CASE WatchStep
  <2>1. NextUsn \in Nat /\ Len(hist) \in Nat
    BY DEF NextUsn, VolumeTypeOK
  <2>2. Skipped(applied, Len(hist)) \in SUBSET Frn
    BY <2>1, SkippedType
  <2>3. CASE WatchBegin
    BY <2>1, <2>2, <2>3 DEF WatchBegin, Requery, Phases, VolumeTypeOK
  <2>4. CASE WatchNever
    BY <2>4 DEF WatchNever, Phases, VolumeTypeOK
  <2>5. CASE WatchRead
    BY <2>5 DEF WatchRead, FillBuffer, VolumeTypeOK
  <2>6. CASE WatchRequery
    BY <2>1, <2>2, <2>6 DEF WatchRequery, Requery, VolumeTypeOK
  <2> QED
    BY <1>7, <2>3, <2>4, <2>5, <2>6 DEF WatchStep
<1>8. CASE Failure
  <2>1. CASE BuildThrow
    <3>1. CASE Host = "exe"
      BY <2>1, <3>1, DieType DEF BuildThrow
    <3>2. CASE Host # "exe"
      <4>1. drive' \in BOOLEAN
        BY <2>1, <3>2 DEF BuildThrow
      <4> QED
        BY <2>1, <3>2, <4>1, NothingType
        DEF BuildThrow, EndReading, EndScan, Phases, VolumeTypeOK
    <3> QED
      BY <3>1, <3>2
  <2>2. CASE BuildFail
    BY <2>2, NothingType DEF BuildFail, EndScan, Phases, VolumeTypeOK
  <2>3. CASE WatchThrow
    BY <2>3 DEF WatchThrow, EndReading, Phases, VolumeTypeOK
  <2>4. CASE WatchEnd
    BY <2>4 DEF WatchEnd, EndReading, Phases, VolumeTypeOK
  <2>5. CASE Crash
    BY <2>5, DieType DEF Crash
  <2> QED
    BY <1>8, <2>1, <2>2, <2>3, <2>4, <2>5 DEF Failure
<1>9. CASE SaveStep
  <2>1. CASE SaveBegin
    BY <2>1, NothingType, TornType DEF SaveBegin, Tag, NextUsn, VolumeTypeOK
  <2>2. CASE SaveRefuse
    BY <2>2 DEF SaveRefuse, VolumeTypeOK
  <2>3. CASE SaveWrite
    <3>1. lost \cup Skipped(applied, tag.upto) \in SUBSET Frn
      <4> tag.upto \in Nat /\ tag.upto <= Len(hist)
        BY <2>3 DEF SaveWrite, Positions, Tag
      <4> QED
        BY SkippedType
    <3>2. file' \in Snapshot
      BY <2>3, <3>1 DEF SaveWrite, Snapshot, Tag
    <3> QED
      BY <2>3, <3>2 DEF SaveWrite, Tag, NoTag, VolumeTypeOK
  <2>4. CASE SaveShort
    BY <2>4, WrittenType DEF SaveShort, Tag, NoTag, VolumeTypeOK
  <2> QED
    BY <1>9, <2>1, <2>2, <2>3, <2>4 DEF SaveStep
<1>10. CASE Exit
  BY <1>10, TerminateType DEF Exit
<1>11. CASE UNCHANGED vars
  BY <1>11 DEF VolumeTypeOK
<1> QED
  BY <1>1, <1>2, <1>3, <1>4, <1>5, <1>6, <1>7, <1>8, <1>9, <1>10, <1>11 DEF Next
-----------------------------------------------------------------------------
(* What a step of the volume does to its history *)

Grows ==
    /\ Len(hist) <= Len(hist')
    /\ \A i \in 1 .. Len(hist) : hist'[i] = hist[i]

\* The step journals a record of f; one that makes the index read the MFT.
News(f) == \E i \in Len(hist) + 1 .. Len(hist') : hist'[i].frn = f

NewsMeta(f) ==
    \E i \in Len(hist) + 1 .. Len(hist') : hist'[i].frn = f /\ hist'[i].refresh

LinkMoved(f) ==
    \/ (disk[f] = Absent) # (disk'[f] = Absent)
    \/ disk'[f] # Absent /\ disk[f].link # disk'[f].link

MetaMoved(f) ==
    disk'[f] # Absent /\ (disk[f] = Absent \/ disk[f].meta # disk'[f].meta)

Reported ==
    \A f \in Frn : (LinkMoved(f) => News(f)) /\ (MetaMoved(f) => NewsMeta(f))

(* The records a change journals come after all the others. *)
LEMMA JournalOne ==
    ASSUME VolumeTypeOK, NEW r \in Record, Journal(<<r>>)
    PROVE  /\ Grows
           /\ Len(hist') = Len(hist) + 1
           /\ hist'[Len(hist) + 1] = r
  BY DEF VolumeTypeOK, Journal, Grows

LEMMA JournalTwo ==
    ASSUME VolumeTypeOK, NEW r \in Record, NEW s \in Record, Journal(<<r, s>>)
    PROVE  /\ Grows
           /\ Len(hist') = Len(hist) + 2
           /\ hist'[Len(hist) + 1] = r
           /\ hist'[Len(hist) + 2] = s
  BY DEF VolumeTypeOK, Journal, Grows

(* A change of one file, journalled by one record that tells its new state. *)
LEMMA OneRecord ==
    ASSUME VolumeTypeOK, HistSettled, GoneForGood, NEW f \in Frn,
           NEW r \in Record, Journal(<<r>>), r.frn = f,
           fresh' \in {fresh, fresh \ {f}},
           disk'[f] # Absent => f \notin fresh' /\ (f \in fresh \/ disk[f] # Absent),
           r.gone => f \notin fresh,
           disk' \in [Frn -> File \cup {Absent}],
           \A g \in Frn \ {f} : disk'[g] = disk[g],
           r.gone <=> disk'[f] = Absent,
           ~r.gone => disk'[f].link = r.link,
           MetaMoved(f) => r.refresh
    PROVE  Grows /\ Reported /\ HistSettled' /\ GoneForGood'
<1>1. /\ Grows
      /\ Len(hist') = Len(hist) + 1
      /\ hist'[Len(hist) + 1] = r
  BY JournalOne
<1>2. Len(hist) \in Nat
  BY DEF VolumeTypeOK
<1>3. News(f)
  BY <1>1, <1>2 DEF News
<1>4. r.refresh => NewsMeta(f)
  BY <1>1, <1>2 DEF NewsMeta
<1>5. Reported
  <2> SUFFICES ASSUME NEW g \in Frn
               PROVE  (LinkMoved(g) => News(g)) /\ (MetaMoved(g) => NewsMeta(g))
    BY DEF Reported
  <2>1. CASE g = f
    BY <1>3, <1>4, <2>1
  <2>2. CASE g # f
    <3> disk'[g] = disk[g]
      BY <2>2
    <3> QED
      BY DEF LinkMoved, MetaMoved
  <2> QED
    BY <2>1, <2>2
<1>6. HistSettled'
  <2> SUFFICES ASSUME NEW i \in 1 .. Len(hist'),
                      \A j \in i + 1 .. Len(hist') : hist'[j].frn # hist'[i].frn
               PROVE  /\ hist'[i].gone <=> disk'[hist'[i].frn] = Absent
                      /\ ~hist'[i].gone => disk'[hist'[i].frn].link = hist'[i].link
    BY DEF HistSettled
  <2>1. CASE i = Len(hist) + 1
    BY <1>1, <2>1
  <2>2. CASE i # Len(hist) + 1
    <3>1. i \in 1 .. Len(hist) /\ hist'[i] = hist[i]
      BY <1>1, <1>2, <2>2 DEF Grows
    <3>2. hist[i].frn # f
      BY <1>1, <1>2, <3>1
    <3>3. hist[i].frn \in Frn
      BY <3>1, HistFrn
    <3>4. \A j \in i + 1 .. Len(hist) : hist[j].frn # hist[i].frn
      BY <1>1, <1>2, <3>1 DEF Grows
    <3> QED
      BY <3>1, <3>2, <3>3, <3>4 DEF HistSettled
  <2> QED
    BY <2>1, <2>2
<1>7. GoneForGood'
  <2>1. \A g \in fresh' : disk'[g] = Absent
    BY DEF GoneForGood, VolumeTypeOK
  <2>2. ASSUME NEW i \in 1 .. Len(hist'), hist'[i].gone
        PROVE  disk'[hist'[i].frn] = Absent /\ hist'[i].frn \notin fresh'
    <3>1. CASE i = Len(hist) + 1
      BY <1>1, <2>2, <3>1
    <3>2. CASE i # Len(hist) + 1
      <4>1. i \in 1 .. Len(hist) /\ hist'[i] = hist[i]
        BY <1>1, <1>2, <3>2 DEF Grows
      <4>2. disk[hist[i].frn] = Absent /\ hist[i].frn \notin fresh
        BY <2>2, <4>1 DEF GoneForGood
      <4>3. hist[i].frn \in Frn
        BY <4>1, HistFrn
      <4> QED
        BY <4>1, <4>2, <4>3
    <3> QED
      BY <3>1, <3>2
  <2> QED
    BY <2>1, <2>2 DEF GoneForGood
<1> QED
  BY <1>1, <1>5, <1>6, <1>7

(* Whatever the volume does, it reports it: the records are appended to the
   history and the last one of each file is true. *)
LEMMA VolumeReports ==
    ASSUME VolumeTypeOK, HistSettled, GoneForGood, VolumeNext
    PROVE  Grows /\ Reported /\ HistSettled' /\ GoneForGood'
<1> disk \in [Frn -> File \cup {Absent}]
  BY DEF VolumeTypeOK
<1>1. ASSUME NEW f \in Frn, NEW l \in Link, NEW m \in Meta, CreateFile(f, l, m)
      PROVE  Grows /\ Reported /\ HistSettled' /\ GoneForGood'
  <2> DEFINE r == Said(f, l, TRUE)
  <2>1. r \in Record /\ r.frn = f /\ ~r.gone /\ r.link = l /\ r.refresh
    BY DEF Said, Record
  <2>2. /\ Journal(<<r>>) /\ disk'[f] = [link |-> l, meta |-> m]
        /\ f \in fresh /\ fresh' = fresh \ {f}
    BY <1>1 DEF CreateFile
  <2>3. \A g \in Frn \ {f} : disk'[g] = disk[g]
    BY <1>1 DEF CreateFile
  <2>4. /\ disk' \in [Frn -> File \cup {Absent}]
        /\ disk'[f] # Absent /\ disk'[f].link = l
    BY <1>1, <2>2, VolumeAssumption DEF CreateFile, File
  <2> HIDE DEF r
  <2> QED
    BY <2>1, <2>2, <2>3, <2>4, OneRecord
<1>2. ASSUME NEW f \in Frn, NEW m \in Meta, WriteFile(f, m)
      PROVE  Grows /\ Reported /\ HistSettled' /\ GoneForGood'
  <2> DEFINE r == Said(f, disk[f].link, TRUE)
  <2>0. disk[f] \in File
    BY <1>2 DEF WriteFile
  <2>1. r \in Record /\ r.frn = f /\ ~r.gone /\ r.link = disk[f].link /\ r.refresh
    BY <2>0 DEF Said, Record, File
  <2>2. /\ Journal(<<r>>) /\ disk'[f] = [disk[f] EXCEPT !.meta = m]
        /\ fresh' = fresh /\ disk[f] # Absent /\ f \notin fresh
    BY <1>2 DEF WriteFile, GoneForGood
  <2>3. \A g \in Frn \ {f} : disk'[g] = disk[g]
    BY <1>2 DEF WriteFile
  <2>4. disk'[f] \in File /\ disk'[f].link = disk[f].link
    BY <2>0, <2>2 DEF File
  <2>5. /\ disk' \in [Frn -> File \cup {Absent}]
        /\ disk'[f] # Absent
    BY <1>2, <2>4, VolumeAssumption DEF WriteFile, File
  <2> HIDE DEF r
  <2> QED
    BY <2>1, <2>2, <2>3, <2>4, <2>5, OneRecord
<1>3. ASSUME NEW f \in Frn, TouchFile(f)
      PROVE  Grows /\ Reported /\ HistSettled' /\ GoneForGood'
  <2> DEFINE r == Said(f, disk[f].link, FALSE)
  <2>0. disk[f] \in File
    BY <1>3 DEF TouchFile
  <2>1. r \in Record /\ r.frn = f /\ ~r.gone /\ r.link = disk[f].link
    BY <2>0 DEF Said, Record, File
  <2>2. /\ Journal(<<r>>) /\ disk' = disk
        /\ fresh' = fresh /\ disk[f] # Absent /\ f \notin fresh
    BY <1>3 DEF TouchFile, GoneForGood
  <2> HIDE DEF r
  <2>3. ~MetaMoved(f)
    BY <2>2 DEF MetaMoved
  <2> QED
    BY <2>1, <2>2, <2>3, OneRecord
<1>4. ASSUME NEW f \in Frn, DeleteFile(f)
      PROVE  Grows /\ Reported /\ HistSettled' /\ GoneForGood'
  <2> DEFINE r == Gone(f)
  <2>0. disk[f] \in File
    BY <1>4 DEF DeleteFile
  <2>1. r \in Record /\ r.frn = f /\ r.gone
    BY <2>0 DEF Gone, Record, File
  <2>2. /\ Journal(<<r>>) /\ disk'[f] = Absent
        /\ fresh' = fresh /\ disk[f] # Absent /\ f \notin fresh
    BY <1>4 DEF DeleteFile, GoneForGood
  <2>3. /\ \A g \in Frn \ {f} : disk'[g] = disk[g]
        /\ disk' \in [Frn -> File \cup {Absent}]
    BY <1>4 DEF DeleteFile
  <2> HIDE DEF r
  <2>4. ~MetaMoved(f)
    BY <2>2 DEF MetaMoved
  <2> QED
    BY <2>1, <2>2, <2>3, <2>4, OneRecord
<1>5. ASSUME NEW f \in Frn, NEW l \in Link, RenameFile(f, l)
      PROVE  Grows /\ Reported /\ HistSettled' /\ GoneForGood'
  <2> DEFINE r == Said(f, disk[f].link, FALSE)
  <2> DEFINE s == Said(f, l, TRUE)
  <2>0. disk[f] \in File
    BY <1>5 DEF RenameFile
  <2>1. /\ r \in Record /\ r.frn = f /\ ~r.gone
        /\ s \in Record /\ s.frn = f /\ ~s.gone /\ s.link = l /\ s.refresh
    BY <2>0 DEF Said, Record, File
  <2>2. /\ Journal(<<r, s>>) /\ disk'[f] = [disk[f] EXCEPT !.link = l]
        /\ fresh' = fresh /\ disk[f] # Absent /\ f \notin fresh
    BY <1>5 DEF RenameFile, GoneForGood
  <2>3. \A g \in Frn \ {f} : disk'[g] = disk[g]
    BY <1>5 DEF RenameFile
  <2>4. disk'[f] \in File /\ disk'[f].link = l
    BY <2>0, <2>2 DEF File
  <2>5. disk'[f] # Absent
    BY <2>4, VolumeAssumption DEF File
  <2> HIDE DEF r, s
  <2>6. /\ Grows
        /\ Len(hist') = Len(hist) + 2
        /\ hist'[Len(hist) + 1] = r
        /\ hist'[Len(hist) + 2] = s
    BY <2>1, <2>2, JournalTwo
  <2>7. Len(hist) \in Nat
    BY DEF VolumeTypeOK
  <2>8. News(f) /\ NewsMeta(f)
    BY <2>1, <2>6, <2>7 DEF News, NewsMeta
  <2>9. Reported
    BY <2>3, <2>8 DEF Reported, LinkMoved, MetaMoved
  <2>10. HistSettled'
    <3> SUFFICES ASSUME NEW i \in 1 .. Len(hist'),
                        \A j \in i + 1 .. Len(hist') : hist'[j].frn # hist'[i].frn
                 PROVE  /\ hist'[i].gone <=> disk'[hist'[i].frn] = Absent
                        /\ ~hist'[i].gone => disk'[hist'[i].frn].link = hist'[i].link
      BY DEF HistSettled
    <3>1. CASE i = Len(hist) + 2
      BY <2>1, <2>4, <2>5, <2>6, <3>1
    <3>2. CASE i = Len(hist) + 1
      BY <2>1, <2>6, <2>7, <3>2
    <3>3. CASE i \in 1 .. Len(hist)
      <4>1. hist'[i] = hist[i]
        BY <2>6, <3>3 DEF Grows
      <4>2. hist[i].frn # f
        BY <2>1, <2>6, <2>7, <3>3, <4>1
      <4>3. hist[i].frn \in Frn
        BY <3>3, HistFrn
      <4>4. \A j \in i + 1 .. Len(hist) : hist[j].frn # hist[i].frn
        BY <2>6, <2>7, <3>3 DEF Grows
      <4> QED
        BY <2>3, <3>3, <4>1, <4>2, <4>3, <4>4 DEF HistSettled
    <3> QED
      BY <2>6, <2>7, <3>1, <3>2, <3>3
  <2>11. GoneForGood'
    <3>1. \A g \in fresh' : disk'[g] = Absent
      BY <2>2, <2>3 DEF GoneForGood, VolumeTypeOK
    <3>2. ASSUME NEW i \in 1 .. Len(hist'), hist'[i].gone
          PROVE  disk'[hist'[i].frn] = Absent /\ hist'[i].frn \notin fresh'
      <4>1. i \in 1 .. Len(hist) /\ hist'[i] = hist[i]
        <5>1. i # Len(hist) + 1 /\ i # Len(hist) + 2
          BY <2>1, <2>6, <3>2
        <5> QED
          BY <5>1, <2>6, <2>7 DEF Grows
      <4>2. disk[hist[i].frn] = Absent /\ hist[i].frn \notin fresh
        BY <3>2, <4>1 DEF GoneForGood
      <4>3. hist[i].frn \in Frn
        BY <4>1, HistFrn
      <4> QED
        BY <2>2, <2>3, <4>1, <4>2, <4>3
    <3> QED
      BY <3>1, <3>2 DEF GoneForGood
  <2> QED
    BY <2>6, <2>9, <2>10, <2>11
<1>6. CASE TrimJournal \/ ResetJournal
  <2>1. hist' = hist /\ disk' = disk /\ fresh' = fresh
    BY <1>6 DEF TrimJournal, ResetJournal
  <2>2. HistSettled' /\ GoneForGood'
    BY <2>1 DEF HistSettled, GoneForGood
  <2> QED
    BY <2>1, <2>2 DEF Grows, Reported, LinkMoved, MetaMoved, VolumeTypeOK
<1> QED
  BY <1>1, <1>2, <1>3, <1>4, <1>5, <1>6 DEF VolumeNext, ChangeFile
-----------------------------------------------------------------------------
(* What is stale after a step of the volume has a record to correct it *)

\* LinkStale, MetaStale, Unread and UnreadMeta after the step, for a map and a
\* position the step does not change.
LinkStaleNext(map, f) ==
    IF disk'[f] = Absent THEN map[f] # Absent
    ELSE map[f] = Absent \/ map[f].link # disk'[f].link

MetaStaleNext(map, f) ==
    disk'[f] # Absent /\ (map[f] = Absent \/ WrongMeta(map[f].meta, disk'[f].meta))

UnreadNext(f, upto) == \E i \in upto + 1 .. Len(hist') : hist'[i].frn = f

UnreadMetaNext(f, upto) ==
    \E i \in upto + 1 .. Len(hist') : hist'[i].frn = f /\ hist'[i].refresh

(* A record that is still to be read remains so. *)
LEMMA StillUnread ==
    ASSUME VolumeTypeOK, Grows, NEW f, NEW upto \in Nat
    PROVE  /\ Unread(f, upto) => UnreadNext(f, upto)
           /\ UnreadMeta(f, upto) => UnreadMetaNext(f, upto)
<1>1. Len(hist) \in Nat /\ Len(hist') \in Int /\ Len(hist) <= Len(hist')
  BY DEF VolumeTypeOK, Grows
<1>2. ASSUME NEW i \in upto + 1 .. Len(hist)
      PROVE  i \in upto + 1 .. Len(hist') /\ hist'[i] = hist[i]
  BY <1>1, <1>2 DEF Grows
<1> QED
  BY <1>2 DEF Unread, UnreadMeta, UnreadNext, UnreadMetaNext

(* A record that is journalled now comes after every position held. *)
LEMMA NewsUnread ==
    ASSUME VolumeTypeOK, Grows, NEW f, NEW upto \in Nat, upto <= Len(hist)
    PROVE  /\ News(f) => UnreadNext(f, upto)
           /\ NewsMeta(f) => UnreadMetaNext(f, upto)
<1>1. Len(hist) \in Nat /\ Len(hist') \in Int
  BY DEF VolumeTypeOK, Grows
<1>2. ASSUME NEW i \in Len(hist) + 1 .. Len(hist')
      PROVE  i \in upto + 1 .. Len(hist')
  BY <1>1, <1>2
<1> QED
  BY <1>2 DEF News, NewsMeta, UnreadNext, UnreadMetaNext

(* So a map that was covered from a position stays covered from it. *)
LEMMA CoversStep ==
    ASSUME VolumeTypeOK, Grows, Reported, NEW map, NEW f \in Frn,
           NEW upto \in Nat, upto <= Len(hist)
    PROVE  /\ (LinkStale(map, f) => Unread(f, upto))
              => (LinkStaleNext(map, f) => UnreadNext(f, upto))
           /\ (MetaStale(map, f) => UnreadMeta(f, upto))
              => (MetaStaleNext(map, f) => UnreadMetaNext(f, upto))
           /\ (map[f] = Absent /\ disk[f] # Absent => UnreadMeta(f, upto))
              => (map[f] = Absent /\ disk'[f] # Absent => UnreadMetaNext(f, upto))
<1>1. CASE LinkMoved(f)
  BY <1>1, NewsUnread, StillUnread
  DEF Reported, LinkMoved, MetaMoved, MetaStale, MetaStaleNext
<1>2. CASE ~LinkMoved(f)
  BY <1>2, NewsUnread, StillUnread
  DEF Reported, LinkMoved, MetaMoved, LinkStale, LinkStaleNext, MetaStale, MetaStaleNext
<1> QED
  BY <1>1, <1>2

(* Offsets keep their meaning until the journal is deleted. *)
LEMMA VolumeOffsets ==
    ASSUME VolumeTypeOK, VolumeNext
    PROVE  jid <= jid' /\ (jid' = jid => base' = base)
<1>1. CASE ChangeFile
  <2>1. base' = base /\ jid' = jid
    BY <1>1 DEF ChangeFile, CreateFile, WriteFile, TouchFile, RenameFile,
       DeleteFile, Journal
  <2> QED
    BY <2>1 DEF VolumeTypeOK
<1>2. CASE TrimJournal
  BY <1>2 DEF TrimJournal, VolumeTypeOK
<1>3. CASE ResetJournal
  BY <1>3 DEF ResetJournal, VolumeTypeOK
<1> QED
  BY <1>1, <1>2, <1>3 DEF VolumeNext

\* The conjuncts of IInv about what the program holds.
Carried ==
    /\ Positions
    /\ Buffering
    /\ PendCovers
    /\ ScanCovers
    /\ StaleIsAccounted
    /\ SnapshotIsAccounted

LEMMA VolumeStepCarries == ASSUME IInv, VolumeStep PROVE Carried'
<1> USE DEF IInv
<1>1. /\ VolumeTypeOK /\ Grows /\ Reported
      /\ jid <= jid' /\ (jid' = jid => base' = base)
      /\ VolumeTypeOK'
  BY VolumeReports, VolumeOffsets, VolumeTypeStep DEF VolumeStep, TypeOK
<1>2. Positions' /\ Buffering'
  <2>1. /\ applied' = applied /\ buffered' = buffered /\ scanFrom' = scanFrom
        /\ curId' = curId /\ cursor' = cursor /\ phase' = phase /\ pend' = pend
        /\ saving' = saving /\ tag' = tag /\ file' = file
    BY DEF VolumeStep
  <2>2. /\ applied \in Nat /\ buffered \in Nat /\ scanFrom \in Nat /\ curId \in Nat
        /\ tag.upto \in Nat /\ tag.id \in Nat /\ file.upto \in Nat /\ file.id \in Nat
        /\ Len(hist) \in Nat /\ Len(hist') \in Nat /\ Len(hist) <= Len(hist')
        /\ jid \in Nat /\ jid' \in Nat
    BY <1>1 DEF TypeOK, VolumeTypeOK, Grows, Tag, Snapshot
  <2>3. Positions'
    BY <1>1, <2>1, <2>2 DEF Positions
  <2> QED
    BY <2>1, <2>3 DEF Buffering
<1>3. PendCovers'
  <2> SUFFICES ASSUME pend # NotRead PROVE PendCovers'
    BY DEF VolumeStep, PendCovers
  <2>1. buffered > 0
    BY DEF Buffering, TypeOK
  <2>2. InHand \in Record /\ applied + 1 \in 1 .. Len(hist)
    BY <2>1, InHandType
  <2>3. InHand' = InHand
    BY <1>1, <2>2 DEF VolumeStep, InHand, Grows
  <2> DEFINE f == InHand.frn
  <2>4. f \in Frn
    BY <2>2 DEF Record
  <2> SUFFICES ASSUME InHand.refresh, disk'[f] # Absent,
                      WrongMeta(pend, disk'[f].meta)
               PROVE  UnreadMetaNext(f, applied + 1)
    BY <2>3 DEF VolumeStep, PendCovers, UnreadMeta, UnreadMetaNext
  <2>5. applied + 1 \in Nat /\ applied + 1 <= Len(hist)
    BY <2>2 DEF TypeOK
  <2> HIDE DEF f
  <2>6. CASE MetaMoved(f)
    BY <1>1, <2>4, <2>5, <2>6, NewsUnread DEF Reported
  <2>7. CASE ~MetaMoved(f)
    <3>1. disk[f] # Absent /\ WrongMeta(pend, disk[f].meta)
      BY <2>7 DEF MetaMoved
    <3>2. UnreadMeta(f, applied + 1)
      BY <3>1 DEF PendCovers, f
    <3> QED
      BY <1>1, <2>5, <3>2, StillUnread
  <2> QED
    BY <2>6, <2>7
<1>4. ScanCovers'
  <2>1. scanFrom \in Nat /\ scanFrom <= Len(hist)
    BY DEF TypeOK, Positions
  <2> SUFFICES ASSUME NEW f \in Frn
               PROVE  /\ \/ phase = "enum" /\ f \notin todo
                         \/ phase = "meta"
                         => /\ LinkStaleNext(scan, f) => UnreadNext(f, scanFrom)
                            /\ scan[f] = Absent /\ disk'[f] # Absent
                               => UnreadMetaNext(f, scanFrom)
                      /\ phase = "meta" =>
                           IF f \in todo THEN scan[f] # Absent
                           ELSE MetaStaleNext(scan, f) => UnreadMetaNext(f, scanFrom)
    BY DEF VolumeStep, ScanCovers, LinkStale, LinkStaleNext, MetaStale,
       MetaStaleNext, Unread, UnreadNext, UnreadMeta, UnreadMetaNext
  <2> QED
    BY <1>1, <2>1, CoversStep DEF ScanCovers
<1>5. StaleIsAccounted'
  <2>1. applied \in Nat /\ applied <= Len(hist)
    BY DEF TypeOK, VolumeTypeOK, Positions
  <2> SUFFICES ASSUME NEW f \in Frn \ lost
               PROVE  /\ LinkStaleNext(records, f) => UnreadNext(f, applied)
                      /\ MetaStaleNext(records, f) => UnreadMetaNext(f, applied)
    BY DEF VolumeStep, StaleIsAccounted, Covers, LinkStale, LinkStaleNext,
       MetaStale, MetaStaleNext, Unread, UnreadNext, UnreadMeta, UnreadMetaNext
  <2> QED
    BY <1>1, <2>1, CoversStep DEF StaleIsAccounted, Covers
<1>6. SnapshotIsAccounted'
  <2> SUFFICES ASSUME file.whole, NEW f \in Frn \ file.lost
               PROVE  /\ LinkStaleNext(file.recs, f) => UnreadNext(f, file.upto)
                      /\ MetaStaleNext(file.recs, f) => UnreadMetaNext(f, file.upto)
    BY DEF VolumeStep, SnapshotIsAccounted, Covers, LinkStale, LinkStaleNext,
       MetaStale, MetaStaleNext, Unread, UnreadNext, UnreadMeta, UnreadMetaNext
  <2>1. file.upto \in Nat /\ file.upto <= Len(hist)
    BY DEF TypeOK, Positions, Snapshot
  <2> QED
    BY <1>1, <2>1, CoversStep DEF SnapshotIsAccounted, Covers
<1> QED
  BY <1>2, <1>3, <1>4, <1>5, <1>6 DEF Carried
-----------------------------------------------------------------------------
(* The steps of the program: which conjuncts a step leaves alone *)

LEMMA KeepsPend ==
    ASSUME PendCovers, UNCHANGED volumeVars,
           pend' = NotRead \/ UNCHANGED <<pend, applied>>
    PROVE  PendCovers'
  BY DEF PendCovers, InHand, UnreadMeta

LEMMA KeepsScan ==
    ASSUME ScanCovers, UNCHANGED volumeVars,
           phase' \notin {"enum", "meta"} \/ UNCHANGED <<phase, scan, todo, scanFrom>>
    PROVE  ScanCovers'
<1>1. CASE phase' \notin {"enum", "meta"}
  BY <1>1 DEF ScanCovers
<1>2. CASE UNCHANGED <<phase, scan, todo, scanFrom>>
  BY <1>2 DEF ScanCovers, LinkStale, MetaStale, Unread, UnreadMeta
<1> QED
  BY <1>1, <1>2

LEMMA KeepsStale ==
    ASSUME StaleIsAccounted, UNCHANGED volumeVars, UNCHANGED <<records, applied, lost>>
    PROVE  StaleIsAccounted'
  BY DEF StaleIsAccounted, Covers, LinkStale, MetaStale, Unread, UnreadMeta

LEMMA KeepsSnapshot ==
    ASSUME SnapshotIsAccounted, UNCHANGED volumeVars, ~file'.whole \/ file' = file
    PROVE  SnapshotIsAccounted'
<1>1. CASE ~file'.whole
  BY <1>1 DEF SnapshotIsAccounted
<1>2. CASE file' = file
  BY <1>2 DEF SnapshotIsAccounted, Covers, LinkStale, MetaStale, Unread, UnreadMeta
<1> QED
  BY <1>1, <1>2

(* The numbers Positions speaks of. *)
LEMMA Numbers ==
    ASSUME TypeOK
    PROVE  /\ Len(hist) \in Nat /\ base \in Nat /\ low \in Nat /\ jid \in Nat
           /\ cursor \in Nat /\ curId \in Nat /\ target \in Nat /\ buffered \in Nat
           /\ applied \in Nat /\ scanFrom \in Nat
           /\ tag.id \in Nat /\ tag.usn \in Nat /\ tag.upto \in Nat
           /\ file.id \in Nat /\ file.usn \in Nat /\ file.upto \in Nat
           /\ base <= Len(hist)
  BY DEF TypeOK, VolumeTypeOK, Tag, Snapshot

(* The process ends: whatever is left in the file, what was in memory and the
   obligations about it are gone. *)
LEMMA TerminateCarries ==
    ASSUME IInv, NEW left, ~left.whole \/ left = file, Terminate(left)
    PROVE  Carried'
<1> USE DEF IInv
<1>1. Positions' /\ Buffering'
  BY Numbers DEF Terminate, EndReading, EndScan, Positions, Buffering, Tailing
<1>2. PendCovers' /\ ScanCovers'
  BY DEF Terminate, EndReading, PendCovers, ScanCovers
<1>3. StaleIsAccounted'
  BY DEF Terminate, StaleIsAccounted, Covers
<1>4. SnapshotIsAccounted'
  BY KeepsSnapshot DEF Terminate
<1> QED
  BY <1>1, <1>2, <1>3, <1>4 DEF Carried

LEMMA DieCarries == ASSUME IInv, Die PROVE Carried'
<1>1. ASSUME NEW kept PROVE ~Written(kept).whole
  BY DEF Written, Torn
<1> QED
  BY <1>1, TerminateCarries DEF Die

LEMMA LoadCarries ==
    ASSUME IInv, LoadFromFile \/ LoadThrow PROVE Carried'
<1> USE DEF IInv
<1>1. buffered = 0 /\ pend = NotRead /\ UNCHANGED volumeVars
  BY DEF LoadFromFile, LoadThrow, Buffering, Tailing
<1>2. Positions'
  <2>1. CASE file.whole /\ LoadFromFile
    <3>1. /\ applied' = file.upto /\ cursor' = file.usn /\ curId' = file.id
          /\ UNCHANGED <<buffered, scanFrom, saving, tag, file>>
      BY <2>1 DEF LoadFromFile
    <3> QED
      BY <1>1, <2>1, <3>1, Numbers DEF Positions
  <2>2. CASE ~(file.whole /\ LoadFromFile)
    <3>1. /\ phase' \in {"rescan", "joined"}
          /\ UNCHANGED <<applied, curId, cursor, buffered, scanFrom, saving, tag, file>>
      BY <2>2 DEF LoadFromFile, LoadThrow
    <3> QED
      BY <1>1, <3>1, Numbers DEF Positions, Tailing
  <2> QED
    BY <2>1, <2>2
<1>3. Buffering' /\ PendCovers'
  BY <1>1, KeepsPend DEF LoadFromFile, LoadThrow, Buffering
<1>4. ScanCovers'
  BY <1>1, KeepsScan DEF LoadFromFile, LoadThrow
<1>5. StaleIsAccounted'
  <2>1. CASE file.whole /\ LoadFromFile
    BY <2>1 DEF LoadFromFile, StaleIsAccounted, SnapshotIsAccounted, Covers,
       LinkStale, MetaStale, Unread, UnreadMeta
  <2>2. CASE ~(file.whole /\ LoadFromFile)
    BY <1>1, <2>2, KeepsStale DEF LoadFromFile, LoadThrow
  <2> QED
    BY <2>1, <2>2
<1>6. SnapshotIsAccounted'
  BY KeepsSnapshot DEF LoadFromFile, LoadThrow
<1> QED
  BY <1>2, <1>3, <1>4, <1>5, <1>6 DEF Carried

(* A read starts where the applied records end. *)
LEMMA FillBufferFrom ==
    ASSUME IInv, phase \in Tailing, Idle, FillBuffer
    PROVE  applied' = applied
  BY Numbers DEF IInv, FillBuffer, Readable, Idle, Positions

LEMMA CatchUpCarries == ASSUME IInv, CatchUpStep PROVE Carried'
<1> USE DEF IInv
<1>1. CASE CatchUpBegin
  <2>1. buffered = 0
    BY <1>1 DEF CatchUpBegin, Buffering, Tailing
  <2>2. Positions' /\ Buffering'
    BY <1>1, <2>1, Numbers DEF CatchUpBegin, Positions, Buffering, Tailing
  <2>3. UNCHANGED volumeVars
    BY <1>1 DEF CatchUpBegin
  <2> QED
    BY <1>1, <2>2, <2>3, KeepsPend, KeepsScan, KeepsStale, KeepsSnapshot
    DEF CatchUpBegin, Carried
<1>2. CASE CatchUpRead
  <2>1. applied' = applied
    BY <1>2, FillBufferFrom DEF CatchUpRead, Tailing
  <2>2. Positions'
    <3>1. PICK n \in 1 .. NextUsn - cursor :
              buffered' = n /\ cursor' = cursor + n
      BY <1>2 DEF CatchUpRead, FillBuffer
    <3>2. base + cursor = applied
      BY <1>2, Numbers DEF CatchUpRead, FillBuffer, Readable, Idle, Positions, Tailing
    <3>3. n \in Nat /\ applied + n <= Len(hist)
      BY <3>2, Numbers DEF NextUsn
    <3> QED
      BY <1>2, <2>1, <3>1, <3>2, <3>3, Numbers DEF CatchUpRead, Positions, Tailing
  <2>3. Buffering'
    BY <1>2 DEF CatchUpRead, Buffering, Idle, Tailing
  <2>4. /\ UNCHANGED volumeVars /\ UNCHANGED <<pend, applied>>
        /\ UNCHANGED <<phase, scan, todo, scanFrom>>
        /\ UNCHANGED <<records, applied, lost>> /\ UNCHANGED file
    BY <1>2, <2>1 DEF CatchUpRead
  <2>5. PendCovers' /\ ScanCovers' /\ StaleIsAccounted' /\ SnapshotIsAccounted'
    BY <2>4, KeepsPend, KeepsScan, KeepsStale, KeepsSnapshot
  <2> QED
    BY <2>2, <2>3, <2>5 DEF Carried
<1>3. CASE Refuse \/ CatchUpDone
  <2>1. /\ buffered' = 0 /\ pend' = NotRead /\ curId' = 0
        /\ phase' \in {"rescan", "joined"}
        /\ UNCHANGED volumeVars /\ UNCHANGED <<records, applied, lost>>
        /\ UNCHANGED <<scanFrom, saving, tag, file>>
    BY <1>3 DEF Refuse, CatchUpDone, EndReading
  <2>2. Positions'
    BY <2>1, Numbers DEF Positions, Tailing
  <2>3. Buffering'
    BY <2>1 DEF Buffering
  <2> QED
    BY <2>1, <2>2, <2>3, KeepsPend, KeepsScan, KeepsStale, KeepsSnapshot DEF Carried
<1> QED
  BY <1>1, <1>2, <1>3 DEF CatchUpStep, CatchUpRefuse, CatchUpFail

(* A record of another file is not the one in hand. *)
LEMMA UnreadElsewhere ==
    ASSUME TypeOK, buffered > 0, NEW f, InHand.frn # f
    PROVE  /\ Unread(f, applied) => Unread(f, applied + 1)
           /\ UnreadMeta(f, applied) => UnreadMeta(f, applied + 1)
<1> applied \in Nat /\ Len(hist) \in Nat
  BY Numbers
<1> QED
  BY DEF Unread, UnreadMeta, InHand

(* Nor is a record that makes the index read the MFT, if the one in hand does
   not. *)
LEMMA UnreadRefresh ==
    ASSUME TypeOK, NEW f, ~InHand.refresh, UnreadMeta(f, applied)
    PROVE  UnreadMeta(f, applied + 1)
<1> applied \in Nat /\ Len(hist) \in Nat
  BY Numbers
<1> QED
  BY DEF UnreadMeta, InHand

(* Applying the record in hand: what the other files' entries have wrong is
   still covered; what the new entry has wrong must be. *)
LEMMA AppliedCarries ==
    ASSUME IInv, buffered > 0, NEW entry \in Entry \cup {Absent},
           Applied([records EXCEPT ![InHand.frn] = entry]),
           InHand.frn \notin lost =>
               /\ (IF disk[InHand.frn] = Absent THEN entry # Absent
                   ELSE entry = Absent \/ entry.link # disk[InHand.frn].link)
                  => Unread(InHand.frn, applied + 1)
               /\ disk[InHand.frn] # Absent
                     /\ (entry = Absent \/ WrongMeta(entry.meta, disk[InHand.frn].meta))
                  => UnreadMeta(InHand.frn, applied + 1)
    PROVE  Carried'
<1> USE DEF IInv
<1>1. /\ records' = [records EXCEPT ![InHand.frn] = entry]
      /\ applied' = applied + 1 /\ buffered' = buffered - 1 /\ pend' = NotRead
      /\ UNCHANGED volumeVars /\ UNCHANGED <<phase, scan, todo, scanFrom>>
      /\ UNCHANGED <<cursor, curId, saving, tag, file, lost>>
  BY DEF Applied
<1>2. Positions' /\ Buffering'
  <2>1. applied' + buffered' = applied + buffered
    BY <1>1, Numbers
  <2>2. Positions'
    BY <1>1, <2>1 DEF Positions
  <2>3. Buffering'
    BY <1>1 DEF Buffering
  <2> QED
    BY <2>2, <2>3
<1>3. PendCovers' /\ ScanCovers' /\ SnapshotIsAccounted'
  BY <1>1, KeepsPend, KeepsScan, KeepsSnapshot
<1>4. StaleIsAccounted'
  <2>1. records \in [Frn -> Entry \cup {Absent}] /\ InHand.frn \in Frn
    BY InHandType DEF TypeOK, Map, Record
  <2> SUFFICES ASSUME NEW f \in Frn \ lost
               PROVE  /\ LinkStale(records', f) => Unread(f, applied + 1)
                      /\ MetaStale(records', f) => UnreadMeta(f, applied + 1)
    BY <1>1 DEF StaleIsAccounted, Covers, LinkStale, MetaStale, Unread, UnreadMeta
  <2>2. CASE f = InHand.frn
    <3>1. records'[f] = entry
      BY <1>1, <2>1, <2>2
    <3> QED
      BY <2>2, <3>1 DEF LinkStale, MetaStale
  <2>3. CASE f # InHand.frn
    <3>1. records'[f] = records[f]
      BY <1>1, <2>1, <2>3
    <3>2. /\ LinkStale(records, f) => Unread(f, applied)
          /\ MetaStale(records, f) => UnreadMeta(f, applied)
      BY DEF StaleIsAccounted, Covers
    <3>3. /\ LinkStale(records', f) => LinkStale(records, f)
          /\ MetaStale(records', f) => MetaStale(records, f)
      BY <3>1 DEF LinkStale, MetaStale
    <3> QED
      BY <2>3, <3>2, <3>3, UnreadElsewhere
  <2> QED
    BY <2>2, <2>3
<1> QED
  BY <1>2, <1>3, <1>4 DEF Carried

LEMMA ApplyCarries == ASSUME IInv, ApplyStep PROVE Carried'
<1> USE DEF IInv
<1> DEFINE f == InHand.frn
<1>1. /\ buffered > 0 /\ InHand \in Record /\ f \in Frn
      /\ applied + 1 \in 1 .. Len(hist) /\ applied \in Nat
  BY InHandType, Numbers
  DEF ApplyStep, ApplyDelete, ApplyReadMft, ApplyUpsert, Record
<1>2. CASE ApplyDelete
  <2>1. disk[f] = Absent
    BY <1>1, <1>2 DEF ApplyDelete, GoneForGood, InHand
  <2>2. Applied([records EXCEPT ![f] = Absent])
    BY <1>2 DEF ApplyDelete
  <2> QED
    BY <1>1, <2>1, <2>2, AppliedCarries
<1>3. CASE ApplyReadMft
  <2>1. /\ UNCHANGED volumeVars /\ UNCHANGED <<phase, scan, todo, scanFrom>>
        /\ UNCHANGED <<records, applied, lost, file>>
        /\ UNCHANGED <<cursor, curId, buffered, saving, tag>>
    BY <1>3 DEF ApplyReadMft
  <2>2. Positions' /\ Buffering'
    BY <1>1, <2>1 DEF Positions, Buffering
  <2>3. PendCovers'
    <3>1. InHand' = InHand /\ ~InHand.gone
      BY <1>3, <2>1 DEF ApplyReadMft, InHand
    <3>2. InHand.refresh /\ disk[f] # Absent => ~WrongMeta(pend', disk[f].meta)
      BY <1>3 DEF ApplyReadMft, MftAnswers, WrongMeta
    <3> QED
      BY <2>1, <3>1, <3>2 DEF PendCovers
  <2>4. ScanCovers' /\ StaleIsAccounted' /\ SnapshotIsAccounted'
    BY <2>1, KeepsScan, KeepsStale, KeepsSnapshot
  <2> QED
    BY <2>2, <2>3, <2>4 DEF Carried
<1>4. CASE ApplyUpsert
  <2> DEFINE kept == ~InHand.refresh /\ records[f] # Absent
  <2> DEFINE entry == [link |-> InHand.link,
                       meta |-> IF kept THEN records[f].meta ELSE pend]
  <2>1. Applied([records EXCEPT ![f] = entry]) /\ pend # NotRead
    BY <1>4 DEF ApplyUpsert
  <2>2. pend \in Meta \cup {NoMeta}
    BY <2>1 DEF TypeOK
  <2>3. entry \in Entry
    BY <1>1, <2>2 DEF TypeOK, Record, Map, Entry
  <2>4. entry # Absent
    BY <2>3, VolumeAssumption DEF Entry
  <2>5. ~InHand.gone
    BY <2>1 DEF PendCovers
  <2>6. (IF disk[f] = Absent THEN entry # Absent
         ELSE entry = Absent \/ entry.link # disk[f].link)
        => Unread(f, applied + 1)
    <3> SUFFICES ASSUME ~Unread(f, applied + 1)
                 PROVE  disk[f] # Absent /\ entry.link = disk[f].link
      BY <2>4
    <3>1. \A j \in applied + 1 + 1 .. Len(hist) : hist[j].frn # f
      BY DEF Unread
    <3> QED
      BY <1>1, <2>5, <3>1 DEF HistSettled, InHand
  <2>7. ASSUME f \notin lost, disk[f] # Absent, WrongMeta(entry.meta, disk[f].meta)
        PROVE  UnreadMeta(f, applied + 1)
    <3>1. CASE InHand.refresh
      BY <2>1, <2>7, <3>1 DEF PendCovers
    <3>2. CASE ~InHand.refresh
      <4>1. MetaStale(records, f)
        BY <1>1, <2>7, <3>2 DEF MetaStale
      <4>2. UnreadMeta(f, applied)
        BY <1>1, <2>7, <4>1 DEF StaleIsAccounted, Covers
      <4> QED
        BY <3>2, <4>2, UnreadRefresh
    <3> QED
      BY <3>1, <3>2
  <2> HIDE DEF entry
  <2> QED
    BY <1>1, <2>1, <2>3, <2>4, <2>6, <2>7, AppliedCarries
<1> QED
  BY <1>2, <1>3, <1>4 DEF ApplyStep

LEMMA BuildCarries == ASSUME IInv, BuildStep PROVE Carried'
<1> USE DEF IInv
<1>1. phase \in {"rescan", "enum", "meta"}
  BY DEF BuildStep, BuildBegin, EnumFile, EnumDone, MetaFile, BuildPublish
<1>2. buffered = 0 /\ pend = NotRead
  BY <1>1 DEF Buffering, Tailing
<1>3. /\ UNCHANGED volumeVars
      /\ UNCHANGED <<cursor, curId, buffered, pend, saving, tag, file>>
      /\ phase' \in {"enum", "meta", "joined"}
  BY <1>1 DEF BuildStep, BuildBegin, EnumFile, EnumDone, MetaFile, BuildPublish, EndScan
<1>4. Buffering' /\ PendCovers' /\ SnapshotIsAccounted'
  BY <1>2, <1>3, KeepsPend, KeepsSnapshot DEF Buffering
<1>5. ASSUME UNCHANGED applied, scanFrom' \in {scanFrom, Len(hist)}
      PROVE  Positions'
  BY <1>3, <1>5, Numbers DEF Positions, Tailing
<1> SUFFICES Positions' /\ ScanCovers' /\ StaleIsAccounted'
  BY <1>4 DEF Carried
<1>6. CASE BuildBegin
  <2>1. /\ phase' = "enum" /\ todo' = Frn /\ scanFrom' = Len(hist)
        /\ UNCHANGED <<records, applied, lost>>
    BY <1>6 DEF BuildBegin
  <2>2. ScanCovers'
    BY <2>1 DEF ScanCovers
  <2> QED
    BY <1>3, <1>5, <2>1, <2>2, KeepsStale
<1>7. ASSUME NEW f \in Frn, EnumFile(f)
      PROVE  Positions' /\ ScanCovers' /\ StaleIsAccounted'
  <2>1. /\ phase = "enum" /\ phase' = "enum" /\ todo' = todo \ {f}
        /\ UNCHANGED scanFrom /\ UNCHANGED <<records, applied, lost>>
        /\ scan \in Map
    BY <1>7 DEF EnumFile, TypeOK
  <2>2. ScanCovers'
    <3> SUFFICES ASSUME NEW g \in Frn, g \notin todo'
                 PROVE  /\ LinkStale(scan', g) => Unread(g, scanFrom)
                        /\ scan'[g] = Absent /\ disk[g] # Absent
                           => UnreadMeta(g, scanFrom)
      BY <1>3, <2>1 DEF ScanCovers, LinkStale, Unread, UnreadMeta
    <3>1. CASE g = f
      <4>1. scan'[f] = IF disk[f] = Absent THEN Absent
                       ELSE [link |-> disk[f].link, meta |-> NoMeta]
        BY <1>7, <2>1 DEF EnumFile, Map
      <4>2. disk[f] # Absent
            => [link |-> disk[f].link, meta |-> NoMeta] \in Entry
        BY DEF TypeOK, VolumeTypeOK, File, Entry
      <4>3. disk[f] # Absent => scan'[f] # Absent /\ scan'[f].link = disk[f].link
        BY <4>1, <4>2, VolumeAssumption DEF Entry
      <4> QED
        BY <3>1, <4>1, <4>3 DEF LinkStale
    <3>2. CASE g # f
      <4>1. scan'[g] = scan[g] /\ g \notin todo
        BY <1>7, <2>1, <3>2 DEF EnumFile, Map
      <4> QED
        BY <2>1, <4>1 DEF ScanCovers, LinkStale
    <3> QED
      BY <3>1, <3>2
  <2> QED
    BY <1>3, <1>5, <2>1, <2>2, KeepsStale
<1>8. CASE EnumDone
  <2>1. /\ phase = "enum" /\ todo = {} /\ phase' = "meta"
        /\ todo' = {f \in Frn : scan[f] # Absent}
        /\ UNCHANGED <<scan, scanFrom>> /\ UNCHANGED <<records, applied, lost>>
    BY <1>8 DEF EnumDone
  <2>2. ScanCovers'
    <3> SUFFICES ASSUME NEW g \in Frn
                 PROVE  /\ LinkStale(scan, g) => Unread(g, scanFrom)
                        /\ scan[g] = Absent /\ disk[g] # Absent
                           => UnreadMeta(g, scanFrom)
                        /\ scan[g] = Absent /\ MetaStale(scan, g)
                           => UnreadMeta(g, scanFrom)
      BY <1>3, <2>1 DEF ScanCovers, LinkStale, MetaStale, Unread, UnreadMeta
    <3> QED
      BY <2>1 DEF ScanCovers, MetaStale
  <2> QED
    BY <1>3, <1>5, <2>1, <2>2, KeepsStale
<1>9. ASSUME NEW f \in Frn, MetaFile(f)
      PROVE  Positions' /\ ScanCovers' /\ StaleIsAccounted'
  <2>1. /\ phase = "meta" /\ phase' = "meta" /\ f \in todo /\ todo' = todo \ {f}
        /\ UNCHANGED scanFrom /\ UNCHANGED <<records, applied, lost>>
        /\ scan \in Map
    BY <1>9 DEF MetaFile, TypeOK
  <2>2. scan[f] # Absent
    BY <2>1 DEF ScanCovers
  <2>3. /\ scan'[f] # Absent /\ scan'[f].link = scan[f].link
        /\ disk[f] # Absent => ~MetaStale(scan', f)
    <3>1. scan[f] \in Entry
      BY <2>1, <2>2 DEF Map
    <3>2. PICK m \in MftAnswers(f) : scan' = [scan EXCEPT ![f].meta = m]
      BY <1>9 DEF MetaFile
    <3>3. m \in Meta \cup {NoMeta}
      BY MftAnswersType DEF TypeOK
    <3>4. scan'[f] = [scan[f] EXCEPT !.meta = m]
      BY <2>1, <3>2 DEF Map
    <3>5. scan'[f] \in Entry /\ scan'[f].meta = m /\ scan'[f].link = scan[f].link
      BY <3>1, <3>3, <3>4 DEF Entry
    <3>6. scan'[f] # Absent
      BY <3>5, VolumeAssumption DEF Entry
    <3>7. disk[f] # Absent => ~WrongMeta(m, disk[f].meta)
      BY <3>2 DEF MftAnswers, WrongMeta
    <3> QED
      BY <3>5, <3>6, <3>7 DEF MetaStale
  <2>4. ASSUME NEW g \in Frn, g # f PROVE scan'[g] = scan[g]
    BY <1>9, <2>1, <2>4 DEF MetaFile, Map
  <2>5. ScanCovers'
    <3> SUFFICES ASSUME NEW g \in Frn
                 PROVE  /\ LinkStale(scan', g) => Unread(g, scanFrom)
                        /\ scan'[g] = Absent /\ disk[g] # Absent
                           => UnreadMeta(g, scanFrom)
                        /\ IF g \in todo' THEN scan'[g] # Absent
                           ELSE MetaStale(scan', g) => UnreadMeta(g, scanFrom)
      BY <1>3, <2>1 DEF ScanCovers, LinkStale, MetaStale, Unread, UnreadMeta
    <3>1. CASE g = f
      BY <2>1, <2>2, <2>3, <3>1 DEF ScanCovers, LinkStale, MetaStale
    <3>2. CASE g # f
      BY <2>1, <2>4, <3>2 DEF ScanCovers, LinkStale, MetaStale
    <3> QED
      BY <3>1, <3>2
  <2> QED
    BY <1>3, <1>5, <2>1, <2>5, KeepsStale
<1>10. CASE BuildPublish
  <2>1. /\ phase = "meta" /\ todo = {} /\ phase' = "joined"
        /\ records' = scan /\ applied' = scanFrom /\ lost' = {} /\ scanFrom' = 0
    BY <1>10 DEF BuildPublish, EndScan
  <2>2. Positions'
    BY <1>2, <1>3, <2>1, Numbers DEF Positions, Tailing
  <2>3. ScanCovers'
    BY <1>3, <2>1, KeepsScan
  <2>4. StaleIsAccounted'
    <3> SUFFICES ASSUME NEW f \in Frn
                 PROVE  /\ LinkStale(scan, f) => Unread(f, scanFrom)
                        /\ MetaStale(scan, f) => UnreadMeta(f, scanFrom)
      BY <1>3, <2>1 DEF StaleIsAccounted, Covers, LinkStale, MetaStale, Unread, UnreadMeta
    <3> QED
      BY <2>1 DEF ScanCovers
  <2> QED
    BY <2>2, <2>3, <2>4
<1> QED
  BY <1>6, <1>7, <1>8, <1>9, <1>10 DEF BuildStep

(* Jumping to the journal's end loses exactly the files of the records
   jumped over. *)
LEMMA RequeryCovers ==
    ASSUME IInv, Requery, UNCHANGED volumeVars, UNCHANGED records
    PROVE  StaleIsAccounted'
<1>1. /\ applied' = Len(hist)
      /\ lost' = lost \cup Skipped(applied, Len(hist))
  BY DEF Requery
<1> SUFFICES ASSUME NEW f \in Frn, f \notin lost, f \notin Skipped(applied, Len(hist))
             PROVE  ~LinkStale(records, f) /\ ~MetaStale(records, f)
  BY <1>1 DEF StaleIsAccounted, Covers, LinkStale, MetaStale
<1>2. ~Unread(f, applied) /\ ~UnreadMeta(f, applied)
  BY DEF Skipped, Unread, UnreadMeta
<1> QED
  BY <1>2 DEF IInv, StaleIsAccounted, Covers

LEMMA WatchCarries == ASSUME IInv, WatchStep PROVE Carried'
<1> USE DEF IInv
<1>1. /\ buffered = 0 /\ pend = NotRead /\ pend' = NotRead
      /\ UNCHANGED volumeVars /\ UNCHANGED <<scanFrom, saving, tag, file>>
      /\ phase' \in {"watch", "unwatched"}
  BY DEF WatchStep, WatchBegin, WatchNever, WatchRead, WatchRequery, Idle,
     Buffering, Tailing
<1>2. PendCovers' /\ ScanCovers' /\ SnapshotIsAccounted'
  BY <1>1, KeepsPend, KeepsScan, KeepsSnapshot
<1> SUFFICES Positions' /\ Buffering' /\ StaleIsAccounted'
  BY <1>2 DEF Carried
<1>3. CASE WatchBegin \/ WatchRequery
  <2>1. /\ Requery /\ phase' = "watch"
        /\ UNCHANGED buffered /\ UNCHANGED records
    BY <1>3 DEF WatchBegin, WatchRequery
  <2>2. Positions'
    BY <1>1, <2>1, Numbers DEF Requery, NextUsn, Positions
  <2>3. Buffering'
    BY <1>1, <2>1 DEF Buffering, Tailing
  <2> QED
    BY <1>1, <2>1, <2>2, <2>3, RequeryCovers
<1>4. CASE WatchNever
  <2>1. /\ phase' = "unwatched"
        /\ UNCHANGED <<cursor, curId, buffered>> /\ UNCHANGED <<records, applied, lost>>
    BY <1>4 DEF WatchNever
  <2>2. Positions' /\ Buffering'
    BY <1>1, <2>1, Numbers DEF Positions, Buffering, Tailing
  <2> QED
    BY <1>1, <2>1, <2>2, KeepsStale
<1>5. CASE WatchRead
  <2>1. /\ FillBuffer /\ phase = "watch" /\ phase' = "watch" /\ UNCHANGED curId
        /\ UNCHANGED records /\ UNCHANGED lost
    BY <1>5 DEF WatchRead
  <2>2. applied' = applied
    BY <1>5, <2>1, FillBufferFrom DEF WatchRead, Tailing
  <2>3. Positions'
    <3>1. PICK n \in 1 .. NextUsn - cursor :
              buffered' = n /\ cursor' = cursor + n
      BY <2>1 DEF FillBuffer
    <3>2. base + cursor = applied
      BY <1>1, <2>1, Numbers DEF FillBuffer, Readable, Positions, Tailing
    <3>3. n \in Nat /\ applied + n <= Len(hist)
      BY <3>2, Numbers DEF NextUsn
    <3> QED
      BY <1>1, <2>1, <2>2, <3>1, <3>2, <3>3, Numbers DEF Positions, Tailing
  <2>4. Buffering'
    BY <1>1, <2>1 DEF Buffering, Tailing
  <2>5. UNCHANGED <<records, applied, lost>>
    BY <2>1, <2>2
  <2> QED
    BY <1>1, <2>3, <2>4, <2>5, KeepsStale
<1> QED
  BY <1>3, <1>4, <1>5 DEF WatchStep

LEMMA FailureCarries == ASSUME IInv, Failure PROVE Carried'
<1> USE DEF IInv
<1>1. CASE Die
  BY <1>1, DieCarries
<1>2. CASE (BuildThrow /\ ~Die) \/ WatchThrow \/ WatchEnd
  <2>1. /\ buffered' = 0 /\ pend' = NotRead /\ curId' = 0
        /\ phase' \in {"joined", "unwatched"} /\ scanFrom' \in {0, scanFrom}
        /\ UNCHANGED volumeVars /\ UNCHANGED <<records, applied, lost>>
        /\ UNCHANGED <<saving, tag, file>>
    BY <1>2 DEF BuildThrow, WatchThrow, WatchEnd, EndReading, EndScan
  <2>2. Positions' /\ Buffering'
    BY <2>1, Numbers DEF Positions, Buffering, Tailing
  <2> QED
    BY <2>1, <2>2, KeepsPend, KeepsScan, KeepsStale, KeepsSnapshot DEF Carried
<1>3. CASE BuildFail
  <2>1. /\ phase \in {"rescan", "enum"} /\ phase' = "joined" /\ scanFrom' = 0
        /\ UNCHANGED volumeVars /\ UNCHANGED <<records, applied, lost>>
        /\ UNCHANGED <<cursor, curId, buffered, pend>> /\ UNCHANGED <<saving, tag, file>>
    BY <1>3 DEF BuildFail, EndScan
  <2>2. Positions' /\ Buffering'
    BY <2>1, Numbers DEF Positions, Buffering, Tailing
  <2>3. PendCovers' /\ ScanCovers' /\ StaleIsAccounted' /\ SnapshotIsAccounted'
    BY <2>1, KeepsPend, KeepsScan, KeepsStale, KeepsSnapshot
  <2> QED
    BY <2>2, <2>3 DEF Carried
<1> QED
  BY <1>1, <1>2, <1>3 DEF Failure, Crash

(* What a snapshot has wrong is after its tag, or was lost, or lies between
   the last record applied and the tag, and SaveToFile loses it here. *)
LEMMA SaveWriteCovers == ASSUME IInv, SaveWrite PROVE SnapshotIsAccounted'
<1> USE DEF IInv
<1>1. /\ file'.recs = records /\ file'.upto = tag.upto
      /\ file'.lost = lost \cup Skipped(applied, tag.upto)
      /\ UNCHANGED volumeVars
  BY DEF SaveWrite
<1> SUFFICES ASSUME NEW f \in Frn, f \notin lost, f \notin Skipped(applied, tag.upto)
             PROVE  /\ LinkStale(records, f) => Unread(f, tag.upto)
                    /\ MetaStale(records, f) => UnreadMeta(f, tag.upto)
  BY <1>1 DEF SnapshotIsAccounted, Covers, LinkStale, MetaStale, Unread, UnreadMeta
<1>2. /\ LinkStale(records, f) => Unread(f, applied)
      /\ MetaStale(records, f) => UnreadMeta(f, applied)
  BY DEF StaleIsAccounted, Covers
<1>3. ASSUME NEW i \in applied + 1 .. Len(hist), hist[i].frn = f
      PROVE  i \in tag.upto + 1 .. Len(hist)
  BY <1>3, Numbers DEF Skipped
<1> QED
  BY <1>2, <1>3 DEF Unread, UnreadMeta

LEMMA SaveCarries == ASSUME IInv, SaveStep PROVE Carried'
<1> USE DEF IInv
<1>1. /\ UNCHANGED volumeVars /\ UNCHANGED <<pend, applied>>
      /\ UNCHANGED <<phase, scan, todo, scanFrom>>
      /\ UNCHANGED <<records, applied, lost>>
      /\ UNCHANGED <<cursor, curId, buffered>>
  BY DEF SaveStep, SaveBegin, SaveRefuse, SaveWrite, SaveShort
<1>2. Buffering' /\ PendCovers' /\ ScanCovers' /\ StaleIsAccounted'
  BY <1>1, KeepsPend, KeepsScan, KeepsStale DEF Buffering
<1>3. CASE SaveBegin
  <2>1. /\ tag'.id = jid /\ tag'.usn = NextUsn /\ tag'.upto = Len(hist)
        /\ ~file'.whole
    BY <1>3 DEF SaveBegin, Torn
  <2>2. base + NextUsn = Len(hist)
    BY Numbers DEF NextUsn
  <2>3. Positions'
    BY <1>1, <2>1, <2>2, Numbers DEF Positions
  <2> QED
    BY <1>1, <1>2, <2>1, <2>3, KeepsSnapshot DEF Carried
<1>4. CASE SaveRefuse
  <2>1. saving' = "done" /\ file' = file
    BY <1>4 DEF SaveRefuse
  <2>2. Positions'
    BY <1>1, <2>1, Numbers DEF Positions
  <2> QED
    BY <1>1, <1>2, <2>1, <2>2, KeepsSnapshot DEF Carried
<1>5. CASE SaveWrite
  <2>1. /\ saving = "tagged" /\ saving' = "done"
        /\ file'.id = tag.id /\ file'.usn = tag.usn /\ file'.upto = tag.upto
    BY <1>5 DEF SaveWrite
  <2>2. Positions'
    BY <1>1, <2>1, Numbers DEF Positions
  <2> QED
    BY <1>2, <1>5, <2>2, SaveWriteCovers DEF Carried
<1>6. CASE SaveShort
  <2>1. saving' = "done" /\ ~file'.whole
    BY <1>6 DEF SaveShort, Written, Torn
  <2>2. Positions'
    BY <1>1, <2>1, Numbers DEF Positions
  <2> QED
    BY <1>1, <1>2, <2>1, <2>2, KeepsSnapshot DEF Carried
<1> QED
  BY <1>3, <1>4, <1>5, <1>6 DEF SaveStep

-----------------------------------------------------------------------------
(* The invariant is inductive *)

LEMMA InitIInv == Init => IInv
<1> SUFFICES ASSUME Init PROVE IInv
  OBVIOUS
<1>1. TypeOK
  BY TypeInit
<1>2. HistSettled /\ GoneForGood
  BY DEF Init, VolumeInit, HistSettled, GoneForGood
<1>3. ~file.whole
  BY DEF Init, Torn
<1>4. Positions /\ Buffering /\ PendCovers /\ ScanCovers
  BY <1>3 DEF Init, VolumeInit, Positions, Buffering, PendCovers, ScanCovers, Tailing
<1>5. StaleIsAccounted /\ SnapshotIsAccounted
  BY <1>3 DEF Init, StaleIsAccounted, SnapshotIsAccounted, Covers
<1> QED
  BY <1>1, <1>2, <1>4, <1>5 DEF IInv

(* Only a step of the volume changes the volume. *)
LEMMA OtherSteps == ASSUME Next, ~VolumeStep PROVE UNCHANGED volumeVars
<1>1. ASSUME NEW left, Terminate(left) PROVE UNCHANGED volumeVars
  BY <1>1 DEF Terminate
<1>2. CASE LoadFromFile \/ LoadThrow \/ SaveStep \/ Exit
  BY <1>1, <1>2 DEF LoadFromFile, LoadThrow, Exit,
     SaveStep, SaveBegin, SaveRefuse, SaveWrite, SaveShort
<1>3. CASE CatchUpStep \/ WatchStep
  BY <1>3 DEF CatchUpStep, CatchUpBegin, CatchUpRefuse, CatchUpRead, CatchUpFail,
     CatchUpDone, Refuse, WatchStep, WatchBegin, WatchNever, WatchRead, WatchRequery
<1>4. CASE ApplyStep
  BY <1>4 DEF ApplyStep, ApplyDelete, ApplyReadMft, ApplyUpsert, Applied
<1>5. CASE BuildStep
  BY <1>5 DEF BuildStep, BuildBegin, EnumFile, MetaFile, EnumDone, BuildPublish
<1>6. CASE Failure
  BY <1>1, <1>6 DEF Failure, BuildThrow, BuildFail, WatchThrow, WatchEnd, Crash, Die
<1> QED
  BY <1>2, <1>3, <1>4, <1>5, <1>6 DEF Next

LEMMA StepIInv == IInv /\ [Next]_vars => IInv'
<1> SUFFICES ASSUME IInv, [Next]_vars PROVE IInv'
  OBVIOUS
<1>1. TypeOK'
  BY TypeStep
<1>2. HistSettled' /\ GoneForGood'
  <2>1. CASE VolumeStep
    BY <2>1, VolumeReports DEF IInv, TypeOK, VolumeStep
  <2>2. CASE UNCHANGED volumeVars
    BY <2>2 DEF IInv, HistSettled, GoneForGood
  <2> QED
    BY <2>1, <2>2, OtherSteps
<1>3. Carried'
  <2>1. CASE VolumeStep
    BY <2>1, VolumeStepCarries
  <2>2. CASE LoadFromFile \/ LoadThrow
    BY <2>2, LoadCarries
  <2>3. CASE CatchUpStep
    BY <2>3, CatchUpCarries
  <2>4. CASE ApplyStep
    BY <2>4, ApplyCarries
  <2>5. CASE BuildStep
    BY <2>5, BuildCarries
  <2>6. CASE WatchStep
    BY <2>6, WatchCarries
  <2>7. CASE Failure
    BY <2>7, FailureCarries
  <2>8. CASE SaveStep
    BY <2>8, SaveCarries
  <2>9. CASE Exit
    BY <2>9, TerminateCarries DEF Exit
  <2>10. CASE UNCHANGED vars
    <3>1. Positions' /\ Buffering'
      BY <2>10 DEF IInv, Positions, Buffering
    <3>2. PendCovers' /\ ScanCovers' /\ StaleIsAccounted' /\ SnapshotIsAccounted'
      BY <2>10, KeepsPend, KeepsScan, KeepsStale, KeepsSnapshot DEF IInv
    <3> QED
      BY <3>1, <3>2 DEF Carried
  <2> QED
    BY <2>1, <2>2, <2>3, <2>4, <2>5, <2>6, <2>7, <2>8, <2>9, <2>10 DEF Next
<1> QED
  BY <1>1, <1>2, <1>3 DEF IInv, Carried

LEMMA Inductive == Spec => []IInv
  BY InitIInv, StepIInv, PTL DEF Spec

-----------------------------------------------------------------------------
(* The theorems *)

(* The state stays well typed, so no offset leaves the range the code keeps it
   in and no half-built entry is ever indexed. *)
THEOREM TypeCorrect == Spec => []TypeOK
<1>1. IInv => TypeOK
  BY DEF IInv
<1> QED
  BY <1>1, Inductive, PTL

(* Whatever load, catch-up, scan, tailing, failures, retries and replays do,
   each thing the live index has wrong belongs to a file it is known to have
   jumped over or will be corrected by a record not yet applied. *)
THEOREM IndexAccounted == Spec => []StaleIsAccounted
<1>1. IInv => StaleIsAccounted
  BY DEF IInv
<1> QED
  BY <1>1, Inductive, PTL

(* The same of every snapshot that LoadFromFile accepts, from the position it
   is tagged with, in every later run of the program. *)
THEOREM SnapshotAccounted == Spec => []SnapshotIsAccounted
<1>1. IInv => SnapshotIsAccounted
  BY DEF IInv
<1> QED
  BY <1>1, Inductive, PTL

LEMMA ReadStep ==
    IInv /\ [Next]_vars => [buffered' > buffered => applied' = applied]_vars
<1> SUFFICES ASSUME IInv, Next, buffered' > buffered
             PROVE  applied' = applied
  BY Numbers DEF IInv
<1>1. buffered \in Nat /\ buffered' \in Nat
  BY TypeStep DEF IInv, TypeOK
<1>2. CASE CatchUpRead \/ WatchRead
  BY <1>2, FillBufferFrom DEF CatchUpRead, WatchRead, Tailing
<1>3. buffered' <= buffered \/ CatchUpRead \/ WatchRead
  <2>1. ASSUME NEW left, Terminate(left) PROVE buffered' <= buffered
    BY <1>1, <2>1 DEF Terminate, EndReading
  <2>2. CASE VolumeStep \/ LoadFromFile \/ LoadThrow \/ SaveStep \/ Exit
    BY <1>1, <2>1, <2>2 DEF VolumeStep, LoadFromFile, LoadThrow, Exit,
       SaveStep, SaveBegin, SaveRefuse, SaveWrite, SaveShort
  <2>3. CASE CatchUpStep \/ WatchStep
    BY <1>1, <2>3 DEF CatchUpStep, CatchUpBegin, CatchUpRefuse, CatchUpFail,
       CatchUpDone, Refuse, EndReading, WatchStep, WatchBegin, WatchNever, WatchRequery
  <2>4. CASE ApplyStep
    BY <1>1, <2>4 DEF ApplyStep, ApplyDelete, ApplyReadMft, ApplyUpsert, Applied
  <2>5. CASE BuildStep
    BY <1>1, <2>5 DEF BuildStep, BuildBegin, EnumFile, MetaFile, EnumDone, BuildPublish
  <2>6. CASE Failure
    BY <1>1, <2>1, <2>6 DEF Failure, BuildThrow, BuildFail, WatchThrow, WatchEnd,
       Crash, Die, EndReading
  <2> QED
    BY <2>2, <2>3, <2>4, <2>5, <2>6 DEF Next
<1> QED
  BY <1>1, <1>2, <1>3

(* A read of the journal begins with the record after the last one applied. *)
THEOREM ReadsContiguous == Spec => ReadsAreContiguous
  BY Inductive, ReadStep, PTL DEF Spec, ReadsAreContiguous

\* Until catch-up has decided, records_ is what LoadFromFile has read.
Accepting == phase \in {"loaded", "catchup"} => basis = "loaded"

LEMMA AcceptingStep == Accepting /\ [Next]_vars => Accepting'
<1> SUFFICES ASSUME Accepting, [Next]_vars PROVE Accepting'
  OBVIOUS
<1>1. ASSUME NEW left, Terminate(left) PROVE Accepting'
  BY <1>1 DEF Terminate, Accepting
<1>2. CASE VolumeStep \/ SaveStep \/ ApplyStep \/ UNCHANGED vars
  BY <1>2 DEF Accepting, VolumeStep, SaveStep, SaveBegin, SaveRefuse, SaveWrite,
     SaveShort, ApplyStep, ApplyDelete, ApplyReadMft, ApplyUpsert, Applied
<1>3. CASE LoadFromFile \/ LoadThrow \/ Exit
  BY <1>1, <1>3 DEF Accepting, LoadFromFile, LoadThrow, Exit
<1>4. CASE CatchUpStep
  BY <1>4 DEF Accepting, CatchUpStep, CatchUpBegin, CatchUpRefuse, CatchUpRead,
     CatchUpFail, CatchUpDone, Refuse
<1>5. CASE BuildStep
  BY <1>5 DEF Accepting, BuildStep, BuildBegin, EnumFile, MetaFile, EnumDone,
     BuildPublish
<1>6. CASE WatchStep
  BY <1>6 DEF Accepting, WatchStep, WatchBegin, WatchNever, WatchRead, WatchRequery
<1>7. CASE Failure
  BY <1>1, <1>7 DEF Accepting, Failure, BuildThrow, BuildFail, WatchThrow, WatchEnd,
     Crash, Die
<1> QED
  BY <1>2, <1>3, <1>4, <1>5, <1>6, <1>7 DEF Next

(* Only the end of a catch-up makes an index caught up. *)
LEMMA OnlyCatchUpDone ==
    ASSUME Next, basis # "caughtup", basis' = "caughtup" PROVE CatchUpDone
<1>1. ASSUME NEW left, Terminate(left) PROVE basis' # "caughtup"
  BY <1>1 DEF Terminate
<1>2. ~(VolumeStep \/ SaveStep \/ ApplyStep)
  BY DEF VolumeStep, SaveStep, SaveBegin, SaveRefuse, SaveWrite,
     SaveShort, ApplyStep, ApplyDelete, ApplyReadMft, ApplyUpsert, Applied
<1>3. ~(LoadFromFile \/ LoadThrow \/ Exit)
  BY <1>1 DEF LoadFromFile, LoadThrow, Exit
<1>4. CatchUpStep => CatchUpDone
  BY DEF CatchUpStep, CatchUpBegin, CatchUpRefuse, CatchUpRead, CatchUpFail, Refuse
<1>5. ~BuildStep
  BY DEF BuildStep, BuildBegin, EnumFile, MetaFile, EnumDone, BuildPublish
<1>6. ~WatchStep
  BY DEF WatchStep, WatchBegin, WatchNever, WatchRead, WatchRequery
<1>7. ~Failure
  BY <1>1 DEF Failure, BuildThrow, BuildFail, WatchThrow, WatchEnd, Crash, Die
<1> QED
  BY <1>2, <1>3, <1>4, <1>5, <1>6, <1>7 DEF Next

LEMMA CatchUpTarget ==
    IInv /\ Accepting /\ [Next]_vars
    => [phase = "catchup" /\ basis' = "caughtup" /\ curId = jid
            => applied >= base + target]_vars
<1> SUFFICES ASSUME IInv, Accepting, Next, phase = "catchup", basis' = "caughtup",
                    curId = jid
             PROVE  applied >= base + target
  OBVIOUS
<1>1. CatchUpDone
  BY OnlyCatchUpDone DEF Accepting
<1>2. buffered = 0 /\ cursor >= target
  BY <1>1 DEF CatchUpDone, Idle
<1>3. base + cursor = applied
  BY <1>2, Numbers DEF IInv, Positions, Tailing
<1> QED
  BY <1>2, <1>3, Numbers DEF IInv

(* A catch-up that is accepted has applied every record up to the end of the
   journal as it was when it began. *)
THEOREM CatchUpComplete == Spec => CatchUpReachesItsTarget
<1>1. Init => Accepting
  BY DEF Init, Accepting
<1> QED
  BY <1>1, AcceptingStep, Inductive, CatchUpTarget, PTL
  DEF Spec, CatchUpReachesItsTarget

-----------------------------------------------------------------------------
(* A volume that rests while it is indexed *)

(* The files of no records are none.                                         *)
LEMMA SkippedNone ==
    ASSUME NEW from \in Nat, NEW to \in Nat, to <= from PROVE Skipped(from, to) = {}
<1>1. from + 1 .. to = {}
  OBVIOUS
<1> QED
  BY <1>1 DEF Skipped

LEMMA QuietTerminate ==
    ASSUME QuietInv, NEW left, ~left.whole \/ left = file, Terminate(left) PROVE QuietInv'
  BY DEF QuietInv, Terminate

LEMMA QuietDie == ASSUME QuietInv, Die PROVE QuietInv'
<1>1. ASSUME NEW kept PROVE ~Written(kept).whole
  BY DEF Written, Torn
<1> QED
  BY <1>1, QuietTerminate DEF Die

LEMMA QuietVolume ==
    ASSUME IInv, QuietInv, VolumeStep, QuietNext PROVE QuietInv'
<1>1. UNCHANGED <<threadVars, scanVars, saveVars, indexVars>>
  BY DEF VolumeStep
<1>2. CASE Resting
  <2>1. UNCHANGED volumeVars
    BY <1>2 DEF QuietNext
  <2> QED
    BY <1>1, <2>1 DEF QuietInv, threadVars, scanVars, saveVars, indexVars, volumeVars
<1>3. CASE ~Resting
  <2>1. phase \notin {"loaded", "catchup", "enum", "meta", "joined"}
    BY <1>3 DEF Resting, Building
  <2>2. phase = "watch" => low' = low /\ jid' = jid /\ base' = base
    <3>1. ChangeFile => base' = base
      BY DEF ChangeFile, CreateFile, WriteFile, TouchFile, RenameFile, DeleteFile, Journal
    <3>2. TrimJournal => base' = base
      BY DEF TrimJournal
    <3>3. ResetJournal => jid' # jid
      BY Numbers DEF ResetJournal, IInv
    <3> QED
      BY <3>1, <3>2, <3>3 DEF QuietNext, VolumeStep, VolumeNext
  <2> QED
    BY <1>1, <2>1, <2>2 DEF QuietInv, threadVars, scanVars, saveVars, indexVars
<1> QED
  BY <1>2, <1>3

LEMMA QuietCatchUp ==
    ASSUME QuietFaults, IInv, QuietInv, CatchUpStep, UNCHANGED volumeVars PROVE QuietInv'
<1> USE DEF volumeVars
<1>1. CASE CatchUpBegin
  <2>1. target' = Len(hist) - base
    BY <1>1 DEF CatchUpBegin, NextUsn
  <2>2. base + target' = Len(hist)
    BY <2>1, Numbers DEF IInv
  <2> QED
    BY <1>1, <2>2 DEF CatchUpBegin, QuietInv, saveVars, indexVars
<1>2. CASE CatchUpRefuse \/ CatchUpFail
  BY <1>2 DEF CatchUpRefuse, CatchUpFail, Refuse, QuietInv, saveVars
<1>3. CASE CatchUpRead
  <2>1. applied' = applied
    BY <1>3, FillBufferFrom DEF CatchUpRead, Tailing
  <2> QED
    BY <1>3, <2>1 DEF CatchUpRead, QuietInv, saveVars
<1>4. CASE CatchUpDone
  <2>1. applied <= Len(hist) /\ base + cursor = applied
    BY <1>4, Numbers DEF CatchUpDone, Idle, IInv, QuietInv, Positions, Tailing
  <2>2. applied = Len(hist)
    BY <1>4, <2>1, Numbers DEF CatchUpDone, IInv, QuietInv
  <2> QED
    BY <1>4, <2>2 DEF CatchUpDone, QuietInv, saveVars
<1> QED
  BY <1>1, <1>2, <1>3, <1>4 DEF CatchUpStep

LEMMA QuietApply ==
    ASSUME IInv, QuietInv, ApplyStep PROVE QuietInv'
<1>1. /\ UNCHANGED <<volumeVars, phase, cursor, curId, target, scanVars, saveVars, lost>>
      /\ applied' = applied \/ applied' = applied + 1
      /\ buffered > 0
  BY DEF ApplyStep, ApplyDelete, ApplyReadMft, ApplyUpsert, Applied, indexVars
<1>2. phase # "joined" \/ applied' = applied
  BY <1>1, Numbers DEF IInv, Buffering, Tailing
<1>3. tag.upto <= applied => tag.upto <= applied'
  BY <1>1, Numbers DEF IInv
<1> QED
  BY <1>1, <1>2, <1>3 DEF QuietInv, volumeVars, scanVars, saveVars

LEMMA QuietBuild ==
    ASSUME QuietInv, BuildStep PROVE QuietInv'
<1>1. CASE BuildBegin
  BY <1>1 DEF BuildBegin, QuietInv, volumeVars, indexVars
<1>2. CASE \E f \in Frn : EnumFile(f) \/ MetaFile(f)
  BY <1>2 DEF EnumFile, MetaFile, QuietInv, volumeVars, threadVars, indexVars, saveVars
<1>3. CASE EnumDone
  BY <1>3 DEF EnumDone, QuietInv, volumeVars, indexVars, saveVars
<1>4. CASE BuildPublish
  BY <1>4 DEF BuildPublish, QuietInv, volumeVars, saveVars
<1> QED
  BY <1>1, <1>2, <1>3, <1>4 DEF BuildStep

LEMMA QuietWatch ==
    ASSUME QuietFaults, IInv, QuietInv, WatchStep PROVE QuietInv'
<1>1. CASE WatchBegin
  <2>1. /\ cursor' = Len(hist) - base /\ curId' = jid /\ applied' = Len(hist)
        /\ lost' = lost \cup Skipped(applied, Len(hist))
        /\ phase = "joined" /\ phase' = "watch"
        /\ UNCHANGED <<volumeVars, target, scanVars, saveVars>>
    BY <1>1 DEF WatchBegin, Requery, NextUsn
  <2>2. applied = Len(hist) /\ lost = {}
    BY <2>1 DEF QuietInv
  <2>3. lost' = {}
    BY <2>1, <2>2, SkippedNone, Numbers DEF IInv
  <2>4. low <= base + cursor'
    BY <2>1, Numbers DEF IInv, TypeOK, VolumeTypeOK
  <2>5. curId' = jid' /\ low' <= base' + cursor'
    BY <2>1, <2>4 DEF volumeVars
  <2> QED
    BY <2>1, <2>2, <2>3, <2>5 DEF QuietInv, saveVars
<1>2. CASE WatchNever
  BY <1>2 DEF WatchNever, QuietInv, saveVars, indexVars
<1>3. CASE WatchRead
  <2>1. applied' = applied
    BY <1>3, FillBufferFrom DEF WatchRead, Tailing
  <2>2. PICK n \in 1 .. NextUsn - cursor : cursor' = cursor + n
    BY <1>3 DEF WatchRead, FillBuffer
  <2>3. low <= base + cursor => low <= base + cursor'
    BY <2>2, Numbers DEF IInv, NextUsn
  <2> QED
    BY <1>3, <2>1, <2>3 DEF WatchRead, QuietInv, volumeVars, saveVars
<1>4. ~WatchRequery
  BY DEF WatchRequery, QuietFaults, QuietInv, Readable
<1> QED
  BY <1>1, <1>2, <1>3, <1>4 DEF WatchStep

LEMMA QuietFailure ==
    ASSUME QuietFaults, QuietInv, Failure PROVE QuietInv'
<1>1. CASE BuildThrow \/ Crash
  BY <1>1, QuietDie DEF BuildThrow, Crash, QuietFaults
<1>2. CASE WatchThrow
  BY <1>2 DEF WatchThrow, QuietInv, saveVars, indexVars
<1>3. ~BuildFail /\ ~WatchEnd
  BY DEF BuildFail, WatchEnd, QuietFaults
<1> QED
  BY <1>1, <1>2, <1>3 DEF Failure

LEMMA QuietSave ==
    ASSUME IInv, QuietInv, SaveStep, QuietNext PROVE QuietInv'
<1>1. CASE SaveBegin
  <2>1. /\ tag' = [id |-> jid, usn |-> NextUsn, upto |-> Len(hist)]
        /\ file' = Torn(Nothing) /\ saving' = "tagged"
        /\ UNCHANGED <<volumeVars, threadVars, scanVars, indexVars>>
    BY <1>1 DEF SaveBegin
  <2>2. phase \in {"watch", "unwatched"} /\ applied = Len(hist)
    BY <1>1 DEF SaveBegin, QuietNext
  <2>3. tag'.upto <= applied /\ ~file'.whole
    BY <2>1, <2>2, Numbers DEF Torn, IInv
  <2> QED
    BY <2>1, <2>2, <2>3 DEF QuietInv, volumeVars, threadVars, scanVars, indexVars
<1>2. CASE SaveRefuse
  BY <1>2 DEF SaveRefuse, QuietInv, volumeVars, threadVars, scanVars, indexVars
<1>3. CASE SaveWrite
  <2>1. /\ file'.lost = lost \cup Skipped(applied, tag.upto) /\ saving' = "done"
        /\ saving = "tagged"
        /\ UNCHANGED <<volumeVars, threadVars, scanVars, indexVars>>
    BY <1>3 DEF SaveWrite
  <2>2. lost = {} /\ tag.upto <= applied
    BY <2>1 DEF QuietInv
  <2>3. file'.lost = {}
    BY <2>1, <2>2, SkippedNone, Numbers DEF IInv
  <2> QED
    BY <2>1, <2>3 DEF QuietInv, volumeVars, threadVars, scanVars, indexVars
<1>4. CASE SaveShort
  <2>1. ~file'.whole
    BY <1>4 DEF SaveShort, Written, Torn
  <2> QED
    BY <1>4, <2>1 DEF SaveShort, QuietInv, volumeVars, threadVars, scanVars, indexVars
<1> QED
  BY <1>1, <1>2, <1>3, <1>4 DEF SaveStep

LEMMA QuietStep ==
    ASSUME QuietFaults PROVE IInv /\ QuietInv /\ [QuietNext]_vars => QuietInv'
<1> SUFFICES ASSUME IInv, QuietInv, [QuietNext]_vars PROVE QuietInv'
  OBVIOUS
<1>1. CASE VolumeStep /\ QuietNext
  BY <1>1, QuietVolume
<1>2. CASE LoadFromFile \/ LoadThrow
  <2>1. UNCHANGED <<volumeVars, target, scanVars, saving, tag, file>>
        /\ saving # "tagged"
    BY <1>2 DEF LoadFromFile, LoadThrow, saveVars, QuietInv
  <2>2. CASE LoadFromFile
    BY <2>1, <2>2 DEF LoadFromFile, QuietInv, indexVars
  <2>3. ~LoadThrow
    BY DEF LoadThrow, QuietFaults
  <2> QED
    BY <1>2, <2>2, <2>3
<1>3. CASE CatchUpStep
  BY <1>3, QuietCatchUp
  DEF CatchUpStep, CatchUpBegin, CatchUpRefuse, CatchUpRead, CatchUpFail, CatchUpDone, Refuse
<1>4. CASE ApplyStep
  BY <1>4, QuietApply
<1>5. CASE BuildStep
  BY <1>5, QuietBuild
<1>6. CASE WatchStep
  BY <1>6, QuietWatch
<1>7. CASE Failure
  BY <1>7, QuietFailure
<1>8. CASE SaveStep /\ QuietNext
  BY <1>8, QuietSave
<1>9. CASE Exit
  BY <1>9, QuietTerminate DEF Exit
<1>10. CASE UNCHANGED vars
  BY <1>10 DEF QuietInv, vars, volumeVars, threadVars, scanVars, saveVars, indexVars
<1> QED
  BY <1>1, <1>2, <1>3, <1>4, <1>5, <1>6, <1>7, <1>8, <1>9, <1>10 DEF QuietNext, Next

(* On a volume that rests while it is indexed, and of which the journal is
   trimmed or reset only while the program is not running, the scan, the
   hand-over to the watcher, the snapshot and its replay lose no file, in any
   number of runs, crashes and short writes included. *)
THEOREM QuietNeverLoses == ASSUME QuietFaults PROVE QuietSpec => []QuietLosesNothing
<1>1. QuietSpec => Spec
  <2>1. [QuietNext]_vars => [Next]_vars
    BY DEF QuietNext
  <2> QED
    BY <2>1, PTL DEF QuietSpec, Spec
<1>2. Init => QuietInv
  BY DEF Init, QuietInv, Torn
<1>3. IInv /\ QuietInv /\ [QuietNext]_vars => QuietInv'
  BY QuietStep
<1>4. QuietInv => QuietLosesNothing
  BY DEF QuietInv, QuietLosesNothing
<1> QED
  BY <1>1, <1>2, <1>3, <1>4, Inductive, PTL DEF QuietSpec

LEMMA QuietBasisStep ==
    ASSUME QuietFaults PROVE QuietInv /\ QuietBasis /\ [QuietNext]_vars => QuietBasis'
<1> SUFFICES ASSUME QuietInv, QuietBasis, [Next]_vars PROVE QuietBasis'
  BY DEF QuietNext
<1>1. ASSUME NEW left, Terminate(left) PROVE QuietBasis'
  BY <1>1 DEF Terminate, QuietBasis
<1>2. CASE VolumeStep \/ SaveStep \/ ApplyStep \/ UNCHANGED vars
  BY <1>2 DEF QuietBasis, VolumeStep, SaveStep, SaveBegin, SaveRefuse, SaveWrite,
     SaveShort, ApplyStep, ApplyDelete, ApplyReadMft, ApplyUpsert, Applied,
     vars, threadVars, indexVars
<1>3. CASE LoadFromFile \/ LoadThrow \/ Exit
  BY <1>1, <1>3 DEF QuietBasis, LoadFromFile, LoadThrow, Exit, QuietFaults
<1>4. CASE CatchUpStep
  BY <1>4 DEF QuietBasis, CatchUpStep, CatchUpBegin, CatchUpRefuse, CatchUpRead,
     CatchUpFail, CatchUpDone, Refuse
<1>5. CASE BuildStep
  BY <1>5 DEF QuietBasis, BuildStep, BuildBegin, EnumFile, MetaFile, EnumDone,
     BuildPublish, threadVars
<1>6. CASE WatchStep
  BY <1>6 DEF QuietBasis, WatchStep, WatchBegin, WatchNever, WatchRead, WatchRequery,
     indexVars
<1>7. CASE Failure
  <2>1. CASE BuildThrow \/ Crash
    BY <1>1, <2>1 DEF BuildThrow, Crash, Die, QuietFaults
  <2>2. CASE WatchThrow
    BY <2>2 DEF WatchThrow, QuietBasis, indexVars
  <2>3. ~BuildFail /\ ~WatchEnd
    BY DEF BuildFail, WatchEnd, QuietFaults
  <2> QED
    BY <1>7, <2>1, <2>2, <2>3 DEF Failure
<1> QED
  BY <1>2, <1>3, <1>4, <1>5, <1>6, <1>7 DEF Next

\* An index covered from a record on is covered from every earlier one.
LEMMA CoversEarlier ==
    ASSUME NEW map, NEW missed, NEW from \in Nat, NEW upto \in Nat, from <= upto,
           Len(hist) \in Nat, Covers(map, upto, missed)
    PROVE  Covers(map, from, missed)
<1>1. upto + 1 .. Len(hist) \subseteq from + 1 .. Len(hist)
  OBVIOUS
<1>2. ASSUME NEW f \in Frn \ missed
      PROVE  /\ LinkStale(map, f) => Unread(f, from)
             /\ MetaStale(map, f) => UnreadMeta(f, from)
  <2>1. /\ LinkStale(map, f) => Unread(f, upto)
        /\ MetaStale(map, f) => UnreadMeta(f, upto)
    BY DEF Covers
  <2> QED
    BY <1>1, <2>1 DEF Unread, UnreadMeta
<1> QED
  BY <1>2 DEF Covers

(* When the watcher starts, the scan or the catch-up has left nothing behind. *)
LEMMA QuietResumes ==
    ASSUME IInv, QuietInv, Next, phase = "joined", phase' = "watch"
    PROVE  Covers(records, applied', lost)
<1>1. WatchBegin
  <2>1. ASSUME NEW left, Terminate(left) PROVE FALSE
    BY <2>1 DEF Terminate
  <2>2. ~(VolumeStep \/ SaveStep \/ ApplyStep)
    BY DEF VolumeStep, threadVars, SaveStep, SaveBegin, SaveRefuse, SaveWrite, SaveShort,
       ApplyStep, ApplyDelete, ApplyReadMft, ApplyUpsert, Applied
  <2>3. ~(LoadFromFile \/ LoadThrow \/ CatchUpStep \/ BuildStep)
    BY DEF LoadFromFile, LoadThrow, CatchUpStep, CatchUpBegin, CatchUpRefuse,
       CatchUpRead, CatchUpFail, CatchUpDone, Refuse, BuildStep, BuildBegin,
       EnumFile, MetaFile, EnumDone, BuildPublish, threadVars
  <2>4. ~(Failure \/ Exit)
    BY <2>1 DEF Failure, BuildThrow, BuildFail, WatchThrow, WatchEnd, Crash, Die, Exit
  <2>5. WatchStep
    BY <2>2, <2>3, <2>4 DEF Next
  <2> QED
    BY <2>5 DEF WatchStep, WatchNever, WatchRead, WatchRequery
<1>2. applied' = applied
  BY <1>1 DEF WatchBegin, Requery, QuietInv
<1> QED
  BY <1>2 DEF IInv, StaleIsAccounted

(* The tag was taken when everything had been applied, and what is applied after
   it does a replay no harm. *)
LEMMA QuietHolds ==
    ASSUME IInv, QuietInv, saving = "tagged" PROVE Covers(records, tag.upto, {})
<1>1. lost = {} /\ tag.upto <= applied
  BY DEF QuietInv
<1>2. tag.upto \in Nat /\ applied \in Nat /\ Len(hist) \in Nat
  BY Numbers DEF IInv
<1>3. Covers(records, applied, {})
  BY <1>1 DEF IInv, StaleIsAccounted
<1> QED
  BY <1>1, <1>2, <1>3, CoversEarlier

(* On a volume that rests while it is indexed nothing is lost, and the promises
   that fail on a busy one hold: the watcher resumes where the index ends, the snapshot holds what
   its tag says, it is of a whole index, and a refused one is discarded. *)
THEOREM QuietKeepsPromises == ASSUME QuietFaults PROVE QuietSpec => QuietPromises
<1>1. QuietSpec => Spec
  <2>1. [QuietNext]_vars => [Next]_vars
    BY DEF QuietNext
  <2> QED
    BY <2>1, PTL DEF QuietSpec, Spec
<1>2. Init => QuietInv /\ QuietBasis
  BY DEF Init, QuietInv, QuietBasis, Torn
<1>3. IInv /\ QuietInv /\ QuietBasis /\ [QuietNext]_vars => QuietInv' /\ QuietBasis'
  BY QuietStep, QuietBasisStep
<1>4. QuietSpec => [](IInv /\ QuietInv /\ QuietBasis)
  BY <1>1, <1>2, <1>3, Inductive, PTL DEF QuietSpec
<1>5. IInv /\ QuietInv /\ [QuietNext]_vars => [Resumed]_vars
  BY QuietResumes DEF QuietNext, Resumed
<1>6. IInv /\ QuietInv => HeldAsTagged
  BY QuietHolds DEF HeldAsTagged
<1>7. QuietInv /\ QuietBasis => SavedAnIndex
  BY DEF QuietInv, QuietBasis, SavedAnIndex
<1>8. QuietInv /\ QuietBasis => QuietLosesNothing /\ RefusedIsDiscarded
  BY DEF QuietInv, QuietBasis, QuietLosesNothing, RefusedIsDiscarded
<1> QED
  BY <1>4, <1>5, <1>6, <1>7, <1>8, PTL DEF QuietSpec, QuietPromises
=============================================================================
