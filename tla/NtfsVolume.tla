----------------------------- MODULE NtfsVolume -----------------------------
(***************************************************************************)
(* What EverythingClone reads: one NTFS volume, its MFT and its USN change *)
(* journal.  Windows keeps both, so the module is external; it is modelled *)
(* from how src/src/ntfs_index.cpp and src/src/usn_watcher.cpp use it.     *)
(*                                                                         *)
(* A file is known by its file reference number (FRN).  Of what the MFT    *)
(* says of it the index keeps two things that travel by different ways:    *)
(*   link - parent FRN and name, which every journal record carries;       *)
(*   meta - size and dates, which no record carries and which have to be   *)
(*          read from the MFT when a record says they may have changed.    *)
(***************************************************************************)
EXTENDS Naturals, Sequences

CONSTANTS
    Frn,        \* file reference numbers
    Link,       \* (parent FRN, name) pairs
    Meta,       \* (size, dates) values of a file
    NoMeta,     \* size 0 and dates 0: what FileEntry holds before an MFT read
    Absent,     \* no such file
    MaxHist,    \* bound: journal records written over all journals
    MaxResets   \* bound: times the journal is deleted and created again

ASSUME VolumeAssumption ==
    /\ NoMeta \notin Meta
    /\ Absent \notin [link : Link, meta : Meta \cup {NoMeta}]
    /\ MaxHist \in Nat
    /\ MaxResets \in Nat

VARIABLES
    disk,   \* what the MFT says now
    fresh,  \* FRNs never used: the sequence number in an FRN makes it new
    hist,   \* every change record ever written, in order
    base,   \* hist up to base belongs to journals that no longer exist
    low,    \* hist up to low can no longer be read (base <= low)
    jid     \* UsnJournalID of the current journal

volumeVars == <<disk, fresh, hist, base, low, jid>>

Entry == [link : Link, meta : Meta \cup {NoMeta}]
File == [link : Link, meta : Meta]
Record == [frn : Frn, gone : BOOLEAN, link : Link, refresh : BOOLEAN]

Nothing == [f \in Frn |-> Absent]

\* A USN is an offset in the current journal: NextUsn of FSCTL_QUERY_USN_JOURNAL.
NextUsn == Len(hist) - base

VolumeTypeOK ==
    /\ disk \in [Frn -> File \cup {Absent}]
    /\ fresh \in SUBSET Frn
    /\ hist \in Seq(Record)
    /\ base \in Nat /\ low \in Nat /\ jid \in Nat
    /\ base <= low /\ low <= Len(hist)

\* The volume has files when the journal is first created.
VolumeInit ==
    /\ disk \in [Frn -> File \cup {Absent}]
    /\ fresh = {f \in Frn : disk[f] = Absent}
    /\ hist = <<>>
    /\ base = 0
    /\ low = 0
    /\ jid = 0

-----------------------------------------------------------------------------
(* Changes.  Each one alters the MFT and journals what it did. *)

\* A record whose reasons include FILE_DELETE.
Gone(f) == [frn |-> f, gone |-> TRUE, link |-> disk[f].link, refresh |-> FALSE]

\* Any other record; refresh: its reasons meet kMftRefreshReasonMask.
Said(f, l, refresh) == [frn |-> f, gone |-> FALSE, link |-> l, refresh |-> refresh]

Journal(records) ==
    /\ Len(hist) + Len(records) <= MaxHist
    /\ hist' = hist \o records
    /\ UNCHANGED <<base, low, jid>>

CreateFile(f, l, m) ==
    /\ f \in fresh
    /\ disk' = [disk EXCEPT ![f] = [link |-> l, meta |-> m]]
    /\ fresh' = fresh \ {f}
    /\ Journal(<<Said(f, l, TRUE)>>)

\* DATA_EXTEND, DATA_OVERWRITE, DATA_TRUNCATION, BASIC_INFO_CHANGE.
WriteFile(f, m) ==
    /\ disk[f] # Absent
    /\ disk' = [disk EXCEPT ![f].meta = m]
    /\ Journal(<<Said(f, disk[f].link, TRUE)>>)
    /\ UNCHANGED fresh

\* SECURITY_CHANGE, OBJECT_ID_CHANGE and the like: nothing the index keeps.
TouchFile(f) ==
    /\ disk[f] # Absent
    /\ Journal(<<Said(f, disk[f].link, FALSE)>>)
    /\ UNCHANGED <<disk, fresh>>

\* RENAME_OLD_NAME with the old link, then RENAME_NEW_NAME with the new one;
\* only the second is in kMftRefreshReasonMask.
RenameFile(f, l) ==
    /\ disk[f] # Absent
    /\ disk[f].link # l
    /\ disk' = [disk EXCEPT ![f].link = l]
    /\ Journal(<<Said(f, disk[f].link, FALSE), Said(f, l, TRUE)>>)
    /\ UNCHANGED fresh

DeleteFile(f) ==
    /\ disk[f] # Absent
    /\ disk' = [disk EXCEPT ![f] = Absent]
    /\ Journal(<<Gone(f)>>)
    /\ UNCHANGED fresh

\* The journal has a maximal size: its oldest records are dropped.
TrimJournal ==
    /\ \E n \in low + 1 .. Len(hist) : low' = n
    /\ UNCHANGED <<disk, fresh, hist, base, jid>>

\* The journal is deleted and created again: a new id, offsets from 0.  A
\* change made while there was none is a change just before this step: its
\* record cannot be read by anybody.
ResetJournal ==
    /\ jid < MaxResets
    /\ jid' = jid + 1
    /\ base' = Len(hist)
    /\ low' = Len(hist)
    /\ UNCHANGED <<disk, fresh, hist>>

ChangeFile ==
    \E f \in Frn :
        \/ \E l \in Link, m \in Meta : CreateFile(f, l, m)
        \/ \E m \in Meta : WriteFile(f, m)
        \/ TouchFile(f)
        \/ \E l \in Link : RenameFile(f, l)
        \/ DeleteFile(f)

VolumeNext == ChangeFile \/ TrimJournal \/ ResetJournal
=============================================================================
