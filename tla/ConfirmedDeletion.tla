-------------------------- MODULE ConfirmedDeletion --------------------------
(***************************************************************************)
(* What every window of the repository that deletes files promises: only   *)
(* what the user has been asked about, and has agreed to, disappears.  The *)
(* modules of the windows are shown to implement this specification.       *)
(***************************************************************************)

CONSTANT File

VARIABLES
    files,     \* those that exist
    asked,     \* those the window asks the user about at the moment
    approved   \* those the user has agreed to lose and that are still to go

vars == <<files, asked, approved>>

Init ==
    /\ files \subseteq File
    /\ asked = {} /\ approved = {}

\* A question is put, is taken back, or comes to be about other files.
Ask ==
    /\ asked' \subseteq File
    /\ UNCHANGED <<files, approved>>

\* The user agrees to what is asked, or to a part of it.
Approve ==
    /\ approved \subseteq approved'
    /\ approved' \subseteq approved \cup asked
    /\ asked' \subseteq asked
    /\ UNCHANGED files

\* Files disappear, or the window gives up some that were approved; either
\* needs a new approval to be tried again.
Remove ==
    /\ files' \subseteq files
    /\ files \ files' \subseteq approved
    /\ approved' \subseteq approved
    /\ asked' \subseteq asked

\* A file is given a name that nothing has.
Rename ==
    /\ \E old \in files, new \in File \ files : files' = (files \ {old}) \cup {new}
    /\ UNCHANGED <<asked, approved>>

Next == Ask \/ Approve \/ Remove \/ Rename

Spec == Init /\ [][Next]_vars
=============================================================================
