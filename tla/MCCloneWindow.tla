---------------------------- MODULE MCCloneWindow ----------------------------
(* An instance of CloneWindow for TLC: a folder, a file in it, another name. *)
EXTENDS CloneWindow

CONSTANTS all, some, here, there

MCInside == <<{1, 2}, {2}, {3}>>
MCHits == (all :> {1, 2, 3}) @@ (some :> {2, 3})
MCHidden == (here :> {2}) @@ (there :> {})
=============================================================================
