---------------------------- MODULE MCForceDelete ---------------------------
(* Instances of ForceDelete for TLC: a folder with a file and a subfolder, *)
(* which holds another file.                                               *)
EXTENDS ForceDelete, TLC

CONSTANTS top, sub, a, b, user, system, p1, p2

MCNode == {top, sub, a, b}
MCParent == a :> top @@ sub :> top @@ b :> sub
=============================================================================
