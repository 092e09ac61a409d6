--------------------------- MODULE MCVolumeIndex ---------------------------
(* Instances of VolumeIndex for TLC. *)
EXTENDS VolumeIndex, TLC

Symmetric == Permutations(Frn) \cup Permutations(Link) \cup Permutations(Meta)
=============================================================================
