---------------------------- MODULE MCEngineApi -----------------------------
(* Instances of EngineApi for TLC: drives C and D, each of which may go. *)
EXTENDS EngineApi

CONSTANT f1
=============================================================================
