---------------------------- MODULE MCSearchPage ----------------------------
(* Instances of SearchPage for TLC. *)
EXTENDS SearchPage

CONSTANTS folder, file, broad, narrow

\* A folder with one file in it; one query finds both, the other the file only.
MCPath == {folder, file}
MCInside == [p \in MCPath |-> IF p = folder THEN MCPath ELSE {file}]
MCQuery == {broad, narrow}
MCHits == [q \in MCQuery |-> IF q = broad THEN MCPath ELSE {file}]
=============================================================================
