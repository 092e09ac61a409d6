-------------------------- MODULE MCDuplicateImages --------------------------
(***************************************************************************)
(* Instances of DuplicateImages for TLC: D:\o\x and D:\p\s\x, two files of *)
(* one name.  The roots are D:/, D:/p and D:/p/s; the walks from the first *)
(* two give the paths D:/o\x and D:/p\s\x, the one from the third D:/p/s\x.*)
(***************************************************************************)
EXTENDS DuplicateImages

CONSTANTS drive, top, sub,  \* roots
          atO, atS,         \* files
          inO, inSub, inS,  \* the folders D:/o, D:/p/s and D:/p\s
          x

\* In the order of the strings, where a slash is before a backslash.
MCFileOf == <<atO, atS, atS>>
MCFolder == <<inO, inSub, inS>>
MCName == <<x, x, x>>
MCRoot == {drive, top, sub}
MCWalk == (drive :> {1, 3}) @@ (top :> {3}) @@ (sub :> {2})

MCNearDuplicate == {{atO, atS}}
MCSharedFeatures == {{atO, atS}}
=============================================================================
