----------------------------- MODULE PathGuard ------------------------------
(***************************************************************************)
(* core/path_guard.py: is_protected decides whether a path may be deleted. *)
(* A path is the sequence of its parts, the drive first, normalised.  One  *)
(* folder may be a link to another; realpath follows it.                   *)
(***************************************************************************)
EXTENDS Naturals, SequencesExt

CONSTANTS
    Drive, Name,  \* the first part of a path; the others
    Users,        \* the name "Users"
    SystemRoot, ProgramFiles, AppDir,  \* roots that are fully protected
    ProgramData, Installer,            \* roots whose contents may be deleted
    Links,        \* the links there may be, as [from, to]
    MaxDepth      \* bound: parts below the drive

MinPathDepth == 2
UserProfileMinDepth == 3

Paths == {<<d>> \o s : d \in Drive, s \in BoundedSeq(Name, MaxDepth)}

FullyProtected == {SystemRoot, ProgramFiles, AppDir}

\* In the order in which they are looked at.
ContentsAllowed == <<ProgramData, Installer>>

ASSUME PathGuardAssumption ==
    /\ Users \in Name
    /\ FullyProtected \cup {ProgramData, Installer} \subseteq Paths
    /\ Links \subseteq [from : Paths, to : Paths]
    /\ MaxDepth \in Nat

VARIABLES target, link, verdict

guardVars == <<target, link, verdict>>

NoLink == [from |-> <<>>, to |-> <<>>]

GuardInit ==
    /\ target \in Paths
    /\ link \in Links \cup {NoLink}
    /\ verdict = "none"

\* is_within_or_equal, on the parts and not on the characters.
WithinOrEqual(p, other) == IsPrefix(other, p)

\* `root' is among the parents of p.
Under(p, root) == IsPrefix(root, p) /\ p # root

DepthBelowRoot(p) == Len(p) - 1

CheckDepth(p) ==
    IF Len(p) >= 2 /\ p[2] = Users
    THEN DepthBelowRoot(p) < UserProfileMinDepth
    ELSE DepthBelowRoot(p) < MinPathDepth

\* Mutant of CheckSingle: the fully protected roots are looked at first.
CheckSingleSwapped(p) ==
    \/ \E root \in FullyProtected : WithinOrEqual(p, root) \/ Under(root, p)
    \/ \E i \in DOMAIN ContentsAllowed : p = ContentsAllowed[i]
    \/ CheckDepth(p)

\* The first contents-allowed root that is p or above it decides; only without
\* one are the fully protected roots looked at, and those above them refused.
CheckSingle(p) ==
    LET deciding == {i \in DOMAIN ContentsAllowed : WithinOrEqual(p, ContentsAllowed[i])}
        first == CHOOSE i \in deciding : \A j \in deciding : i <= j
    IN  IF deciding # {}
        THEN p = ContentsAllowed[first] \/ CheckDepth(p)
        ELSE \/ \E root \in FullyProtected : WithinOrEqual(p, root) \/ Under(root, p)
             \/ CheckDepth(p)

\* ntpath.realpath, where one link exists.
RealPath(p) ==
    IF link # NoLink /\ WithinOrEqual(p, link.from)
    THEN link.to \o SubSeq(p, Len(link.from) + 1, Len(p))
    ELSE p

\* Mutant of IsProtected: links are not followed.
IsProtectedUnresolved(p) == CheckSingle(p)

IsProtected(p) == CheckSingle(p) \/ CheckSingle(RealPath(p))

Decide ==
    /\ verdict = "none"
    /\ verdict' = IF IsProtected(target) THEN "refused" ELSE "allowed"
    /\ UNCHANGED <<target, link>>

GuardNext == Decide

GuardSpec == GuardInit /\ [][GuardNext]_guardVars

-----------------------------------------------------------------------------
(* Properties.  Deleting a path takes away all that is under it, at the place *)
(* it really is.                                                              *)

Taken == {p \in Paths : WithinOrEqual(p, RealPath(target))}

Releasable(p) == Under(p, ProgramData) \/ Under(p, Installer)

\* A deletion that is allowed never takes away a protected root, anything in
\* one, except what is inside C:\ProgramData or C:\Windows\Installer, nor a
\* drive, nor a user's profile, wherever a link leads.
SystemKept ==
    verdict = "allowed" =>
        \A p \in Taken :
            /\ \A root \in {SystemRoot, ProgramFiles} : WithinOrEqual(p, root) => Releasable(p)
            /\ Len(p) > 1
            /\ p[2] = Users => Len(p) > 3

\* "The root folder itself still can't be deleted".
ContentsRootsKept == verdict = "allowed" => {ProgramData, Installer} \cap Taken = {}

\* "Never let the app delete its own install/run directory out from under
\* itself".
OwnDirectoryKept == verdict = "allowed" => AppDir \notin Taken

\* What two lists of roots, the depths and the resolved link protect together.
ProtectedKept == SystemKept /\ ContentsRootsKept /\ OwnDirectoryKept

\* Nothing else is refused: what lies deep enough and away from the roots, or
\* inside one of the two roots whose contents are allowed, may be deleted.
RestDeletable ==
    verdict = "refused" =>
        \E p \in {target, RealPath(target)} :
            \/ DepthBelowRoot(p) < (IF Len(p) > 1 /\ p[2] = Users THEN 3 ELSE 2)
            \/ p \in {ProgramData, Installer}
            \/ ~Releasable(p) /\ \E root \in FullyProtected :
                   WithinOrEqual(p, root) \/ WithinOrEqual(root, p)
=============================================================================
