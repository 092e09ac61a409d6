------------------------------- MODULE Settings -------------------------------
(***************************************************************************)
(* settings.ini of EverythingClone.exe.  The functions of Windows write    *)
(* one key at a time; the process may end between two of them.  A write is *)
(* assumed to succeed: what it returns is not looked at.                   *)
(***************************************************************************)
EXTENDS Naturals, SequencesExt, FiniteSets

CONSTANTS
    Folder,     \* folders that can be hidden
    Style       \* fonts with their colours

VARIABLES
    ini,        \* the file: section ExcludeFolders, and for each key of section
                \* Display the style whose value it has
    writes      \* what a save that has begun has still to write

settingsVars == <<ini, writes>>

DisplayKeys == <<"Valid", "FontFace", "FontSize", "Bold", "Italic", "TextColor", "BgColor">>
Unset == {}

SettingsInit ==
    /\ ini = [count |-> 0, folder |-> <<>>, display |-> [k \in ToSet(DisplayKeys) |-> Unset]]
    /\ writes = <<>>

\* Mutant of SaveExcludeFolders: the section is not cleared first.
SaveExcludeFoldersOver(folders) ==
    writes' = <<[key |-> "Count", at |-> 0, to |-> Len(folders)]>>
              \o [i \in DOMAIN folders |-> [key |-> "Folder", at |-> i, to |-> folders[i]]]

SaveExcludeFolders(folders) ==
    writes' = <<[key |-> "ExcludeFolders", at |-> 0, to |-> 0],
                [key |-> "Count", at |-> 0, to |-> Len(folders)]>>
              \o [i \in DOMAIN folders |-> [key |-> "Folder", at |-> i, to |-> folders[i]]]

SaveDisplaySettings(style) ==
    writes' = [i \in DOMAIN DisplayKeys |-> [key |-> DisplayKeys[i], at |-> 0, to |-> {style}]]

\* One call of WritePrivateProfileString.
Written(w) ==
    CASE w.key = "ExcludeFolders" -> [ini EXCEPT !.count = 0, !.folder = <<>>]
      [] w.key = "Count" -> [ini EXCEPT !.count = w.to]
      [] w.key = "Folder" ->
             [ini EXCEPT !.folder = [i \in DOMAIN @ \cup {w.at} |-> IF i = w.at THEN w.to ELSE @[i]]]
      [] OTHER -> [ini EXCEPT !.display[w.key] = w.to]

WriteKey ==
    /\ writes # <<>>
    /\ ini' = Written(Head(writes))
    /\ writes' = Tail(writes)

\* A key that is not there is passed over.
LoadExcludeFolders ==
    LET present == {i \in 1 .. ini.count : i \in DOMAIN ini.folder}
        keys == CHOOSE s \in [1 .. Cardinality(present) -> present] :
                    \A i, j \in DOMAIN s : i < j => s[i] < s[j]
    IN  [i \in DOMAIN keys |-> ini.folder[keys[i]]]

\* Nothing is valid before a font face has been written.
DisplayValid == ini.display["Valid"] # Unset /\ ini.display["FontFace"] # Unset

(* What is said of the code, and does not hold. *)

\* A save cut short, "the same as nothing saved": what is loaded is what was
\* saved together.
LoadedStyleIsWhole ==
    DisplayValid => \A j, k \in ToSet(DisplayKeys) : ini.display[j] = ini.display[k]
=============================================================================
