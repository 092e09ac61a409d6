------------------------------ MODULE AppConfig ------------------------------
(***************************************************************************)
(* Memory Master's configuration: config.json, the settings page that      *)
(* saves it with every change, and the window that has taken it over.      *)
(***************************************************************************)
EXTENDS Naturals, SequencesExt

CONSTANTS
    Theme, Opacity, Folder,  \* what the user may choose; opacity in percent
    Dark, Opaque             \* the theme and the opacity of a fresh installation

VARIABLES
    file,       \* config.json: "whole" or not, and the values written
    config,     \* the page's _config
    look,       \* the theme, the flag and the opacity the window has
    slider,     \* where the opacity slider is
    chosen      \* history: the configurations the page has had since installation

configVars == <<file, config, look, slider, chosen>>

Fields == <<"theme", "always_on_top", "opacity", "quarantine_dir">>
None == {}
Config == [theme : Theme, always_on_top : BOOLEAN, opacity : Opacity,
           quarantine_dir : {{f} : f \in Folder} \cup {None}]
Default == [theme |-> Dark, always_on_top |-> FALSE, opacity |-> Opaque,
            quarantine_dir |-> None]

\* int(opacity * 100): the products 0.57 * 100 and 0.58 * 100 are below 57 and 58.
Percent(opacity) == IF opacity \in {57, 58} THEN opacity - 1 ELSE opacity

LookOf(c) == [theme |-> c.theme, always_on_top |-> c.always_on_top, opacity |-> c.opacity]

\* The first n fields of the text of a configuration.
Written(c, n) == [f \in ToSet(SubSeq(Fields, 1, n)) |-> c[f]]

\* Mutant of LoadConfig: what is missing in a torn file gets its default.
LoadConfigTorn(f) == [x \in ToSet(Fields) |-> IF x \in DOMAIN f.values THEN f.values[x] ELSE Default[x]]

\* A file that is missing or not JSON to its end gives the defaults.
LoadConfig(f) == IF f.whole THEN f.values ELSE Default

\* clamped() changes nothing: the page offers only valid values.
ConfigInit ==
    /\ file = [whole |-> FALSE, values |-> <<>>]
    /\ config = Default /\ look = LookOf(Default)
    /\ slider = Percent(Default.opacity)
    /\ chosen = {Default}

\* save_config: the file cannot be opened, or what is written stops somewhere;
\* the page does not look at the answer.
SaveConfig(c) ==
    \/ UNCHANGED file
    \/ file' = [whole |-> TRUE, values |-> c]
    \/ \E n \in 0 .. Len(Fields) : file' = [whole |-> FALSE, values |-> Written(c, n)]

Choose(c) ==
    /\ c # config
    /\ config' = c
    /\ chosen' = chosen \cup {c}
    /\ SaveConfig(c)

SetTheme ==
    /\ \E theme \in Theme : Choose([config EXCEPT !.theme = theme])
    /\ look' = [look EXCEPT !.theme = config'.theme]
    /\ UNCHANGED slider

SetAlwaysOnTop ==
    /\ Choose([config EXCEPT !.always_on_top = ~@])
    /\ look' = [look EXCEPT !.always_on_top = config'.always_on_top]
    /\ UNCHANGED slider

SetOpacity ==
    /\ \E opacity \in Opacity \ {slider} :
          /\ slider' = opacity
          /\ config' = [config EXCEPT !.opacity = opacity]
          /\ chosen' = chosen \cup {config'}
          /\ SaveConfig(config')
    /\ look' = [look EXCEPT !.opacity = config'.opacity]

ApplyQuarantineDir ==
    /\ \E folder \in Folder : Choose([config EXCEPT !.quarantine_dir = {folder}])
    /\ UNCHANGED <<look, slider>>

\* main() and the page load the file, one after the other.
Load ==
    /\ config' = LoadConfig(file)
    /\ look' = LookOf(config')
    /\ slider' = Percent(config'.opacity)
    /\ UNCHANGED <<file, chosen>>

ConfigNext == SetTheme \/ SetAlwaysOnTop \/ SetOpacity \/ ApplyQuarantineDir

-----------------------------------------------------------------------------
(* Properties *)

ConfigTypeOK ==
    /\ config \in Config /\ chosen \subseteq Config
    /\ look \in [theme : Theme, always_on_top : BOOLEAN, opacity : Opacity]
    /\ slider \in 29 .. 100
    /\ file.whole => file.values \in Config

\* Whatever becomes of a save, the program goes on, and starts again, with a
\* configuration the user once had as a whole, and looks like it.
ConfigIsWhole ==
    /\ config \in chosen
    /\ LoadConfig(file) \in chosen
    /\ look = LookOf(config)

(* What is said of the code, and does not hold. *)

\* The configuration is "persisted": the next start has the page's.
ConfigSurvives == chosen # {Default} => LoadConfig(file) = config

\* The slider and its label say what the window has.
SliderShowsOpacity == slider = config.opacity
=============================================================================
