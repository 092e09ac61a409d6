----------------------------- MODULE MCMainWindow -----------------------------
(* An instance of MainWindow for TLC: a folder with one file in it, two
programs that are started at sign-in. *)
EXTENDS MainWindow

CONSTANTS top, leaf, app, tool, old, new

MCFile == {top, leaf}
MCInside == [f \in MCFile |-> IF f = top THEN MCFile ELSE {leaf}]

MCValue == {<<app, old>>, <<app, new>>, <<tool, old>>}
MCInstalled == {<<app, old>>, <<tool, old>>}

(* What StartupManager and AppConfig say of the code that does not hold. *)
RefreshedTableIsRunKey == Startup!RefreshedTableIsRunKey
ConfigSurvives == Settings!ConfigSurvives
SliderShowsOpacity == Settings!SliderShowsOpacity
=============================================================================
