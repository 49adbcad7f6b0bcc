-------------------------- MODULE MCDispositions --------------------------
(* Dispositions for two shells: an interactive one, and a script whose host *)
(* may refuse any query or install.                                         *)
EXTENDS Dispositions

AllModes == {"Foreground", "Background", "WithoutJob"}

VARIABLE shell   \* which of the two is followed

Script == INSTANCE Dispositions WITH
  Interactive <- ~Interactive, CatchesInt <- TRUE, Refusals <- TRUE, MaxTraps <- 1

\* Bound: what the shell may have found ignored when it was started: nothing, or a
\* signal of one of the kinds there are (of an asynchronous list, of set -m, and
\* others).  Each signal is configured on its own, so one at a time is enough.
MayBeIgnored == {{}, {"INT"}, {"TSTP"}, {"USR"}}

ShellsInit ==
  /\ \/ shell = "interactive" /\ DInit
     \/ shell = "script" /\ Script!DInit
  /\ ignored \in MayBeIgnored

ShellsNext ==
  /\ UNCHANGED shell
  /\ \/ shell = "interactive" /\ DNext
     \/ shell = "script" /\ Script!DNext

shellvars == <<dvars, shell>>

ShellsSpec == ShellsInit /\ [][ShellsNext]_shellvars

\* AsyncListIgnores for whichever shell is followed.
ListsOfBothIgnore ==
  IF shell = "script" THEN Script!AsyncListIgnores ELSE AsyncListIgnores

============================================================================
