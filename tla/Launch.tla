------------------------------- MODULE Launch -------------------------------
(***************************************************************************)
(* A program started with --config, src/src/main.rs: it runs itself again  *)
(* for each expansion of the argument, loads the configuration, which      *)
(* setups may be rewriting, validates it, and runs on it.  One of its      *)
(* children is followed.                                                   *)
(***************************************************************************)
EXTENDS ConfigFiles, Validation, CurlyExpand

CONSTANTS
  Arguments,        \* what may follow --config
  Plain             \* one of them that stands for itself

ASSUME LaunchAssumption ==
  /\ \A c \in Settings : SettingsRead(c)
  /\ Acceptable = {c \in Settings : Validates(c)}
  /\ Arguments \cup {Plain} \subseteq Seq(STRING)

VARIABLE program    \* where the program is, its argument, how often it ran itself again

vars == <<fileVars, program>>

Started(argument) ==
  [stage |-> "started", argument |-> argument, depth |-> 0]

\* Setups run beside a plain start and from a good file or none; other settings and other
\* arguments have the files to themselves.
Init ==
  \/ /\ FilesInit
     /\ OnDisk.config.settings = Default
     /\ program = Started(Plain)
  \/ /\ FilesAtFirst
     /\ setup = [p \in Setup |-> [Idle EXCEPT !.step = "done"]]
     /\ \E argument \in Arguments : program = Started(argument)
     /\ program.argument = Plain \/ OnDisk.config.settings = Default

Plans == Cartesian(<<ExpandOrLiteral(program.argument)>>)

\* fields.len() <= 1 for every field: nothing to run again.
Expands == Len(Plans) > 1

RunAgain ==
  /\ program.stage = "started" /\ Expands
  /\ \E n \in DOMAIN Plans :
       program' = [program EXCEPT !.argument = Plans[n][1], !.depth = @ + 1]
  /\ UNCHANGED fileVars

\* run: load, which needs a file where one is named, and validate.
LoadConfig ==
  /\ program.stage = "started" /\ ~Expands
  /\ program' = [program EXCEPT !.stage =
       IF /\ OnDisk.state \in {"whole", "empty"}
          /\ Validates(OnDisk.config.settings) /\ ValidProviders(OnDisk.config.providers)
       THEN "running" ELSE "refused"]
  /\ UNCHANGED fileVars

Next ==
  \/ \E p \in Setup : SetupStep(p) /\ UNCHANGED program
  \/ RunAgain
  \/ LoadConfig

Spec == Init /\ [][Next]_vars

-----------------------------------------------------------------------------
\* A program that was run again never runs itself again: what a token expands to stands for
\* itself, so that no --config leaves more than one generation of processes.
RunsAgainOnce == program.depth <= 1 /\ (program.depth = 1 => ~Expands)

\* Once a setup has reported success, a program that loads the configuration runs on it,
\* whatever other setups are doing to it and wherever they die, unless two of them had the
\* temporary file open at once.
SavedConfigStarts ==
  [][program.stage = "started" /\ program'.stage = "refused" /\ ~crossed => saved = NoEntries]_vars
=============================================================================
