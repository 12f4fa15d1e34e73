----------------------------- MODULE MCCommands -----------------------------
(***************************************************************************)
(* A small instance of Commands: the table of the code with its eight      *)
(* built-in commands, an application that registers a keyword of its own,  *)
(* one that is taken and one that is too long, and lines of up to five     *)
(* words.                                                                  *)
(***************************************************************************)
EXTENDS Commands

CodeBuiltIn ==
  <<"config", "debug", "reboot", "datetime", "clear", "sysinfo", "help", "dickbutt">>

SomeApplication ==
  {[keyword |-> "gps", handler |-> "showGps"], [keyword |-> "debug", handler |-> "debugGps"],
   [keyword |-> "calibrateSensors", handler |-> "calibrate"]}

SomeLong == {"calibrateSensors"}

FirstWord == {Plain("config"), Plain("debug"), Plain("reboot"), Plain("gps"),
              Plain("calibrateSensors"), Option("d")}

LaterWord == {Plain("on"), Plain("off"), Plain("verbose"), Plain("7"),
              Option("d"), Option("v"), Option("a")}

SomeOverlong == {Plain("verbose")}

SomeNumber == {Plain("7")}

SomeLine == {<<>>} \cup {<<w>> \o s : w \in FirstWord,
                                      s \in UNION {[1 .. n -> LaterWord] : n \in 0 .. 4}}
=============================================================================
