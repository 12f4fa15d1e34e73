---------------------------- MODULE MCTaskTable ----------------------------
(***************************************************************************)
(* TaskTiming with model values for the functions, which no definition     *)
(* tells apart: their permutations are symmetries.                         *)
(***************************************************************************)
EXTENDS TaskTiming, TLC

Symmetric == Permutations(Task)
=============================================================================
