------------------------------ MODULE MCTimers ------------------------------
(***************************************************************************)
(* Timers with model values for the functions.                             *)
(***************************************************************************)
EXTENDS Timers, TLC

Symmetric == Permutations(Callback)
=============================================================================
