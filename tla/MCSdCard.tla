------------------------------ MODULE MCSdCard ------------------------------
(***************************************************************************)
(* The logger for TLC.  Nothing reads the log, and LogInOrder looks only   *)
(* at its blocks that have a source: states that differ in the others are  *)
(* taken as one.                                                           *)
(***************************************************************************)
EXTENDS SdCard

Sourced == [p \in {q \in Blocks : source[q] # 0} |-> log[p]]

Seen ==
  <<buffers, sd_pointer, inPuts, Sourced, accepted, first, ends, early, source, unopened>>
=============================================================================
