------------------------------ MODULE MCKernel ------------------------------
(***************************************************************************)
(* KernelHistory with model values for the functions.                      *)
(***************************************************************************)
EXTENDS KernelHistory, TLC

Symmetric == Permutations(Task)

(***************************************************************************)
(* Nothing is explored beyond a write past the end of kv1TaskList or a     *)
(* jump through a null call: the source does not determine what they do to *)
(* the rest.                                                               *)
(***************************************************************************)
Determined == ~stray /\ pc # "lost"
=============================================================================
