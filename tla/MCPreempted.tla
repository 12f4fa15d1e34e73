---------------------------- MODULE MCPreempted ----------------------------
(***************************************************************************)
(* A small instance of Preempted: every order of reading the bytes, and    *)
(* what each byte counts for.                                              *)
(***************************************************************************)
EXTENDS Preempted

Powers == [b \in 0 .. ByteCount |-> Base ^ b]

Orders == {order \in [1 .. ByteCount -> Bytes] :
             \A b \in Bytes : \E k \in 1 .. ByteCount : order[k] = b}
=============================================================================
