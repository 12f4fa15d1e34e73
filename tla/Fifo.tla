-------------------------------- MODULE Fifo --------------------------------
(***************************************************************************)
(* A bounded first-in first-out queue of requests: what the call queue of  *)
(* the kernel promises between the interrupt handlers that request calls   *)
(* and the main loop that serves them.  A request made while the queue is  *)
(* full is lost, and nothing else ever is.                                 *)
(***************************************************************************)
EXTENDS Integers, Sequences

CONSTANTS
  Item,       \* what is requested
  Capacity,   \* number of requests the queue holds
  BurstLimit  \* requests made at once, at most

VARIABLE pending

Room == Capacity - Len(pending)

Init == pending = <<>>

(***************************************************************************)
(* A burst of requests, in order: those that fit are taken, the rest lost. *)
(***************************************************************************)
Request(burst) ==
  pending' = pending \o IF Len(burst) <= Room THEN burst ELSE SubSeq(burst, 1, Room)

Serve ==
  /\ pending # <<>>
  /\ pending' = Tail(pending)

Clear == pending' = <<>>

Bursts == UNION {[1 .. n -> Item] : n \in 0 .. BurstLimit}

Next ==
  \/ \E burst \in Bursts : Request(burst)
  \/ Serve
  \/ Clear

Spec == Init /\ [][Next]_pending
=============================================================================
