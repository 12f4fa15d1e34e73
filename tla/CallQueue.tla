----------------------------- MODULE CallQueue -----------------------------
(***************************************************************************)
(* The call queue of the kernel (src/kernel-v1/kernel.c): an array filled  *)
(* at kv1CallIndex by interrupt handlers and tasks and shifted down by the *)
(* main loop.  Every function here runs with interrupts disabled.          *)
(*                                                                         *)
(* A kv1Call_t is the address of a task structure; here it is any member   *)
(* of Ref, or kv1IdleTask, the structure that pads the unused entries.     *)
(***************************************************************************)
EXTENDS Integers, Sequences

CONSTANTS
  Ref,                  \* task structures a call may be requested on
  kv1IdleTask,          \* the structure whose function does nothing
  Nowhere,              \* what an entry holds before kernelv1_init
  MAX_CALL_QUEUE_SIZE,  \* entries of the queue (20 in kernel_config.h)
  BurstLimit            \* calls one interrupt requests at most

VARIABLES
  kv1CallQueue,         \* entry -> kv1Call_t
  kv1CallIndex          \* entries in use, and the next one to fill

queueVars == <<kv1CallQueue, kv1CallIndex>>

ASSUME CallQueueAssumption ==
  /\ MAX_CALL_QUEUE_SIZE \in Nat \ {0}
  /\ BurstLimit \in Nat \ {0}
  /\ kv1IdleTask \notin Ref
  /\ Nowhere \notin Ref
  /\ Nowhere # kv1IdleTask

Entries == 0 .. MAX_CALL_QUEUE_SIZE - 1

-----------------------------------------------------------------------------

(***************************************************************************)
(* The zeroed .bss section, before kernelv1_init.                          *)
(***************************************************************************)
QueueInit ==
  /\ kv1CallQueue = [i \in Entries |-> Nowhere]
  /\ kv1CallIndex = 0

(***************************************************************************)
(* Slips of the queue: the index is not stopped at the end, a full queue   *)
(* starts over at entry 0, the index goes down and nothing moves, or the   *)
(* last entry is not padded.                                               *)
(***************************************************************************)
AddCallsUnbounded(calls) ==
  /\ kv1CallQueue' = [i \in Entries |->
                        IF kv1CallIndex <= i /\ i < kv1CallIndex + Len(calls)
                          THEN calls[i - kv1CallIndex + 1] ELSE kv1CallQueue[i]]
  /\ kv1CallIndex' = kv1CallIndex + Len(calls)

AddCallsAround(calls) ==
  LET end == kv1CallIndex + Len(calls)
      At(i) == {k \in 1 .. Len(calls) : (kv1CallIndex + k - 1) % MAX_CALL_QUEUE_SIZE = i}
  IN  /\ kv1CallQueue' = [i \in Entries |->
                            IF At(i) # {} THEN calls[CHOOSE k \in At(i) : TRUE]
                                          ELSE kv1CallQueue[i]]
      /\ kv1CallIndex' = IF end <= MAX_CALL_QUEUE_SIZE THEN end ELSE MAX_CALL_QUEUE_SIZE

RemoveLastCall ==
  IF kv1CallIndex > 0
    THEN /\ kv1CallIndex' = kv1CallIndex - 1
         /\ kv1CallQueue' = [kv1CallQueue EXCEPT ![kv1CallIndex - 1] = kv1IdleTask]
    ELSE UNCHANGED queueVars

RemoveCallUnpadded ==
  IF kv1CallIndex > 0
    THEN /\ kv1CallIndex' = kv1CallIndex - 1
         /\ kv1CallQueue' = [i \in Entries |->
                               IF i = MAX_CALL_QUEUE_SIZE - 1 THEN kv1CallQueue[i]
                                                              ELSE kv1CallQueue[i + 1]]
    ELSE UNCHANGED queueVars

(***************************************************************************)
(* The calls of kernelv1_addCall_i that one timer interrupt makes, in      *)
(* order.  Each is dropped when the queue is full.                         *)
(***************************************************************************)
AddCalls(calls) ==
  LET end == kv1CallIndex + Len(calls)
  IN  /\ kv1CallQueue' = [i \in Entries |->
                            IF kv1CallIndex <= i /\ i < end
                              THEN calls[i - kv1CallIndex + 1]
                              ELSE kv1CallQueue[i]]
      /\ kv1CallIndex' = IF end <= MAX_CALL_QUEUE_SIZE THEN end ELSE MAX_CALL_QUEUE_SIZE

(***************************************************************************)
(* kernelv1_addCall: the same for one call; its exit code tells a drop.    *)
(***************************************************************************)
AddCall(t_ptr) ==
  IF kv1CallIndex < MAX_CALL_QUEUE_SIZE
    THEN /\ kv1CallQueue' = [kv1CallQueue EXCEPT ![kv1CallIndex] = t_ptr]
         /\ kv1CallIndex' = kv1CallIndex + 1
    ELSE UNCHANGED queueVars

RemoveCall ==
  IF kv1CallIndex > 0
    THEN /\ kv1CallIndex' = kv1CallIndex - 1
         /\ kv1CallQueue' = [i \in Entries |->
                               IF i = MAX_CALL_QUEUE_SIZE - 1 THEN kv1IdleTask
                                                              ELSE kv1CallQueue[i + 1]]
    ELSE UNCHANGED queueVars

ClearCallQueue ==
  /\ kv1CallQueue' = [i \in Entries |-> kv1IdleTask]
  /\ kv1CallIndex' = 0

(***************************************************************************)
(* The requests one interrupt can make: at most a call per slot of the     *)
(* task list.                                                              *)
(***************************************************************************)
Bursts == UNION {[1 .. n -> Ref] : n \in 0 .. BurstLimit}

QueueNext ==
  \/ \E calls \in Bursts : AddCalls(calls)
  \/ \E t_ptr \in Ref : AddCall(t_ptr)
  \/ RemoveCall
  \/ ClearCallQueue

QueueSpec == QueueInit /\ [][QueueNext]_queueVars

-----------------------------------------------------------------------------

(***************************************************************************)
(* The queue holds task structures and its index stays within it.          *)
(***************************************************************************)
QueueTypeOK ==
  /\ kv1CallQueue \in [Entries -> Ref \cup {kv1IdleTask, Nowhere}]
  /\ kv1CallIndex \in 0 .. MAX_CALL_QUEUE_SIZE

(***************************************************************************)
(* A used entry holds a requested call and an unused one holds none: the   *)
(* main loop, which reads entry 0 again after the call returned, never     *)
(* meets a call that was already served or cleared.                        *)
(***************************************************************************)
NoStaleEntry == \A i \in Entries : i < kv1CallIndex <=> kv1CallQueue[i] \in Ref

(***************************************************************************)
(* The array implements a bounded queue: calls leave in the order they     *)
(* were requested, once each, and only those requested while all entries   *)
(* were in use are lost.                                                   *)
(***************************************************************************)
Pending == [k \in 1 .. kv1CallIndex |-> kv1CallQueue[k - 1]]

F == INSTANCE Fifo WITH
       Item <- Ref, Capacity <- MAX_CALL_QUEUE_SIZE, pending <- Pending

ImplementsFifo == F!Spec
=============================================================================
