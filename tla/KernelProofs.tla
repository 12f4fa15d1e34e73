---------------------------- MODULE KernelProofs ----------------------------
(***************************************************************************)
(* The call queue, a bounded FIFO queue, and the kernel, for every size of *)
(* the arrays and every set of tasks. Each step of the kernel is a step of *)
(* the task list and a step of the call queue, so what is proved of these  *)
(* two carries over; a call reaches the function it was requested for.     *)
(***************************************************************************)
EXTENDS KernelHistory, TaskTableProofs, SequenceTheorems

QueueInv == QueueTypeOK /\ NoStaleEntry

LEMMA Offset ==
  \A a, b \in Nat : \A k \in 1 .. b : ~(k <= a) => k - a \in 1 .. (b - a)
OBVIOUS

LEMMA BurstIsSeq ==
  ASSUME NEW burst \in Bursts
  PROVE  /\ burst \in Seq(Ref)
         /\ Len(burst) \in Nat
         /\ \A k \in 1 .. Len(burst) : burst[k] \in Ref
<1>1. PICK n \in 0 .. BurstLimit : burst \in [1 .. n -> Ref]
  BY DEF Bursts
<1>2. burst \in Seq(Ref)
  BY <1>1, CallQueueAssumption, SeqDef
<1> QED
  BY <1>2, LenProperties, ElementOfSeq

LEMMA QueueInvInitially == QueueInit => QueueInv
BY CallQueueAssumption DEF QueueInit, QueueInv, QueueTypeOK, NoStaleEntry, Entries

LEMMA QueueInvInductive == QueueInv /\ [QueueNext]_queueVars => QueueInv'
<1> SUFFICES ASSUME QueueInv, [QueueNext]_queueVars PROVE QueueInv'
  OBVIOUS
<1> USE CallQueueAssumption DEF QueueInv, QueueTypeOK, NoStaleEntry, Entries
<1>1. ASSUME NEW burst \in Bursts, AddCalls(burst) PROVE QueueInv'
  <2>1. Len(burst) \in Nat /\ \A k \in 1 .. Len(burst) : burst[k] \in Ref
    BY BurstIsSeq
  <2>2. \A i \in Entries : kv1CallIndex <= i /\ i < kv1CallIndex + Len(burst) =>
          i - kv1CallIndex + 1 \in 1 .. Len(burst)
    BY <2>1
  <2>3. QueueTypeOK'
    BY <1>1, <2>1, <2>2 DEF AddCalls
  <2>4. NoStaleEntry'
    BY <1>1, <2>1, <2>2 DEF AddCalls
  <2> QED
    BY <2>3, <2>4
<1>2. ASSUME NEW t_ptr \in Ref, AddCall(t_ptr) PROVE QueueInv'
  BY <1>2 DEF AddCall, queueVars
<1>3. CASE RemoveCall
  BY <1>3 DEF RemoveCall, queueVars
<1>4. CASE ClearCallQueue
  BY <1>4 DEF ClearCallQueue
<1>5. CASE UNCHANGED queueVars
  BY <1>5 DEF queueVars
<1> QED
  BY <1>1, <1>2, <1>3, <1>4, <1>5 DEF QueueNext

LEMMA QueueInvAlways == QueueSpec => []QueueInv
BY QueueInvInitially, QueueInvInductive, PTL DEF QueueSpec

(***************************************************************************)
(* The queue always holds task structures, within its bounds.              *)
(***************************************************************************)
THEOREM QueueTypeCorrect == QueueSpec => []QueueTypeOK
<1>1. QueueInv => QueueTypeOK
  BY DEF QueueInv
<1> QED
  BY QueueInvAlways, <1>1, PTL

(***************************************************************************)
(* The entries past the index never hold a call.                           *)
(***************************************************************************)
THEOREM NeverStale == QueueSpec => []NoStaleEntry
<1>1. QueueInv => NoStaleEntry
  BY DEF QueueInv
<1> QED
  BY QueueInvAlways, <1>1, PTL

-----------------------------------------------------------------------------

(***************************************************************************)
(* The used entries as a sequence.                                         *)
(***************************************************************************)
LEMMA PendingIsSeq ==
  ASSUME QueueInv
  PROVE  /\ Pending \in Seq(Ref)
         /\ Len(Pending) = kv1CallIndex
         /\ \A k \in 1 .. kv1CallIndex : Pending[k] = kv1CallQueue[k - 1]
<1> USE CallQueueAssumption DEF QueueInv, QueueTypeOK, NoStaleEntry, Entries
<1>1. \A k \in 1 .. kv1CallIndex : kv1CallQueue[k - 1] \in Ref
  OBVIOUS
<1>2. Pending \in [1 .. kv1CallIndex -> Ref]
  BY <1>1 DEF Pending
<1>3. Pending \in Seq(Ref)
  BY <1>2, SeqDef
<1>4. Len(Pending) = kv1CallIndex
  BY <1>2, <1>3, LenProperties
<1> QED
  BY <1>3, <1>4 DEF Pending

LEMMA PendingIsSeqPrime ==
  ASSUME QueueInv'
  PROVE  /\ Pending' \in Seq(Ref)
         /\ Len(Pending') = kv1CallIndex'
         /\ \A k \in 1 .. kv1CallIndex' : Pending'[k] = kv1CallQueue'[k - 1]
<1> USE CallQueueAssumption DEF QueueInv, QueueTypeOK, NoStaleEntry, Entries
<1>1. \A k \in 1 .. kv1CallIndex' : kv1CallQueue'[k - 1] \in Ref
  OBVIOUS
<1>2. Pending' \in [1 .. kv1CallIndex' -> Ref]
  BY <1>1 DEF Pending
<1>3. Pending' \in Seq(Ref)
  BY <1>2, SeqDef
<1>4. Len(Pending') = kv1CallIndex'
  BY <1>2, <1>3, LenProperties
<1> QED
  BY <1>3, <1>4 DEF Pending

(***************************************************************************)
(* A burst of calls appends what fits.                                     *)
(***************************************************************************)
LEMMA AddCallsRequests ==
  ASSUME QueueInv, QueueInv', NEW burst \in Bursts, AddCalls(burst)
  PROVE  F!Request(burst)
<1> DEFINE taken == IF Len(burst) <= F!Room THEN burst ELSE SubSeq(burst, 1, F!Room)
<1>1. /\ kv1CallIndex \in 0 .. MAX_CALL_QUEUE_SIZE
      /\ MAX_CALL_QUEUE_SIZE \in Nat
  BY CallQueueAssumption DEF QueueInv, QueueTypeOK
<1>2. F!Room = MAX_CALL_QUEUE_SIZE - kv1CallIndex
  BY PendingIsSeq DEF F!Room
<1>3. /\ taken \in Seq(Ref)
      /\ Len(taken) = kv1CallIndex' - kv1CallIndex
      /\ \A k \in 1 .. Len(taken) : taken[k] = burst[k]
  <2>1. CASE Len(burst) <= F!Room
    BY <2>1, <1>1, <1>2, BurstIsSeq DEF AddCalls
  <2>2. CASE ~(Len(burst) <= F!Room)
    <3>1. \A k \in 1 .. F!Room : burst[k] \in Ref
      BY <2>2, <1>1, <1>2, BurstIsSeq
    <3>2. F!Room \in Int
      BY <1>1, <1>2
    <3> HIDE DEF taken
    <3>3. taken = SubSeq(burst, 1, F!Room)
      BY <2>2 DEF taken
    <3>4. /\ taken \in Seq(Ref)
          /\ Len(taken) = IF 1 <= F!Room THEN F!Room - 1 + 1 ELSE 0
          /\ \A k \in 1 .. F!Room - 1 + 1 : taken[k] = burst[1 + k - 1]
      BY <3>1, <3>2, <3>3, SubSeqProperties
    <3>5. kv1CallIndex' = MAX_CALL_QUEUE_SIZE
      BY <2>2, <1>1, <1>2, BurstIsSeq DEF AddCalls
    <3>6. Len(taken) = F!Room
      BY <3>4, <1>1, <1>2
    <3> QED
      BY <3>4, <3>5, <3>6, <1>1, <1>2
  <2> QED
    BY <2>1, <2>2
<1> HIDE DEF taken
<1>4. /\ Pending \o taken \in Seq(Ref)
      /\ Len(Pending \o taken) = kv1CallIndex'
      /\ \A k \in 1 .. kv1CallIndex' : (Pending \o taken)[k] =
           IF k <= kv1CallIndex THEN kv1CallQueue[k - 1] ELSE burst[k - kv1CallIndex]
  <2>1. kv1CallIndex' \in Nat
    BY CallQueueAssumption DEF QueueInv, QueueTypeOK
  <2>2. /\ Pending \o taken \in Seq(Ref)
        /\ Len(Pending \o taken) = Len(Pending) + Len(taken)
        /\ \A k \in 1 .. Len(Pending) + Len(taken) : (Pending \o taken)[k] =
             IF k <= Len(Pending) THEN Pending[k] ELSE taken[k - Len(Pending)]
    BY <1>3, PendingIsSeq, ConcatProperties
  <2>3. Len(Pending) = kv1CallIndex /\ Len(Pending) + Len(taken) = kv1CallIndex'
    BY <1>1, <1>3, <2>1, PendingIsSeq
  <2>4. \A k \in 1 .. kv1CallIndex' : ~(k <= kv1CallIndex) =>
          k - kv1CallIndex \in 1 .. Len(taken)
    <3>1. kv1CallIndex \in Nat /\ Len(taken) = kv1CallIndex' - kv1CallIndex
      BY <1>1, <1>3
    <3> QED
      BY <3>1, <2>1, Offset
  <2>5. \A k \in 1 .. kv1CallIndex' : k <= kv1CallIndex => k \in 1 .. kv1CallIndex
    BY <1>1
  <2> QED
    BY <1>3, <2>2, <2>3, <2>4, <2>5, PendingIsSeq
<1>5. \A k \in 1 .. kv1CallIndex' : Pending'[k] = (Pending \o taken)[k]
  <2> SUFFICES ASSUME NEW k \in 1 .. kv1CallIndex'
               PROVE  Pending'[k] = (Pending \o taken)[k]
    OBVIOUS
  <2>1. Pending'[k] = kv1CallQueue'[k - 1]
    BY PendingIsSeqPrime
  <2>2. k - 1 \in Entries /\ kv1CallIndex' <= kv1CallIndex + Len(burst)
    BY <1>1, BurstIsSeq DEF QueueInv, QueueTypeOK, Entries, AddCalls
  <2>3. CASE k <= kv1CallIndex
    <3>1. kv1CallQueue'[k - 1] = kv1CallQueue[k - 1]
      BY <2>2, <2>3, <1>1 DEF AddCalls
    <3> QED
      BY <2>1, <2>3, <3>1, <1>4
  <2>4. CASE ~(k <= kv1CallIndex)
    <3>1. k - 1 - kv1CallIndex + 1 = k - kv1CallIndex
      BY <1>1
    <3>2. kv1CallQueue'[k - 1] = burst[k - kv1CallIndex]
      BY <2>2, <2>4, <3>1, <1>1, BurstIsSeq DEF AddCalls
    <3> QED
      BY <2>1, <2>4, <3>2, <1>4
  <2> QED
    BY <2>3, <2>4
<1>6. Pending' = Pending \o taken
  BY <1>4, <1>5, PendingIsSeqPrime, SeqEqual
<1> QED
  BY <1>6 DEF F!Request, taken

(***************************************************************************)
(* One call is a burst of one.                                             *)
(***************************************************************************)
LEMMA AddCallIsBurst ==
  ASSUME QueueInv, NEW t_ptr \in Ref, AddCall(t_ptr)
  PROVE  <<t_ptr>> \in Bursts /\ AddCalls(<<t_ptr>>)
<1> USE CallQueueAssumption DEF QueueInv, QueueTypeOK
<1>1. <<t_ptr>> \in [1 .. 1 -> Ref] /\ Len(<<t_ptr>>) = 1 /\ <<t_ptr>>[1] = t_ptr
  OBVIOUS
<1>2. <<t_ptr>> \in Bursts
  BY <1>1 DEF Bursts
<1>3. CASE kv1CallIndex < MAX_CALL_QUEUE_SIZE
  <2>1. \A i \in Entries : kv1CallIndex <= i /\ i < kv1CallIndex + Len(<<t_ptr>>) <=>
                          i = kv1CallIndex
    BY <1>1 DEF Entries
  <2>2. <<t_ptr>>[kv1CallIndex - kv1CallIndex + 1] = t_ptr
    BY <1>1
  <2>3. kv1CallQueue' = [i \in Entries |-> IF i = kv1CallIndex THEN t_ptr ELSE kv1CallQueue[i]]
    BY <1>3 DEF AddCall
  <2>4. kv1CallQueue' = [i \in Entries |->
                          IF kv1CallIndex <= i /\ i < kv1CallIndex + Len(<<t_ptr>>)
                            THEN <<t_ptr>>[i - kv1CallIndex + 1]
                            ELSE kv1CallQueue[i]]
    BY <2>1, <2>2, <2>3
  <2> QED
    BY <1>1, <1>2, <1>3, <2>4 DEF AddCall, AddCalls
<1>4. CASE ~(kv1CallIndex < MAX_CALL_QUEUE_SIZE)
  <2>1. UNCHANGED queueVars /\ kv1CallIndex = MAX_CALL_QUEUE_SIZE
    BY <1>4 DEF AddCall
  <2>2. \A i \in Entries : ~(kv1CallIndex <= i)
    BY <2>1 DEF Entries
  <2>3. kv1CallQueue' = [i \in Entries |->
                          IF kv1CallIndex <= i /\ i < kv1CallIndex + Len(<<t_ptr>>)
                            THEN <<t_ptr>>[i - kv1CallIndex + 1]
                            ELSE kv1CallQueue[i]]
    BY <2>1, <2>2 DEF queueVars
  <2> QED
    BY <1>1, <1>2, <2>1, <2>3 DEF AddCalls, queueVars
<1> QED
  BY <1>2, <1>3, <1>4

LEMMA RemoveCallServes ==
  ASSUME QueueInv, QueueInv', RemoveCall, kv1CallIndex > 0
  PROVE  F!Serve
<1> USE CallQueueAssumption
<1>1. /\ kv1CallIndex \in 1 .. MAX_CALL_QUEUE_SIZE
      /\ kv1CallIndex' = kv1CallIndex - 1
  BY DEF QueueInv, QueueTypeOK, RemoveCall
<1>2. Pending # <<>>
  BY <1>1, PendingIsSeq
<1>3. /\ Tail(Pending) \in Seq(Ref)
      /\ Len(Tail(Pending)) = Len(Pending) - 1
      /\ \A k \in 1 .. Len(Tail(Pending)) : Tail(Pending)[k] = Pending[k + 1]
  BY <1>2, PendingIsSeq, HeadTailProperties
<1>4. \A k \in 1 .. kv1CallIndex' : Pending'[k] = Tail(Pending)[k]
  <2> SUFFICES ASSUME NEW k \in 1 .. kv1CallIndex'
               PROVE  Pending'[k] = Tail(Pending)[k]
    OBVIOUS
  <2>1. Pending'[k] = kv1CallQueue'[k - 1]
    BY PendingIsSeqPrime
  <2>2. k - 1 \in Entries /\ k - 1 # MAX_CALL_QUEUE_SIZE - 1 /\ k - 1 + 1 = k
    BY <1>1 DEF Entries
  <2>3. kv1CallQueue'[k - 1] = kv1CallQueue[k]
    BY <1>1, <2>2 DEF RemoveCall
  <2>4. k + 1 \in 1 .. kv1CallIndex /\ k + 1 - 1 = k
    BY <1>1
  <2>5. Tail(Pending)[k] = Pending[k + 1]
    BY <1>1, <1>3, PendingIsSeq
  <2>6. Pending[k + 1] = kv1CallQueue[k]
    <3>1. Pending[k + 1] = kv1CallQueue[k + 1 - 1]
      BY <2>4, PendingIsSeq
    <3> QED
      BY <2>4, <3>1
  <2> QED
    BY <2>1, <2>3, <2>5, <2>6
<1>5. Len(Pending') = Len(Tail(Pending))
  <2>1. Len(Pending) = kv1CallIndex /\ Len(Pending') = kv1CallIndex'
    BY PendingIsSeq, PendingIsSeqPrime
  <2> QED
    BY <1>1, <1>3, <2>1
<1>6. Pending' = Tail(Pending)
  BY <1>1, <1>3, <1>4, <1>5, PendingIsSeqPrime, SeqEqual
<1> QED
  BY <1>2, <1>6 DEF F!Serve

LEMMA EmptyPending ==
  ASSUME kv1CallIndex = 0
  PROVE  Pending = <<>>
<1>1. Pending = [k \in {} |-> kv1CallQueue[k - 1]]
  BY DEF Pending
<1> QED
  BY <1>1

(***************************************************************************)
(* The call queue implements the bounded FIFO queue.                       *)
(***************************************************************************)
THEOREM QueueIsFifo == QueueSpec => ImplementsFifo
<1>1. QueueInit => F!Init
  BY EmptyPending DEF QueueInit, F!Init
<1>2. QueueInv /\ QueueInv' /\ [QueueNext]_queueVars => [F!Next]_Pending
  <2> SUFFICES ASSUME QueueInv, QueueInv', [QueueNext]_queueVars
               PROVE  F!Next \/ Pending' = Pending
    OBVIOUS
  <2>1. F!Bursts = Bursts
    BY DEF F!Bursts, Bursts
  <2>2. ASSUME NEW burst \in Bursts, AddCalls(burst) PROVE F!Next
    BY <2>1, <2>2, AddCallsRequests DEF F!Next
  <2>3. ASSUME NEW t_ptr \in Ref, AddCall(t_ptr) PROVE F!Next
    BY <2>2, <2>3, AddCallIsBurst
  <2>4. CASE UNCHANGED queueVars
    BY <2>4 DEF queueVars, Pending
  <2>5. CASE RemoveCall
    BY <2>4, <2>5, RemoveCallServes DEF RemoveCall, F!Next
  <2>6. CASE ClearCallQueue
    <3>1. Pending' = <<>>
      BY <2>6 DEF ClearCallQueue, Pending
    <3> QED
      BY <3>1 DEF F!Clear, F!Next
  <2> QED
    BY <2>2, <2>3, <2>4, <2>5, <2>6 DEF QueueNext
<1> QED
  BY <1>1, <1>2, QueueInvAlways, PTL DEF QueueSpec, ImplementsFifo, F!Spec

-----------------------------------------------------------------------------

(***************************************************************************)
(* The main loop's own part of the invariant: once the kernel is set up no *)
(* slot has a null function, no entry of the queue is as it was before,    *)
(* and what the loop has read stays true.                                  *)
(***************************************************************************)
LoopInv ==
  /\ pc \in {"boot", "setup", "poll", "call", "run", "check", "reap", "drop", "lost"}
  /\ current \in Task \cup Extern \cup {kv1Idle, NULL}
  /\ pc # "boot" => /\ \A i \in Slots : kv1TaskList[i].pointer # NULL
                    /\ \A i \in Entries : kv1CallQueue[i] # Nowhere
  /\ pc = "call" => kv1CallIndex # 0
  /\ pc = "reap" => \/ kv1CallQueue[0] = NULL
                    \/ /\ kv1CallQueue[0] \in Slots
                       /\ kv1TaskList[kv1CallQueue[0]].state = REAP

KernelInv == TableTypeOK /\ QueueInv /\ LoopInv

LEMMA FirstEntry == 0 \in Entries
BY CallQueueAssumption DEF Entries

LEMMA RefIsCall == Handles \subseteq Ref /\ Slots \subseteq Ref /\ Extern \subseteq Ref
BY KernelAssumption DEF Handles

(***************************************************************************)
(* One tick requests at most a call per slot.                              *)
(***************************************************************************)
LEMMA DueCallsAreBursts == DueCalls \subseteq Bursts
<1>1. IsFiniteSet(Slots) /\ Cardinality(Slots) = MAX_TASK_QUEUE_SIZE
  <2>1. 0 \in Int /\ MAX_TASK_QUEUE_SIZE - 1 \in Int /\ MAX_TASK_QUEUE_SIZE > 0
    BY TaskTableAssumption
  <2>2. /\ IsFiniteSet(0 .. MAX_TASK_QUEUE_SIZE - 1)
        /\ Cardinality(0 .. MAX_TASK_QUEUE_SIZE - 1) =
             IF 0 > MAX_TASK_QUEUE_SIZE - 1 THEN 0 ELSE MAX_TASK_QUEUE_SIZE - 1 - 0 + 1
    BY <2>1, FS_Interval
  <2> QED
    BY <2>1, <2>2, TaskTableAssumption DEF Slots
<1>2. DueSlots \subseteq Slots
  BY DEF DueSlots
<1>3. Cardinality(DueSlots) <= MAX_TASK_QUEUE_SIZE /\ Cardinality(DueSlots) \in Nat
  BY <1>1, <1>2, FS_Subset, FS_CardinalityType
<1>4. Cardinality(DueSlots) \in 0 .. BurstLimit
  BY <1>3, KernelAssumption, TaskTableAssumption
<1>5. [1 .. Cardinality(DueSlots) -> DueSlots] \subseteq [1 .. Cardinality(DueSlots) -> Ref]
  BY <1>2, RefIsCall
<1> QED
  BY <1>4, <1>5 DEF DueCalls, Bursts

(***************************************************************************)
(* Every step is a step of both arrays.                                    *)
(***************************************************************************)
LEMMA StepsOfTable ==
  ASSUME KernelInv, [KernelNext]_vars
  PROVE  [TableNext]_tableVars
<1>1. CASE Boot
  BY <1>1 DEF Boot, TableNext
<1>2. CASE Reap
  <2>1. kv1CallQueue[0] \in Handles
    BY <1>2 DEF Reap, KernelInv, LoopInv, Handles
  <2> QED
    BY <1>2, <2>1 DEF Reap, TableNext, Handles
<1>3. CASE Tick
  BY <1>3 DEF Tick, TableNext
<1>4. CASE AppRegister
  BY <1>4 DEF AppRegister, TableNext
<1>5. CASE AppSetState
  BY <1>5 DEF AppSetState, TableNext
<1>6. ASSUME NEW position \in Slots, AppRemoveAt(position)
      PROVE  [TableNext]_tableVars
  BY <1>6 DEF AppRemoveAt, TableNext, Handles
<1>7. ASSUME NEW ptr \in Task, AppRemoveByPtr(ptr)
      PROVE  [TableNext]_tableVars
  BY <1>7 DEF AppRemoveByPtr, TableNext
<1>8. CASE AppClearTasks
  BY <1>8 DEF AppClearTasks, TableNext
<1>9. CASE EnterLoop \/ Poll \/ Call \/ Return \/ Check \/ Drop \/ IsrAddCall \/ AppAddCall \/ AppCut
  BY <1>9 DEF EnterLoop, Poll, Call, Return, Check, Drop, IsrAddCall, AppAddCall, AppCut
<1>10. CASE UNCHANGED vars
  BY <1>10 DEF vars
<1> QED
  BY <1>1, <1>2, <1>3, <1>4, <1>5, <1>6, <1>7, <1>8, <1>9, <1>10
     DEF KernelNext, MainStep, Interrupt

LEMMA StepsOfQueue ==
  ASSUME KernelInv, [KernelNext]_vars
  PROVE  [QueueNext]_queueVars
<1>1. CASE Boot
  BY <1>1 DEF Boot, QueueNext
<1>2. CASE Tick
  BY <1>2, DueCallsAreBursts DEF Tick, QueueNext
<1>3. CASE IsrAddCall \/ AppAddCall
  BY <1>3, RefIsCall DEF IsrAddCall, AppAddCall, QueueNext
<1>4. CASE Drop \/ AppCut
  BY <1>4 DEF Drop, AppCut, QueueNext
<1>5. CASE EnterLoop \/ Poll \/ Call \/ Return \/ Check \/ Reap
  BY <1>5 DEF EnterLoop, Poll, Call, Return, Check, Reap
<1>6. CASE \/ AppRegister \/ AppSetState \/ AppClearTasks
           \/ \E position \in Slots : AppRemoveAt(position)
           \/ \E ptr \in Task : AppRemoveByPtr(ptr)
  BY <1>6 DEF AppRegister, AppSetState, AppClearTasks, AppRemoveAt, AppRemoveByPtr
<1>7. CASE UNCHANGED vars
  BY <1>7 DEF vars
<1> QED
  BY <1>1, <1>2, <1>3, <1>4, <1>5, <1>6, <1>7 DEF KernelNext, MainStep, Interrupt

LEMMA ArraysKeepInv ==
  ASSUME KernelInv, [KernelNext]_vars
  PROVE  TableTypeOK' /\ QueueInv'
BY StepsOfTable, StepsOfQueue, TypeInductive, QueueInvInductive DEF KernelInv

(***************************************************************************)
(* No operation on the list puts a null function into a slot.              *)
(***************************************************************************)
LEMMA NoNullFunction ==
  ASSUME TableTypeOK, \A i \in Slots : kv1TaskList[i].pointer # NULL, [TableNext]_tableVars
  PROVE  \A i \in Slots : kv1TaskList'[i].pointer # NULL
<1> USE TaskTableAssumption
<1>1. ASSUME NEW taskType \in {KTASK_SINGLERUN, KTASK_REPEATED}, NEW ptr \in Task,
             NEW period \in Period, NEW startupState \in AppState,
             AddTask(taskType, ptr, period, startupState)
      PROVE  \A i \in Slots : kv1TaskList'[i].pointer # NULL
  <2>1. PICK dummyTask \in NewTask(taskType, ptr, period, startupState) :
          kv1TaskList' = [i \in Slots |->
                            IF i \in SlotFor(ptr) THEN dummyTask ELSE kv1TaskList[i]]
    BY <1>1 DEF AddTask
  <2>2. dummyTask.pointer # NULL
    BY DEF NewTask
  <2> QED
    BY <2>1, <2>2
<1>2. ASSUME NEW position \in Nat, RemoveTaskByPos(position)
      PROVE  \A i \in Slots : kv1TaskList'[i].pointer # NULL
  <2>1. ResetTask.pointer # NULL
    BY DEF ResetTask, FreeTask
  <2> QED
    BY <1>2, <2>1, SlotSteps DEF RemoveTaskByPos
<1>3. ASSUME UNCHANGED tableVars
      PROVE  \A i \in Slots : kv1TaskList'[i].pointer # NULL
  BY <1>3 DEF tableVars
<1>4. ASSUME NEW ptr \in Task, RemoveTaskByPtr(ptr)
      PROVE  \A i \in Slots : kv1TaskList'[i].pointer # NULL
  BY <1>2, <1>3, <1>4 DEF RemoveTaskByPtr
<1>5. ASSUME NEW handle \in Handles, RemoveTask(handle)
      PROVE  \A i \in Slots : kv1TaskList'[i].pointer # NULL
  BY <1>2, <1>3, <1>5 DEF RemoveTask, Handles, Slots
<1>6. CASE ClearTaskQueue
  BY <1>6 DEF ClearTaskQueue, ResetTask, FreeTask
<1>7. ASSUME NEW handle \in Handles, NEW newState \in AppState, SetTaskState(handle, newState)
      PROVE  \A i \in Slots : kv1TaskList'[i].pointer # NULL
  BY <1>7 DEF SetTaskState, TableTypeOK, kv1TaskStruct_t
<1>8. CASE ServiceTable
  BY <1>8 DEF ServiceTable, Serviced, TableTypeOK, kv1TaskStruct_t
<1> QED
  BY <1>1, <1>2, <1>3, <1>4, <1>5, <1>6, <1>7, <1>8 DEF TableNext, Slots

(***************************************************************************)
(* After kernelv1_init every entry of the queue is one that was requested, *)
(* or padding.                                                             *)
(***************************************************************************)
LEMMA NoUnsetEntry ==
  ASSUME QueueInv, \A i \in Entries : kv1CallQueue[i] # Nowhere, [QueueNext]_queueVars
  PROVE  \A i \in Entries : kv1CallQueue'[i] # Nowhere
<1> SUFFICES ASSUME NEW i \in Entries PROVE kv1CallQueue'[i] # Nowhere
  OBVIOUS
<1> USE CallQueueAssumption
<1>1. QueueInv'
  BY QueueInvInductive
<1>2. CASE i < kv1CallIndex'
  BY <1>1, <1>2 DEF QueueInv, NoStaleEntry
<1>3. CASE ~(i < kv1CallIndex')
  <2>1. ASSUME NEW burst \in Bursts, AddCalls(burst) PROVE kv1CallQueue'[i] # Nowhere
    <3>1. Len(burst) \in Nat
      BY BurstIsSeq
    <3> QED
      BY <1>3, <2>1, <3>1 DEF AddCalls, QueueInv, QueueTypeOK, Entries
  <2>2. ASSUME NEW t_ptr \in Ref, AddCall(t_ptr) PROVE kv1CallQueue'[i] # Nowhere
    BY <2>2 DEF AddCall, QueueInv, QueueTypeOK, queueVars
  <2>3. CASE RemoveCall
    BY <2>3 DEF RemoveCall, QueueInv, QueueTypeOK, Entries, queueVars
  <2>4. CASE ClearCallQueue
    BY <2>4 DEF ClearCallQueue
  <2>5. CASE UNCHANGED queueVars
    BY <2>5 DEF queueVars
  <2> QED
    BY <2>1, <2>2, <2>3, <2>4, <2>5 DEF QueueNext
<1> QED
  BY <1>2, <1>3

LEMMA KernelInvInitially == KernelInit => KernelInv
BY TypeInitially, QueueInvInitially DEF KernelInit, KernelInv, LoopInv

(***************************************************************************)
(* An interrupt leaves a pending first call in place.                      *)
(***************************************************************************)
LEMMA InterruptKeepsFirst ==
  ASSUME KernelInv, Interrupt
  PROVE  /\ pc' = pc /\ current' = current
         /\ kv1CallIndex' >= kv1CallIndex
         /\ kv1CallIndex # 0 => kv1CallQueue'[0] = kv1CallQueue[0]
<1> USE CallQueueAssumption, FirstEntry DEF KernelInv, QueueInv, QueueTypeOK
<1>1. CASE Tick
  <2>1. PICK burst \in DueCalls : AddCalls(burst)
    BY <1>1 DEF Tick
  <2>2. Len(burst) \in Nat
    BY DueCallsAreBursts, BurstIsSeq
  <2> QED
    BY <1>1, <2>1, <2>2 DEF Tick, AddCalls
<1>2. CASE IsrAddCall
  BY <1>2 DEF IsrAddCall, AddCall, queueVars
<1> QED
  BY <1>1, <1>2 DEF Interrupt

LEMMA KernelInvInductive == KernelInv /\ [KernelNext]_vars => KernelInv'
<1> SUFFICES ASSUME KernelInv, [KernelNext]_vars PROVE LoopInv'
  BY ArraysKeepInv DEF KernelInv
<1>1. CASE Boot
  <2>1. \A i \in Slots : kv1TaskList'[i].pointer # NULL
    BY <1>1, TaskTableAssumption DEF Boot, ClearTaskQueue, ResetTask, FreeTask
  <2>2. \A i \in Entries : kv1CallQueue'[i] # Nowhere
    BY <1>1, CallQueueAssumption DEF Boot, ClearCallQueue
  <2> QED
    BY <1>1, <2>1, <2>2 DEF Boot, KernelInv, LoopInv
<1>2. CASE pc # "boot" /\ [KernelNext]_vars
  <2>1. /\ \A i \in Slots : kv1TaskList'[i].pointer # NULL
        /\ \A i \in Entries : kv1CallQueue'[i] # Nowhere
    <3>1. /\ \A i \in Slots : kv1TaskList[i].pointer # NULL
          /\ \A i \in Entries : kv1CallQueue[i] # Nowhere
          /\ TableTypeOK /\ QueueInv
      BY <1>2 DEF KernelInv, LoopInv
    <3>2. [TableNext]_tableVars /\ [QueueNext]_queueVars
      BY <1>2, StepsOfTable, StepsOfQueue
    <3>3. \A i \in Slots : kv1TaskList'[i].pointer # NULL
      BY <3>1, <3>2, NoNullFunction
    <3> QED
      BY <3>1, <3>2, <3>3, NoUnsetEntry
  <2>2. CASE EnterLoop \/ Poll \/ Return \/ Reap \/ Drop
    BY <2>1, <2>2 DEF EnterLoop, Poll, Return, Reap, Drop, KernelInv, LoopInv,
       tableVars, queueVars
  <2>7. CASE Check
    <3>1. PICK state \in StatesOf(kv1CallQueue[0]) :
            pc' = IF state = REAP THEN "reap" ELSE "drop"
      BY <2>7 DEF Check
    <3>2. /\ UNCHANGED <<tableVars, queueVars, current>> /\ pc = "check"
          /\ pc' \in {"reap", "drop"}
      BY <2>7, <3>1 DEF Check
    <3>3. CASE kv1CallQueue[0] \in Slots
      <4>1. pc' = "reap" => kv1TaskList[kv1CallQueue[0]].state = REAP
        BY <3>1, <3>3 DEF StatesOf
      <4>2. /\ kv1CallQueue' = kv1CallQueue /\ kv1TaskList' = kv1TaskList
            /\ current' = current
        BY <3>2 DEF tableVars, queueVars
      <4> QED
        BY <2>1, <3>2, <3>3, <4>1, <4>2 DEF KernelInv, LoopInv
    <3>4. CASE kv1CallQueue[0] \in Extern \cup {kv1IdleTask}
      <4>1. kv1CallQueue[0] \notin Slots
        BY <3>4, KernelAssumption, CallQueueAssumption
      <4>2. StatesOf(kv1CallQueue[0]) = {0}
        BY <3>4, <4>1 DEF StatesOf
      <4>3. pc' = "drop"
        BY <3>1, <4>2 DEF REAP
      <4> QED
        BY <2>1, <3>2, <4>3 DEF KernelInv, LoopInv
    <3>5. CASE kv1CallQueue[0] = NULL
      BY <2>1, <3>2, <3>5 DEF KernelInv, LoopInv, queueVars
    <3>6. kv1CallQueue[0] \in Slots \cup Extern \cup {NULL, kv1IdleTask}
      BY <1>2, FirstEntry, KernelAssumption DEF KernelInv, LoopInv, QueueInv, QueueTypeOK
    <3> QED
      BY <3>3, <3>4, <3>5, <3>6
  <2>3. CASE Call
    <3>1. CodeOf(kv1CallQueue[0]) \in Task \cup Extern \cup {kv1Idle, NULL}
      BY DEF CodeOf, KernelInv, TableTypeOK, kv1TaskStruct_t
    <3> QED
      BY <2>1, <2>3, <3>1 DEF Call, KernelInv, LoopInv
  <2>4. CASE Interrupt
    <3>1. pc' = "call" => kv1CallIndex' # 0
      BY <2>4, InterruptKeepsFirst DEF KernelInv, LoopInv, QueueInv, QueueTypeOK
    <3>2. ASSUME pc' = "reap"
          PROVE  \/ kv1CallQueue'[0] = NULL
                 \/ /\ kv1CallQueue'[0] \in Slots
                    /\ kv1TaskList'[kv1CallQueue'[0]].state = REAP
      <4>1. \/ kv1CallQueue[0] = NULL
            \/ kv1CallQueue[0] \in Slots /\ kv1TaskList[kv1CallQueue[0]].state = REAP
        BY <2>4, <3>2, InterruptKeepsFirst DEF KernelInv, LoopInv
      <4>2. kv1CallIndex # 0
        BY <4>1, RefIsCall, FirstEntry DEF KernelInv, QueueInv, NoStaleEntry, Handles
      <4>3. kv1CallQueue'[0] = kv1CallQueue[0]
        BY <2>4, <4>2, InterruptKeepsFirst
      <4>4. CASE kv1CallQueue[0] = NULL
        BY <4>3, <4>4
      <4>5. CASE kv1CallQueue[0] \in Slots /\ kv1TaskList[kv1CallQueue[0]].state = REAP
        <5>1. kv1TaskList'[kv1CallQueue[0]] = kv1TaskList[kv1CallQueue[0]]
          BY <2>4, <4>5 DEF Interrupt, Tick, IsrAddCall, ServiceTable, Serviced, Waiting, Due,
             REAP, ACTIVE, tableVars
        <5> QED
          BY <4>3, <4>5, <5>1
      <4> QED
        BY <4>1, <4>4, <4>5
    <3> QED
      BY <2>1, <2>4, <3>1, <3>2, InterruptKeepsFirst DEF KernelInv, LoopInv
  <2>5. CASE \/ AppRegister \/ AppSetState \/ AppAddCall \/ AppClearTasks \/ AppCut
             \/ \E position \in Slots : AppRemoveAt(position)
             \/ \E ptr \in Task : AppRemoveByPtr(ptr)
    <3>1. UNCHANGED <<pc, current>> /\ pc \in {"setup", "run"}
      BY <2>5 DEF AppRegister, AppSetState, AppAddCall, AppClearTasks, AppCut, AppRemoveAt,
         AppRemoveByPtr, InApp
    <3> QED
      BY <2>1, <3>1 DEF KernelInv, LoopInv
  <2>6. CASE UNCHANGED vars
    BY <2>6 DEF vars, tableVars, queueVars, KernelInv, LoopInv
  <2> QED
    BY <1>2, <2>2, <2>3, <2>4, <2>5, <2>6, <2>7 DEF KernelNext, MainStep, Boot
<1>3. CASE pc = "boot" /\ Interrupt
  BY <1>3 DEF Interrupt, Tick, IsrAddCall, KernelInv, LoopInv
<1>4. CASE pc = "boot" /\ (EnterLoop \/ Poll \/ Call \/ Return \/ Check \/ Reap \/ Drop)
  BY <1>4 DEF EnterLoop, Poll, Call, Return, Check, Reap, Drop
<1>5. CASE /\ pc = "boot"
           /\ \/ AppRegister \/ AppSetState \/ AppAddCall \/ AppClearTasks \/ AppCut
              \/ \E position \in Slots : AppRemoveAt(position)
              \/ \E ptr \in Task : AppRemoveByPtr(ptr)
  BY <1>5 DEF AppRegister, AppSetState, AppAddCall, AppClearTasks, AppCut, AppRemoveAt,
     AppRemoveByPtr, InApp
<1>6. CASE UNCHANGED vars
  BY <1>6 DEF vars, tableVars, queueVars, KernelInv, LoopInv
<1> QED
  BY <1>1, <1>2, <1>3, <1>4, <1>5, <1>6 DEF KernelNext, MainStep

LEMMA KernelInvAlways == KernelSpec => []KernelInv
BY KernelInvInitially, KernelInvInductive, PTL DEF KernelSpec

(***************************************************************************)
(* The kernel's variables keep their types.                                *)
(***************************************************************************)
THEOREM KernelTypeCorrect == KernelSpec => []KernelTypeOK
<1>1. KernelInv => KernelTypeOK
  BY DEF KernelInv, LoopInv, QueueInv, KernelTypeOK
<1> QED
  BY KernelInvAlways, <1>1, PTL

(***************************************************************************)
(* The main loop calls through a null pointer only for a call that was     *)
(* requested on a null handle; one on a slot or a structure of an          *)
(* interrupt leads to a function.                                          *)
(***************************************************************************)
THEOREM OnlyRequestedNullCalled == KernelSpec => []NullOnlyIfRequested
<1>1. KernelInv => NullOnlyIfRequested
  <2> SUFFICES ASSUME KernelInv, pc = "call"
               PROVE  /\ kv1CallIndex # 0
                      /\ kv1CallQueue[0] # NULL => CodeOf(kv1CallQueue[0]) # NULL
    BY DEF NullOnlyIfRequested
  <2>1. kv1CallIndex # 0 /\ kv1CallQueue[0] \in Ref
    BY FirstEntry DEF KernelInv, LoopInv, QueueInv, QueueTypeOK, NoStaleEntry
  <2>2. ASSUME kv1CallQueue[0] # NULL PROVE CodeOf(kv1CallQueue[0]) # NULL
    BY <2>1, <2>2, KernelAssumption DEF CodeOf, KernelInv, LoopInv
  <2> QED
    BY <2>1, <2>2
<1> QED
  BY KernelInvAlways, <1>1, PTL

(***************************************************************************)
(* What the main loop removes is a task of the list that asks for it.      *)
(***************************************************************************)
THEOREM OnlyTasksReaped == KernelSpec => []ReapsATask
<1>1. KernelInv => ReapsATask
  BY DEF KernelInv, LoopInv, ReapsATask
<1> QED
  BY KernelInvAlways, <1>1, PTL

(***************************************************************************)
(* Whatever the main loop, the interrupts and the tasks do between them,   *)
(* to the task list and to the call queue it is a sequence of operations   *)
(* of kernel.c.                                                            *)
(***************************************************************************)
THEOREM KernelIsItsParts == KernelSpec => TableSpec /\ QueueSpec
<1>1. KernelInit => TableInit /\ QueueInit
  BY DEF KernelInit
<1>2. KernelInv /\ [KernelNext]_vars => [TableNext]_tableVars /\ [QueueNext]_queueVars
  BY StepsOfTable, StepsOfQueue
<1> QED
  BY <1>1, <1>2, KernelInvAlways, PTL DEF KernelSpec, TableSpec, QueueSpec

(***************************************************************************)
(* Inside the kernel the list is the schedule and has neither holes nor    *)
(* duplicates, though handlers come between any two steps of taskManager.  *)
(***************************************************************************)
THEOREM KernelKeepsSchedule ==
  KernelSpec => ImplementsSchedule /\ []CompactTable /\ []NoDuplicateTask
BY KernelIsItsParts, TableIsSchedule, AlwaysCompact, NeverTwice, PTL

(***************************************************************************)
(* Inside the kernel the call queue serves calls in the order they were    *)
(* requested in, and keeps nothing of those it has served.                 *)
(***************************************************************************)
THEOREM KernelQueueIsFifo == KernelSpec => ImplementsFifo /\ []NoStaleEntry
BY KernelIsItsParts, QueueIsFifo, NeverStale, PTL

-----------------------------------------------------------------------------

(***************************************************************************)
(* The kernel with the memory of KernelHistory: a call reaches the         *)
(* function it was requested for, and taskManager drops and reaps what it  *)
(* served.                                                                 *)
(***************************************************************************)
Functions == Task \cup Extern \cup {kv1Idle, NULL}

(***************************************************************************)
(* There is a record per pending call.                                     *)
(***************************************************************************)
RecordInv ==
  /\ calls \in [1 .. kv1CallIndex -> [task : Functions, moved : BOOLEAN]]
  /\ ran \in [call : Ref, task : Functions]
  /\ cut \in BOOLEAN

(***************************************************************************)
(* A call whose slot has not moved leads to what it was requested for,     *)
(* which is a function when it was requested on a slot: addTask does not   *)
(* give an occupied slot to another function.                              *)
(***************************************************************************)
PendingInv ==
  \A k \in 1 .. kv1CallIndex :
    ~calls[k].moved =>
      /\ kv1CallQueue[k - 1] \in Slots => calls[k].task \notin {kv1Idle, NULL}
      /\ CodeOf(kv1CallQueue[k - 1]) = calls[k].task

(***************************************************************************)
(* The call in progress stays the first of the queue, with its record.     *)
(***************************************************************************)
ServedInv ==
  pc \in {"run", "check", "reap", "drop"} /\ ~cut =>
    /\ kv1CallIndex # 0
    /\ kv1CallQueue[0] = ran.call
    /\ ~calls[1].moved => calls[1].task = ran.task

HistoryInv == KernelInv /\ RecordInv /\ PendingInv /\ ServedInv

LEMMA EntryOf ==
  ASSUME QueueTypeOK
  PROVE  /\ kv1CallIndex \in Nat
         /\ \A k \in 1 .. kv1CallIndex :
              /\ k \in Nat /\ k - 1 \in Entries
              /\ k - 1 < kv1CallIndex
BY CallQueueAssumption DEF QueueTypeOK, Entries

LEMMA HistoryIsKernel == [HistoryNext]_allVars => [KernelNext]_vars
BY DEF HistoryNext, HistoryMain, HistoryInterrupt, HistoryCalmApp, HistoryRemoval, HistoryCut,
   KernelNext, MainStep, allVars

LEMMA CodeIsFunction ==
  ASSUME TableTypeOK, NEW c
  PROVE  CodeOf(c) \in Functions
BY DEF CodeOf, TableTypeOK, kv1TaskStruct_t, Functions

LEMMA HistoryInvInitially == HistoryInit => HistoryInv
<1> SUFFICES ASSUME HistoryInit PROVE RecordInv /\ PendingInv /\ ServedInv
  BY KernelInvInitially DEF HistoryInv, HistoryInit
<1>1. kv1CallIndex = 0 /\ pc = "boot"
  BY DEF HistoryInit, KernelInit, QueueInit
<1>2. calls \in [1 .. kv1CallIndex -> [task : Functions, moved : BOOLEAN]]
  BY <1>1 DEF HistoryInit
<1>3. ran \in [call : Ref, task : Functions] /\ cut = FALSE
  BY KernelAssumption DEF HistoryInit, Functions
<1>4. PendingInv
  BY <1>1 DEF PendingInv
<1> QED
  BY <1>1, <1>2, <1>3, <1>4 DEF RecordInv, ServedInv

-----------------------------------------------------------------------------

(***************************************************************************)
(* Steps that add requests: the calls before them stay where they are, and *)
(* no slot changes its function.                                           *)
(***************************************************************************)
LEMMA RequestsAppend ==
  ASSUME KernelInv, Interrupt \/ AppAddCall
  PROVE  /\ kv1CallIndex' >= kv1CallIndex
         /\ \A i \in Entries : i < kv1CallIndex => kv1CallQueue'[i] = kv1CallQueue[i]
         /\ \A i \in Slots : kv1TaskList'[i].pointer = kv1TaskList[i].pointer
         /\ UNCHANGED <<pc, current>>
<1> USE CallQueueAssumption DEF KernelInv, QueueInv, QueueTypeOK
<1>1. CASE Tick
  <2>1. PICK burst \in DueCalls : AddCalls(burst)
    BY <1>1 DEF Tick
  <2>2. Len(burst) \in Nat
    BY DueCallsAreBursts, BurstIsSeq
  <2>3. \A i \in Slots : kv1TaskList'[i].pointer = kv1TaskList[i].pointer
    BY <1>1 DEF Tick, ServiceTable, Serviced, TableTypeOK, kv1TaskStruct_t
  <2> QED
    BY <1>1, <2>1, <2>2, <2>3 DEF Tick, AddCalls, Entries
<1>2. CASE IsrAddCall \/ AppAddCall
  BY <1>2 DEF IsrAddCall, AppAddCall, AddCall, queueVars, tableVars, Entries
<1> QED
  BY <1>1, <1>2 DEF Interrupt

LEMMA RequestsKeepInv ==
  ASSUME HistoryInv, KernelInv', Interrupt \/ AppAddCall, NoteRequests
  PROVE  HistoryInv'
<1> USE DEF HistoryInv
<1>1. QueueTypeOK /\ QueueTypeOK' /\ TableTypeOK
  BY DEF KernelInv, QueueInv
<1>2. /\ kv1CallIndex \in Nat /\ kv1CallIndex' \in Nat
      /\ \A k \in 1 .. kv1CallIndex' : k \in Nat /\ (k <= kv1CallIndex => k \in 1 .. kv1CallIndex)
      /\ \A k \in 1 .. kv1CallIndex : k - 1 \in Entries /\ k - 1 < kv1CallIndex
      /\ \A k \in 1 .. kv1CallIndex' : k - 1 \in Entries /\ k - 1 < kv1CallIndex'
  BY <1>1, CallQueueAssumption DEF QueueTypeOK, Entries
<1>3. calls' = [k \in 1 .. kv1CallIndex' |->
                 IF k <= kv1CallIndex THEN calls[k] ELSE Request(kv1CallQueue'[k - 1])]
  BY DEF NoteRequests
<1>4. \A c : Request(c) \in [task : Functions, moved : BOOLEAN]
  BY <1>1, CodeIsFunction DEF Request
<1>5. RecordInv'
  <2>1. calls' \in [1 .. kv1CallIndex' -> [task : Functions, moved : BOOLEAN]]
    BY <1>2, <1>3, <1>4 DEF RecordInv
  <2> QED
    BY <2>1 DEF RecordInv, NoteRequests
<1>6. PendingInv'
  <2> SUFFICES ASSUME NEW k \in 1 .. kv1CallIndex', ~calls'[k].moved
               PROVE  /\ kv1CallQueue'[k - 1] \in Slots => calls'[k].task \notin {kv1Idle, NULL}
                      /\ CodeOf(kv1CallQueue[k - 1])' = calls'[k].task
    BY DEF PendingInv
  <2>1. CodeOf(kv1CallQueue[k - 1])' = CodeOf(kv1CallQueue'[k - 1])
    BY RequestsAppend DEF CodeOf
  <2>2. CASE k <= kv1CallIndex
    <3>1. calls'[k] = calls[k] /\ kv1CallQueue'[k - 1] = kv1CallQueue[k - 1]
      BY <1>2, <1>3, <2>2, RequestsAppend
    <3> QED
      BY <1>2, <2>1, <2>2, <3>1 DEF PendingInv
  <2>3. CASE ~(k <= kv1CallIndex)
    <3>1. calls'[k] = Request(kv1CallQueue'[k - 1])
      BY <1>3, <2>3
    <3>3. kv1CallQueue'[k - 1] \in Slots => Occupied(kv1CallQueue'[k - 1])
      <4>1. calls'[k].moved = (kv1CallQueue'[k - 1] \in Slots /\ ~Occupied(kv1CallQueue'[k - 1]))
        BY <3>1 DEF Request
      <4> QED
        BY <4>1
    <3>4. kv1CallQueue'[k - 1] \in Slots => CodeOf(kv1CallQueue'[k - 1]) \notin {kv1Idle, NULL}
      BY <3>3 DEF CodeOf, Occupied
    <3> QED
      BY <2>1, <3>1, <3>4 DEF Request
  <2> QED
    BY <2>2, <2>3
<1>7. ServedInv'
  <2> SUFFICES ASSUME pc \in {"run", "check", "reap", "drop"}, ~cut
               PROVE  /\ kv1CallIndex' # 0 /\ kv1CallQueue'[0] = kv1CallQueue[0]
                      /\ calls'[1] = calls[1]
    BY RequestsAppend DEF ServedInv, NoteRequests
  <2>1. kv1CallIndex # 0
    BY DEF ServedInv
  <2> QED
    BY <1>2, <1>3, <2>1, RequestsAppend, FirstEntry
<1> QED
  BY <1>5, <1>6, <1>7

-----------------------------------------------------------------------------

(***************************************************************************)
(* Steps that leave the queue and its records alone, and keep the function *)
(* of every occupied slot.                                                 *)
(***************************************************************************)
KeepsFunctions ==
  \A i \in Slots : Occupied(i) => kv1TaskList'[i].pointer = kv1TaskList[i].pointer

LEMMA SameQueueKeepsPending ==
  ASSUME PendingInv, RecordInv, QueueTypeOK, KeepsFunctions, UNCHANGED <<queueVars, calls>>
  PROVE  PendingInv'
<1> SUFFICES ASSUME NEW k \in 1 .. kv1CallIndex, ~calls[k].moved
             PROVE  /\ kv1CallQueue[k - 1] \in Slots => calls[k].task \notin {kv1Idle, NULL}
                    /\ CodeOf(kv1CallQueue[k - 1])' = calls[k].task
  BY DEF PendingInv, queueVars
<1>1. /\ kv1CallQueue[k - 1] \in Slots => calls[k].task \notin {kv1Idle, NULL}
      /\ CodeOf(kv1CallQueue[k - 1]) = calls[k].task
  BY DEF PendingInv
<1>2. kv1CallQueue'[k - 1] = kv1CallQueue[k - 1]
  BY DEF queueVars
<1>3. kv1CallQueue[k - 1] \in Slots => Occupied(kv1CallQueue[k - 1])
  BY <1>1 DEF CodeOf, Occupied
<1> QED
  BY <1>1, <1>2, <1>3 DEF CodeOf, KeepsFunctions

LEMMA AppKeepsFunctions ==
  ASSUME HistoryInv, AppRegister \/ AppSetState
  PROVE  KeepsFunctions
<1>1. CASE AppRegister
  <2>1. PICK taskType \in {KTASK_SINGLERUN, KTASK_REPEATED}, ptr \in Task,
             period \in Period, startupState \in AppState :
               AddTask(taskType, ptr, period, startupState)
    BY <1>1 DEF AppRegister
  <2>2. PICK dummyTask \in NewTask(taskType, ptr, period, startupState) :
          kv1TaskList' = [i \in Slots |->
                            IF i \in SlotFor(ptr) THEN dummyTask ELSE kv1TaskList[i]]
    BY <2>1 DEF AddTask
  <2>3. dummyTask.pointer = ptr
    BY DEF NewTask
  <2> QED
    BY <2>2, <2>3 DEF KeepsFunctions, Occupied, SlotFor, Accepts
<1>2. CASE AppSetState
  BY <1>2 DEF AppSetState, SetTaskState, KeepsFunctions, HistoryInv, KernelInv, TableTypeOK,
     kv1TaskStruct_t
<1> QED
  BY <1>1, <1>2

(***************************************************************************)
(* The calls on the slots at and above the one removed are marked; the     *)
(* slots below it keep their functions.                                    *)
(***************************************************************************)
KeepsBelow(bound) ==
  \A i \in Slots : i < bound => kv1TaskList'[i].pointer = kv1TaskList[i].pointer

LEMMA RemovalKeepsPending ==
  ASSUME PendingInv, RecordInv, QueueTypeOK, NEW bound \in Nat, KeepsBelow(bound),
         UNCHANGED queueVars, NoteRemoval(bound)
  PROVE  /\ PendingInv'
         /\ calls' \in [1 .. kv1CallIndex' -> [task : Functions, moved : BOOLEAN]]
         /\ \A k \in 1 .. kv1CallIndex : ~calls'[k].moved => calls'[k] = calls[k]
<1>1. DOMAIN calls = 1 .. kv1CallIndex
  BY DEF RecordInv
<1>2. calls' = [k \in 1 .. kv1CallIndex |->
                 IF kv1CallQueue[k - 1] \in bound .. MAX_TASK_QUEUE_SIZE - 1
                   THEN [calls[k] EXCEPT !.moved = TRUE] ELSE calls[k]]
  BY <1>1 DEF NoteRemoval, MovedFrom
<1>3. \A k \in 1 .. kv1CallIndex : calls[k] \in [task : Functions, moved : BOOLEAN]
  BY DEF RecordInv
<1>4. calls' \in [1 .. kv1CallIndex -> [task : Functions, moved : BOOLEAN]]
  BY <1>2, <1>3
<1>5. \A k \in 1 .. kv1CallIndex :
        ~calls'[k].moved => /\ calls'[k] = calls[k]
                            /\ kv1CallQueue[k - 1] \notin bound .. MAX_TASK_QUEUE_SIZE - 1
  BY <1>2, <1>3
<1>6. PendingInv'
  <2> SUFFICES ASSUME NEW k \in 1 .. kv1CallIndex, ~calls'[k].moved
               PROVE  /\ kv1CallQueue[k - 1] \in Slots => calls'[k].task \notin {kv1Idle, NULL}
                      /\ CodeOf(kv1CallQueue[k - 1])' = calls'[k].task
    BY DEF PendingInv, queueVars
  <2>1. calls'[k] = calls[k] /\ kv1CallQueue[k - 1] \notin bound .. MAX_TASK_QUEUE_SIZE - 1
    BY <1>5
  <2>2. /\ kv1CallQueue[k - 1] \in Slots => calls[k].task \notin {kv1Idle, NULL}
        /\ CodeOf(kv1CallQueue[k - 1]) = calls[k].task
    BY <2>1 DEF PendingInv
  <2>3. kv1CallQueue[k - 1] \in Slots => kv1CallQueue[k - 1] < bound
    BY <2>1, TaskTableAssumption DEF Slots
  <2>4. kv1CallQueue'[k - 1] = kv1CallQueue[k - 1]
    BY DEF queueVars
  <2> QED
    BY <2>1, <2>2, <2>3, <2>4 DEF CodeOf, KeepsBelow
<1> QED
  BY <1>4, <1>5, <1>6 DEF queueVars

LEMMA RemovalKeepsBelow ==
  ASSUME TableTypeOK, NEW position \in Nat, RemoveTaskByPos(position),
         NEW bound \in Nat, bound <= position
  PROVE  bound < MAX_TASK_QUEUE_SIZE => KeepsBelow(bound)
<1> SUFFICES ASSUME bound < MAX_TASK_QUEUE_SIZE, NEW i \in Slots, i < bound
             PROVE  kv1TaskList'[i].pointer = kv1TaskList[i].pointer
  BY DEF KeepsBelow
<1>1. i # MAX_TASK_QUEUE_SIZE - 1 /\ ~(i >= position)
  BY SlotSteps, TaskTableAssumption
<1> QED
  BY <1>1, RemovalShifts

(***************************************************************************)
(* A removal by a task: of a slot, of a function, or of all.               *)
(***************************************************************************)
LEMMA HistoryRemovalKeeps ==
  ASSUME HistoryInv, HistoryRemoval
  PROVE  /\ UNCHANGED <<queueVars, pc, current>>
         /\ \/ \E bound \in Slots : KeepsBelow(bound) /\ NoteRemoval(bound)
            \/ UNCHANGED <<tableVars, historyVars>>
<1> USE DEF HistoryInv, KernelInv
<1>1. ASSUME NEW position \in Slots, AppRemoveAt(position), NoteRemoval(position)
      PROVE  KeepsBelow(position)
  <2>1. position \in Nat /\ position < MAX_TASK_QUEUE_SIZE /\ position # NULL
    BY TaskTableAssumption DEF Slots
  <2>2. RemoveTaskByPos(position)
    BY <1>1, <2>1 DEF AppRemoveAt, RemoveTask
  <2> QED
    BY <2>1, <2>2, RemovalKeepsBelow
<1>2. ASSUME NEW ptr \in Task, NEW position \in 0 .. MAX_TASK_QUEUE_SIZE,
             AppRemoveByPtr(ptr), PositionOf(ptr, position)
      PROVE  IF position # MAX_TASK_QUEUE_SIZE - 1
               THEN RemoveTaskByPos(position) ELSE UNCHANGED tableVars
  <2>2. PICK found \in 0 .. MAX_TASK_QUEUE_SIZE :
          /\ PositionOf(ptr, found)
          /\ IF found # MAX_TASK_QUEUE_SIZE - 1
               THEN RemoveTaskByPos(found) ELSE UNCHANGED tableVars
    BY <1>2 DEF AppRemoveByPtr, RemoveTaskByPtr
  <2>3. found = position
    <3>1. found \in Int /\ position \in Int
      BY TaskTableAssumption
    <3>2. ~(found < position)
      BY <1>2, <2>2, <3>1, TaskTableAssumption DEF PositionOf, Slots
    <3>3. ~(position < found)
      BY <1>2, <2>2, <3>1, TaskTableAssumption DEF PositionOf, Slots
    <3> QED
      BY <3>1, <3>2, <3>3
  <2> QED
    BY <2>2, <2>3
<1>3. KeepsBelow(0)
  BY DEF KeepsBelow, Slots
<1>4. UNCHANGED <<queueVars, pc, current>>
  BY DEF HistoryRemoval, AppRemoveAt, AppRemoveByPtr, AppClearTasks
<1>5. \/ \E bound \in Slots : KeepsBelow(bound) /\ NoteRemoval(bound)
      \/ UNCHANGED <<tableVars, historyVars>>
  <2>1. CASE \E position \in Slots : AppRemoveAt(position) /\ NoteRemoval(position)
    BY <1>1, <2>1
  <2>2. ASSUME NEW ptr \in Task, NEW position \in 0 .. MAX_TASK_QUEUE_SIZE,
               AppRemoveByPtr(ptr), PositionOf(ptr, position),
               CASE position = MAX_TASK_QUEUE_SIZE     -> NoteRemoval(position - 1)
                 [] position = MAX_TASK_QUEUE_SIZE - 1 -> UNCHANGED historyVars
                 [] OTHER                              -> NoteRemoval(position)
        PROVE  \/ \E bound \in Slots : KeepsBelow(bound) /\ NoteRemoval(bound)
               \/ UNCHANGED <<tableVars, historyVars>>
    <3>1. position \in Nat /\ position <= MAX_TASK_QUEUE_SIZE
      BY TaskTableAssumption
    <3>2. CASE position = MAX_TASK_QUEUE_SIZE
      <4>1. NoteRemoval(position - 1) /\ position - 1 \in Slots
        BY <2>2, <3>2, TaskTableAssumption DEF Slots
      <4>2. RemoveTaskByPos(position)
        BY <1>2, <2>2, <3>2, TaskTableAssumption
      <4>3. KeepsBelow(position - 1)
        BY <3>1, <3>2, <4>2, RemovalKeepsBelow, TaskTableAssumption
      <4> QED
        BY <4>1, <4>3
    <3>3. CASE position = MAX_TASK_QUEUE_SIZE - 1
      <4>1. UNCHANGED tableVars
        BY <1>2, <2>2, <3>3
      <4>2. UNCHANGED historyVars
        BY <2>2, <3>3, TaskTableAssumption
      <4> QED
        BY <4>1, <4>2
    <3>4. CASE position # MAX_TASK_QUEUE_SIZE /\ position # MAX_TASK_QUEUE_SIZE - 1
      <4>1. NoteRemoval(position) /\ position \in Slots
        BY <2>2, <3>1, <3>4, TaskTableAssumption DEF Slots
      <4>2. RemoveTaskByPos(position)
        BY <1>2, <2>2, <3>4
      <4>3. KeepsBelow(position)
        BY <3>1, <3>4, <4>2, RemovalKeepsBelow, TaskTableAssumption
      <4> QED
        BY <4>1, <4>3
    <3> QED
      BY <3>2, <3>3, <3>4
  <2>3. CASE AppClearTasks /\ NoteRemoval(0)
    BY <1>3, <2>3, TaskTableAssumption DEF Slots
  <2> QED
    BY <2>1, <2>2, <2>3 DEF HistoryRemoval
<1> QED
  BY <1>4, <1>5

-----------------------------------------------------------------------------

(***************************************************************************)
(* The queue loses its first call, or all of them, and so do the records.  *)
(***************************************************************************)
Shortened ==
  \/ kv1CallIndex' = 0 /\ calls' = <<>>
  \/ /\ kv1CallIndex # 0
     /\ kv1CallIndex' = kv1CallIndex - 1
     /\ calls' = Tail(calls)
     /\ \A i \in 1 .. kv1CallIndex - 1 : kv1CallQueue'[i - 1] = kv1CallQueue[i]

LEMMA FunctionIsSeq ==
  ASSUME NEW V, NEW n \in Nat, NEW f \in [1 .. n -> V]
  PROVE  f \in Seq(V) /\ Len(f) = n
<1>1. f \in Seq(V)
  BY SeqDef
<1> QED
  BY <1>1, LenProperties

LEMMA ShorteningKeepsPending ==
  ASSUME PendingInv, RecordInv, QueueTypeOK, UNCHANGED tableVars, Shortened
  PROVE  /\ PendingInv'
         /\ calls' \in [1 .. kv1CallIndex' -> [task : Functions, moved : BOOLEAN]]
<1>1. CASE kv1CallIndex' = 0 /\ calls' = <<>>
  BY <1>1 DEF PendingInv
<1>2. CASE /\ kv1CallIndex # 0
           /\ kv1CallIndex' = kv1CallIndex - 1
           /\ calls' = Tail(calls)
           /\ \A i \in 1 .. kv1CallIndex - 1 : kv1CallQueue'[i - 1] = kv1CallQueue[i]
  <2>1. kv1CallIndex \in Nat \ {0}
    BY <1>2, CallQueueAssumption DEF QueueTypeOK
  <2>2. calls \in Seq([task : Functions, moved : BOOLEAN]) /\ Len(calls) = kv1CallIndex
    BY <2>1, FunctionIsSeq DEF RecordInv
  <2>3. calls # <<>>
    BY <2>1, <2>2
  <2>4. /\ calls' \in Seq([task : Functions, moved : BOOLEAN])
        /\ Len(calls') = kv1CallIndex'
        /\ \A k \in 1 .. kv1CallIndex' : calls'[k] = calls[k + 1]
    BY <1>2, <2>1, <2>2, <2>3
  <2>5. calls' \in [1 .. kv1CallIndex' -> [task : Functions, moved : BOOLEAN]]
    <3>1. calls' \in [1 .. Len(calls') -> [task : Functions, moved : BOOLEAN]]
      BY <2>4, LenProperties
    <3> QED
      BY <2>4, <3>1
  <2>6. PendingInv'
    <3> SUFFICES ASSUME NEW k \in 1 .. kv1CallIndex', ~calls'[k].moved
                 PROVE  /\ kv1CallQueue'[k - 1] \in Slots => calls'[k].task \notin {kv1Idle, NULL}
                        /\ CodeOf(kv1CallQueue[k - 1])' = calls'[k].task
      BY DEF PendingInv
    <3>1. k \in 1 .. kv1CallIndex - 1 /\ k + 1 \in 1 .. kv1CallIndex /\ (k + 1) - 1 = k
      BY <1>2, <2>1
    <3>2. calls'[k] = calls[k + 1] /\ kv1CallQueue'[k - 1] = kv1CallQueue[k]
      BY <1>2, <2>4, <3>1
    <3>3. /\ kv1CallQueue[k] \in Slots => calls[k + 1].task \notin {kv1Idle, NULL}
          /\ CodeOf(kv1CallQueue[k]) = calls[k + 1].task
      BY <3>1, <3>2 DEF PendingInv
    <3> QED
      BY <3>2, <3>3 DEF CodeOf, tableVars
  <2> QED
    BY <2>5, <2>6
<1> QED
  BY <1>1, <1>2 DEF Shortened

LEMMA RemoveCallShortens ==
  ASSUME QueueTypeOK, RemoveCall,
         calls' = IF kv1CallIndex' = 0 THEN <<>> ELSE Tail(calls)
  PROVE  Shortened
<1> USE CallQueueAssumption DEF QueueTypeOK, Entries
<1>1. CASE kv1CallIndex > 0
  BY <1>1 DEF RemoveCall, Shortened
<1>2. CASE ~(kv1CallIndex > 0)
  BY <1>2 DEF RemoveCall, queueVars, Shortened
<1> QED
  BY <1>1, <1>2

-----------------------------------------------------------------------------

LEMMA MainKeepsInv ==
  ASSUME HistoryInv, KernelInv', HistoryMain
  PROVE  HistoryInv'
<1> USE DEF HistoryInv
<1>1. QueueTypeOK /\ TableTypeOK
  BY DEF KernelInv, QueueInv
<1>2. CASE Boot /\ calls' = <<>> /\ UNCHANGED <<ran, cut>>
  <2>1. kv1CallIndex' = 0 /\ pc' = "setup"
    BY <1>2 DEF Boot, ClearCallQueue
  <2>2. calls' \in [1 .. kv1CallIndex' -> [task : Functions, moved : BOOLEAN]]
    BY <1>2, <2>1
  <2> QED
    BY <1>2, <2>1, <2>2 DEF RecordInv, PendingInv, ServedInv
<1>3. CASE (EnterLoop \/ Poll \/ Return \/ Check) /\ UNCHANGED historyVars
  <2>1. UNCHANGED <<tableVars, queueVars>> /\ pc # "boot" /\ pc' # "boot"
    BY <1>3 DEF EnterLoop, Poll, Return, Check
  <2>2. PendingInv'
    BY <1>1, <1>3, <2>1, SameQueueKeepsPending DEF KeepsFunctions, historyVars, tableVars
  <2>3. pc' \in {"run", "check", "reap", "drop"} => pc \in {"run", "check", "reap", "drop"}
    BY <1>3 DEF EnterLoop, Poll, Return, Check
  <2> QED
    BY <1>3, <2>1, <2>2, <2>3 DEF historyVars, queueVars, RecordInv, ServedInv
<1>4. CASE Call /\ ran' = [call |-> kv1CallQueue[0], task |-> current'] /\ cut' = FALSE
           /\ UNCHANGED calls
  <2>1. /\ UNCHANGED <<tableVars, queueVars>> /\ pc = "call" /\ pc' \in {"run", "lost"}
        /\ current' = CodeOf(kv1CallQueue[0])
    BY <1>4 DEF Call
  <2>2. PendingInv'
    BY <1>1, <1>4, <2>1, SameQueueKeepsPending DEF KeepsFunctions, tableVars
  <2>3. kv1CallIndex # 0 /\ 1 \in 1 .. kv1CallIndex /\ 1 - 1 = 0
    BY <1>1, <2>1, CallQueueAssumption DEF KernelInv, LoopInv, QueueTypeOK
  <2>4. kv1CallQueue[0] \in Ref
    BY <2>1, FirstEntry DEF KernelInv, LoopInv, QueueInv, QueueTypeOK, NoStaleEntry
  <2>5. ran' \in [call : Ref, task : Functions]
    BY <1>1, <1>4, <2>1, <2>4, CodeIsFunction
  <2>6. ServedInv'
    BY <1>4, <2>1, <2>3 DEF ServedInv, PendingInv, queueVars
  <2> QED
    BY <1>4, <2>1, <2>2, <2>5, <2>6 DEF RecordInv, queueVars
<1>7. CASE Reap /\ kv1CallQueue[0] = NULL /\ UNCHANGED historyVars
  <2>1. UNCHANGED <<tableVars, queueVars>> /\ pc = "reap" /\ pc' = "drop"
    BY <1>7 DEF Reap, RemoveTask
  <2>2. PendingInv'
    BY <1>1, <1>7, <2>1, SameQueueKeepsPending DEF KeepsFunctions, historyVars, tableVars
  <2> QED
    BY <1>7, <2>1, <2>2 DEF historyVars, queueVars, RecordInv, ServedInv
<1>5. CASE Reap /\ kv1CallQueue[0] # NULL /\ NoteRemoval(kv1CallQueue[0])
  <2>1. kv1CallQueue[0] \in Slots /\ kv1CallQueue[0] # NULL
    BY <1>5 DEF Reap, KernelInv, LoopInv
  <2>2. RemoveTaskByPos(kv1CallQueue[0])
    BY <1>5, <2>1 DEF Reap, RemoveTask
  <2>3. kv1CallQueue[0] \in Nat /\ kv1CallQueue[0] < MAX_TASK_QUEUE_SIZE
    BY <2>1, TaskTableAssumption DEF Slots
  <2>4. KeepsBelow(kv1CallQueue[0])
    BY <1>1, <2>2, <2>3, RemovalKeepsBelow
  <2>5. UNCHANGED queueVars /\ pc = "reap" /\ pc' = "drop"
    BY <1>5 DEF Reap
  <2>6. /\ PendingInv'
        /\ calls' \in [1 .. kv1CallIndex' -> [task : Functions, moved : BOOLEAN]]
        /\ \A k \in 1 .. kv1CallIndex : ~calls'[k].moved => calls'[k] = calls[k]
    BY <1>1, <1>5, <2>3, <2>4, <2>5, RemovalKeepsPending
  <2>7. ServedInv'
    BY <1>1, <1>5, <2>5, <2>6, EntryOf DEF ServedInv, NoteRemoval, queueVars
  <2> QED
    BY <1>5, <2>5, <2>6, <2>7 DEF RecordInv, NoteRemoval, queueVars
<1>6. CASE /\ Drop
           /\ calls' = IF kv1CallIndex' = 0 THEN <<>> ELSE Tail(calls)
           /\ ran' = [call |-> NULL, task |-> NULL]
           /\ cut' = FALSE
  <2>1. RemoveCall /\ UNCHANGED tableVars /\ pc' = "poll"
    BY <1>6 DEF Drop
  <2>2. /\ PendingInv'
        /\ calls' \in [1 .. kv1CallIndex' -> [task : Functions, moved : BOOLEAN]]
    BY <1>1, <1>6, <2>1, RemoveCallShortens, ShorteningKeepsPending
  <2> QED
    BY <1>6, <2>1, <2>2, KernelAssumption DEF RecordInv, ServedInv, Functions
<1> QED
  BY <1>2, <1>3, <1>4, <1>5, <1>6, <1>7 DEF HistoryMain

LEMMA HistoryInvInductive == HistoryInv /\ [HistoryNext]_allVars => HistoryInv'
<1> SUFFICES ASSUME HistoryInv, [HistoryNext]_allVars PROVE HistoryInv'
  OBVIOUS
<1> USE DEF HistoryInv
<1>1. KernelInv'
  BY HistoryIsKernel, KernelInvInductive
<1>2. QueueTypeOK /\ TableTypeOK
  BY DEF KernelInv, QueueInv
<1>3. CASE HistoryMain
  BY <1>1, <1>3, MainKeepsInv
<1>4. CASE HistoryInterrupt \/ (AppAddCall /\ NoteRequests)
  BY <1>1, <1>4, RequestsKeepInv DEF HistoryInterrupt
<1>5. CASE (AppRegister \/ AppSetState) /\ UNCHANGED historyVars
  <2>1. UNCHANGED <<queueVars, pc, current>>
    BY <1>5 DEF AppRegister, AppSetState
  <2>2. PendingInv'
    BY <1>2, <1>5, <2>1, AppKeepsFunctions, SameQueueKeepsPending DEF historyVars
  <2> QED
    BY <1>1, <1>5, <2>1, <2>2 DEF historyVars, queueVars, RecordInv, ServedInv
<1>9. CASE HistoryRemoval /\ UNCHANGED <<tableVars, historyVars>>
  <2>1. UNCHANGED <<tableVars, queueVars, pc, current, calls, ran, cut>>
    BY <1>9, HistoryRemovalKeeps DEF historyVars
  <2>2. PendingInv'
    BY <1>2, <2>1, SameQueueKeepsPending DEF KeepsFunctions, tableVars
  <2> QED
    BY <1>1, <2>1, <2>2 DEF RecordInv, ServedInv, queueVars
<1>6. CASE HistoryRemoval /\ \E bound \in Slots : KeepsBelow(bound) /\ NoteRemoval(bound)
  <2>1. UNCHANGED <<queueVars, pc, current>>
    BY <1>6, HistoryRemovalKeeps
  <2>2. PICK bound \in Slots : KeepsBelow(bound) /\ NoteRemoval(bound)
    BY <1>6
  <2>3. bound \in Nat
    BY TaskTableAssumption DEF Slots
  <2>4. /\ PendingInv'
        /\ calls' \in [1 .. kv1CallIndex' -> [task : Functions, moved : BOOLEAN]]
        /\ \A k \in 1 .. kv1CallIndex : ~calls'[k].moved => calls'[k] = calls[k]
    BY <1>2, <2>1, <2>2, <2>3, RemovalKeepsPending
  <2>5. ServedInv'
    BY <1>2, <2>1, <2>2, <2>4, EntryOf DEF ServedInv, NoteRemoval, queueVars
  <2> QED
    BY <1>1, <2>1, <2>2, <2>4, <2>5 DEF RecordInv, NoteRemoval, queueVars
<1>7. CASE HistoryCut
  <2>1. UNCHANGED <<tableVars, pc, current>> /\ pc \in {"setup", "run"}
    BY <1>7 DEF HistoryCut, AppCut, InApp
  <2>2. Shortened
    <3>1. CASE RemoveCall
      BY <1>2, <1>7, <3>1, RemoveCallShortens DEF HistoryCut
    <3>2. CASE ClearCallQueue
      BY <1>7, <3>2 DEF HistoryCut, ClearCallQueue, Shortened
    <3> QED
      BY <1>7, <3>1, <3>2 DEF HistoryCut, AppCut
  <2>3. /\ PendingInv'
        /\ calls' \in [1 .. kv1CallIndex' -> [task : Functions, moved : BOOLEAN]]
    BY <1>2, <2>1, <2>2, ShorteningKeepsPending
  <2>4. ran' = ran /\ cut' = (pc = "run")
    BY <1>7 DEF HistoryCut
  <2> QED
    BY <1>1, <2>1, <2>3, <2>4 DEF RecordInv, ServedInv
<1>8. CASE UNCHANGED allVars
  <2>1. UNCHANGED <<tableVars, queueVars, pc, current, calls, ran, cut>>
    BY <1>8 DEF allVars, vars, historyVars
  <2>2. PendingInv'
    BY <1>2, <2>1, SameQueueKeepsPending DEF KeepsFunctions, tableVars
  <2> QED
    BY <1>1, <2>1, <2>2 DEF RecordInv, ServedInv, queueVars
<1> QED
  BY <1>3, <1>4, <1>5, <1>6, <1>7, <1>8, <1>9, HistoryRemovalKeeps DEF HistoryNext, HistoryCalmApp

LEMMA HistoryInvAlways == HistorySpec => []HistoryInv
BY HistoryInvInitially, HistoryInvInductive, PTL DEF HistorySpec

(***************************************************************************)
(* There always is a record per pending call, and the kernel's variables   *)
(* have their types.                                                       *)
(***************************************************************************)
THEOREM HistoryTypeCorrect == HistorySpec => []HistoryTypeOK
<1>1. HistoryInv => HistoryTypeOK
  BY DEF HistoryInv, KernelInv, QueueInv, LoopInv, RecordInv, Functions, HistoryTypeOK, KernelTypeOK
<1> QED
  BY HistoryInvAlways, <1>1, PTL

(***************************************************************************)
(* A pending call reaches the function it was requested for unless its     *)
(* slot, or one below it, was removed meanwhile.                           *)
(***************************************************************************)
THEOREM CallsReachTheirTasks == HistorySpec => []PendingRunsItsTask
<1>1. HistoryInv => PendingRunsItsTask
  BY DEF HistoryInv, RecordInv, PendingInv, PendingRunsItsTask
<1> QED
  BY HistoryInvAlways, <1>1, PTL

(***************************************************************************)
(* The call that taskManager drops is the one it served.                   *)
(***************************************************************************)
THEOREM ServedIsDropped == HistorySpec => []DropsWhatRan
<1>1. HistoryInv => DropsWhatRan
  BY DEF HistoryInv, ServedInv, DropsWhatRan
<1> QED
  BY HistoryInvAlways, <1>1, PTL

(***************************************************************************)
(* The task that taskManager removes is the one it served.                 *)
(***************************************************************************)
THEOREM ServedIsReaped == HistorySpec => []ReapsWhatRan
<1>1. HistoryInv => ReapsWhatRan
  <2> SUFFICES ASSUME HistoryInv, pc = "reap", ~cut, ~calls[1].moved
               PROVE  CodeOf(kv1CallQueue[0]) = ran.task
    BY DEF ReapsWhatRan
  <2>1. kv1CallIndex # 0 /\ calls[1].task = ran.task
    BY DEF HistoryInv, ServedInv
  <2>2. 1 \in 1 .. kv1CallIndex /\ 1 - 1 = 0
    BY <2>1, CallQueueAssumption DEF HistoryInv, KernelInv, QueueInv, QueueTypeOK
  <2>3. CodeOf(kv1CallQueue[0]) = calls[1].task
    BY <2>2 DEF HistoryInv, PendingInv
  <2> QED
    BY <2>1, <2>3
<1> QED
  BY HistoryInvAlways, <1>1, PTL

(***************************************************************************)
(* The memory of KernelHistory only records: with it the kernel is still   *)
(* the kernel, and all that is proved of the one holds of the other.       *)
(***************************************************************************)
THEOREM HistoryOnlyRecords == HistorySpec => KernelSpec
<1>1. HistoryInit => KernelInit
  BY DEF HistoryInit
<1> QED
  BY <1>1, HistoryIsKernel, PTL DEF HistorySpec, KernelSpec
=============================================================================
