-------------------------- MODULE TaskTableProofs ---------------------------
(***************************************************************************)
(* What holds of the task list for every size of the list and every set of *)
(* functions, periods and states: its shape, that it implements the        *)
(* schedule, and that repeated functions are called once in each of their  *)
(* periods.                                                                *)
(***************************************************************************)
EXTENDS TaskTiming, FiniteSetTheorems, TLAPS

(***************************************************************************)
(* Every operation of kernel.c leaves task structures in all slots.        *)
(***************************************************************************)
LEMMA TypeInductive == TableTypeOK /\ [TableNext]_tableVars => TableTypeOK'
<1> SUFFICES ASSUME TableTypeOK, [TableNext]_tableVars PROVE TableTypeOK'
  OBVIOUS
<1> USE TaskTableAssumption DEF TableTypeOK
<1>1. ResetTask \in kv1TaskStruct_t
  BY DEF ResetTask, FreeTask, kv1TaskStruct_t, ACTIVE
<1>2. ASSUME NEW taskType \in {KTASK_SINGLERUN, KTASK_REPEATED}, NEW ptr \in Task,
             NEW period \in Period, NEW startupState \in AppState,
             AddTask(taskType, ptr, period, startupState)
      PROVE  TableTypeOK'
  <2>1. PICK dummyTask \in NewTask(taskType, ptr, period, startupState) :
          kv1TaskList' = [i \in Slots |->
                            IF i \in SlotFor(ptr) THEN dummyTask ELSE kv1TaskList[i]]
    BY <1>2 DEF AddTask
  <2>2. LastTick(period) \in Nat
    BY DEF LastTick
  <2>3. dummyTask \in kv1TaskStruct_t
    <3>1. startupState \in 0 .. 255
      OBVIOUS
    <3>2. (IF taskType = KTASK_REPEATED THEN {LastTick(period)} ELSE Garbage) \subseteq Nat
      BY <2>2
    <3> QED
      BY <2>2, <3>1, <3>2 DEF NewTask, kv1TaskStruct_t
  <2> QED
    BY <1>2, <2>1, <2>3 DEF AddTask
<1>3. ASSUME NEW position \in Nat, RemoveTaskByPos(position)
      PROVE  TableTypeOK'
  <2>1. \A i \in Slots : i # MAX_TASK_QUEUE_SIZE - 1 => i + 1 \in Slots
    BY DEF Slots
  <2>2. kv1TaskList' \in [Slots -> kv1TaskStruct_t]
    BY <1>1, <1>3, <2>1 DEF RemoveTaskByPos
  <2>3. kv1TaskIndex' \in 0 .. UINT8 - 1
    BY <1>3 DEF RemoveTaskByPos
  <2>4. stray' \in BOOLEAN
    BY <1>3 DEF RemoveTaskByPos
  <2> QED
    BY <2>2, <2>3, <2>4
<1>4. ASSUME NEW ptr \in Task, RemoveTaskByPtr(ptr)
      PROVE  TableTypeOK'
  BY <1>3, <1>4 DEF RemoveTaskByPtr, tableVars
<1>5. ASSUME NEW handle \in Handles, RemoveTask(handle)
      PROVE  TableTypeOK'
  BY <1>3, <1>5 DEF RemoveTask, Handles, Slots, tableVars
<1>6. CASE ClearTaskQueue
  BY <1>1, <1>6 DEF ClearTaskQueue
<1>7. ASSUME NEW handle \in Handles, NEW newState \in AppState, SetTaskState(handle, newState)
      PROVE  TableTypeOK'
  <2>1. \A s \in kv1TaskStruct_t : [s EXCEPT !.state = newState] \in kv1TaskStruct_t
    BY DEF kv1TaskStruct_t
  <2> QED
    BY <1>7, <2>1 DEF SetTaskState
<1>8. CASE ServiceTable
  <2>1. \A i \in Slots : Serviced(i) \in kv1TaskStruct_t
    BY DEF Serviced, Waiting, Due, DONE, kv1TaskStruct_t
  <2> QED
    BY <1>8, <2>1 DEF ServiceTable
<1>9. CASE UNCHANGED tableVars
  BY <1>9 DEF tableVars
<1> QED
  BY <1>2, <1>3, <1>4, <1>5, <1>6, <1>7, <1>8, <1>9 DEF TableNext, Slots

LEMMA TypeInitially == TableInit => TableTypeOK
<1> SUFFICES ASSUME TableInit PROVE TableTypeOK
  OBVIOUS
<1>1. FreeTask(NULL, 0) \in kv1TaskStruct_t
  BY DEF FreeTask, kv1TaskStruct_t
<1>2. 0 \in 0 .. UINT8 - 1
  BY TaskTableAssumption
<1> QED
  BY <1>1, <1>2 DEF TableInit, TableTypeOK

(***************************************************************************)
(* The list always holds task structures.                                  *)
(***************************************************************************)
THEOREM TypeCorrect == TableSpec => []TableTypeOK
BY TypeInitially, TypeInductive, PTL DEF TableSpec

-----------------------------------------------------------------------------

(***************************************************************************)
(* Neither property is inductive alone: the search of addTask meets a      *)
(* registered function before a free slot only in a list without holes,    *)
(* and types tell a function from a free slot.                             *)
(***************************************************************************)
TableInv == TableTypeOK /\ CompactTable /\ NoDuplicateTask

LEMMA SlotSteps ==
  /\ \A i \in Slots : i \in Int /\ 0 <= i /\ i < MAX_TASK_QUEUE_SIZE
  /\ \A i \in Slots : i # MAX_TASK_QUEUE_SIZE - 1 => i + 1 \in Slots
  /\ MAX_TASK_QUEUE_SIZE - 1 \in Slots
BY TaskTableAssumption DEF Slots

(***************************************************************************)
(* Where a slot gets its structure from when the task at a position goes.  *)
(***************************************************************************)
LEMMA RemovalShifts ==
  ASSUME TableTypeOK, NEW position \in Nat, RemoveTaskByPos(position)
  PROVE  /\ ~Occupied(MAX_TASK_QUEUE_SIZE - 1)'
         /\ \A i \in Slots : i # MAX_TASK_QUEUE_SIZE - 1 =>
              kv1TaskList'[i] = IF i >= position THEN kv1TaskList[i + 1] ELSE kv1TaskList[i]
BY SlotSteps DEF RemoveTaskByPos, Occupied, ResetTask, FreeTask

(***************************************************************************)
(* Steps that leave all functions where they are.                          *)
(***************************************************************************)
LEMMA SamePointers ==
  ASSUME CompactTable, NoDuplicateTask,
         \A i \in Slots : kv1TaskList'[i].pointer = kv1TaskList[i].pointer
  PROVE  CompactTable' /\ NoDuplicateTask'
BY DEF CompactTable, NoDuplicateTask, Occupied

LEMMA AddKeepsInv ==
  ASSUME TableInv, NEW taskType, NEW ptr \in Task, NEW period \in Period,
         NEW startupState \in AppState, AddTask(taskType, ptr, period, startupState)
  PROVE  CompactTable' /\ NoDuplicateTask'
<1> USE DEF TableInv
<1>1. PICK dummyTask \in NewTask(taskType, ptr, period, startupState) :
        kv1TaskList' = [i \in Slots |->
                          IF i \in SlotFor(ptr) THEN dummyTask ELSE kv1TaskList[i]]
  BY DEF AddTask
<1>2. dummyTask.pointer = ptr
  BY DEF NewTask
<1>3. ptr \notin {kv1Idle, NULL}
  BY TaskTableAssumption
<1>4. \A i \in Slots :
        /\ i \in SlotFor(ptr) => kv1TaskList'[i].pointer = ptr
        /\ i \notin SlotFor(ptr) => kv1TaskList'[i] = kv1TaskList[i]
  BY <1>1, <1>2
<1>5. \A i, k \in Slots : k \in SlotFor(ptr) /\ i < k => ~Accepts(i, ptr)
  BY DEF SlotFor, Slots
<1>6. CompactTable'
  <2> SUFFICES ASSUME NEW i \in Slots, NEW j \in Slots, i < j, Occupied(j)'
               PROVE  Occupied(i)'
    BY DEF CompactTable
  <2>1. CASE i \in SlotFor(ptr)
    BY <2>1, <1>3, <1>4 DEF Occupied
  <2>2. CASE i \notin SlotFor(ptr) /\ j \in SlotFor(ptr)
    <3>1. ~Accepts(i, ptr)
      BY <2>2, <1>5
    <3>2. kv1TaskList'[i] = kv1TaskList[i]
      BY <2>2, <1>4
    <3> QED
      BY <3>1, <3>2 DEF Occupied, Accepts
  <2>3. CASE i \notin SlotFor(ptr) /\ j \notin SlotFor(ptr)
    BY <2>3, <1>4 DEF Occupied, CompactTable
  <2> QED
    BY <2>1, <2>2, <2>3
<1>7. \A k, i \in Slots : k \in SlotFor(ptr) /\ kv1TaskList[i].pointer = ptr => i = k
  <2> SUFFICES ASSUME NEW k \in Slots, NEW i \in Slots, k \in SlotFor(ptr),
                      kv1TaskList[i].pointer = ptr
               PROVE  i = k
    OBVIOUS
  <2>1. Occupied(i) /\ Accepts(i, ptr)
    BY <1>3 DEF Occupied, Accepts
  <2>2. k <= i
    BY <2>1, <1>5, SlotSteps
  <2>3. Occupied(k)
    BY <2>1, <2>2, SlotSteps DEF CompactTable
  <2>4. kv1TaskList[k].pointer = ptr
    BY <2>3 DEF SlotFor, Accepts, Occupied
  <2> QED
    BY <2>3, <2>4 DEF NoDuplicateTask
<1>8. NoDuplicateTask'
  <2> SUFFICES ASSUME NEW i \in Slots, NEW j \in Slots, Occupied(i)',
                      kv1TaskList'[i].pointer = kv1TaskList'[j].pointer
               PROVE  i = j
    BY DEF NoDuplicateTask
  <2>1. CASE i \in SlotFor(ptr) /\ j \in SlotFor(ptr)
    BY <2>1, <1>5, SlotSteps DEF SlotFor
  <2>2. CASE i \in SlotFor(ptr) /\ j \notin SlotFor(ptr)
    <3>1. kv1TaskList'[i].pointer = ptr /\ kv1TaskList'[j] = kv1TaskList[j]
      BY <2>2, <1>4
    <3> QED
      BY <3>1, <2>2, <1>7
  <2>3. CASE i \notin SlotFor(ptr) /\ j \in SlotFor(ptr)
    <3>1. kv1TaskList'[j].pointer = ptr /\ kv1TaskList'[i] = kv1TaskList[i]
      BY <2>3, <1>4
    <3> QED
      BY <3>1, <2>3, <1>7
  <2>4. CASE i \notin SlotFor(ptr) /\ j \notin SlotFor(ptr)
    BY <2>4, <1>4 DEF NoDuplicateTask, Occupied
  <2> QED
    BY <2>1, <2>2, <2>3, <2>4
<1> QED
  BY <1>6, <1>8

LEMMA RemovalKeepsInv ==
  ASSUME TableInv, NEW position \in Nat, RemoveTaskByPos(position)
  PROVE  CompactTable' /\ NoDuplicateTask'
<1> USE DEF TableInv
<1> DEFINE From(i) == IF i >= position THEN i + 1 ELSE i
<1>1. \A i \in Slots : Occupied(i)' => i # MAX_TASK_QUEUE_SIZE - 1
  BY RemovalShifts
<1>2. \A i \in Slots : i # MAX_TASK_QUEUE_SIZE - 1 =>
        From(i) \in Slots /\ kv1TaskList'[i] = kv1TaskList[From(i)]
  BY RemovalShifts, SlotSteps
<1>3. \A i \in Slots : Occupied(i)' => Occupied(From(i))
  BY <1>1, <1>2 DEF Occupied
<1>4. CompactTable'
  <2> SUFFICES ASSUME NEW i \in Slots, NEW j \in Slots, i < j, Occupied(j)'
               PROVE  Occupied(i)'
    BY DEF CompactTable
  <2>1. i # MAX_TASK_QUEUE_SIZE - 1 /\ From(i) < From(j)
    BY SlotSteps, TaskTableAssumption
  <2>2. Occupied(From(i))
    BY <1>1, <1>2, <1>3, <2>1 DEF CompactTable
  <2> QED
    BY <1>2, <2>1, <2>2 DEF Occupied
<1>5. NoDuplicateTask'
  <2> SUFFICES ASSUME NEW i \in Slots, NEW j \in Slots, Occupied(i)',
                      kv1TaskList'[i].pointer = kv1TaskList'[j].pointer
               PROVE  i = j
    BY DEF NoDuplicateTask
  <2>1. Occupied(j)'
    BY DEF Occupied
  <2>2. From(i) = From(j)
    BY <1>1, <1>2, <1>3, <2>1 DEF NoDuplicateTask
  <2> QED
    BY <2>2, SlotSteps
<1> QED
  BY <1>4, <1>5

LEMMA InvInductive == TableInv /\ [TableNext]_tableVars => TableInv'
<1> SUFFICES ASSUME TableInv, [TableNext]_tableVars PROVE CompactTable' /\ NoDuplicateTask'
  BY TypeInductive DEF TableInv
<1>1. ASSUME NEW taskType \in {KTASK_SINGLERUN, KTASK_REPEATED}, NEW ptr \in Task,
             NEW period \in Period, NEW startupState \in AppState,
             AddTask(taskType, ptr, period, startupState)
      PROVE  CompactTable' /\ NoDuplicateTask'
  BY <1>1, AddKeepsInv
<1>2. ASSUME NEW position \in Nat, RemoveTaskByPos(position)
      PROVE  CompactTable' /\ NoDuplicateTask'
  BY <1>2, RemovalKeepsInv
<1>3. ASSUME UNCHANGED tableVars
      PROVE  CompactTable' /\ NoDuplicateTask'
  BY <1>3, SamePointers DEF TableInv, tableVars
<1>4. ASSUME NEW ptr \in Task, RemoveTaskByPtr(ptr)
      PROVE  CompactTable' /\ NoDuplicateTask'
  BY <1>2, <1>3, <1>4, TaskTableAssumption DEF RemoveTaskByPtr
<1>5. ASSUME NEW handle \in Handles, RemoveTask(handle)
      PROVE  CompactTable' /\ NoDuplicateTask'
  BY <1>2, <1>3, <1>5 DEF RemoveTask, Handles, Slots
<1>6. CASE ClearTaskQueue
  <2>1. \A i \in Slots : ~Occupied(i)'
    BY <1>6 DEF ClearTaskQueue, Occupied, ResetTask, FreeTask
  <2> QED
    BY <2>1 DEF CompactTable, NoDuplicateTask
<1>7. ASSUME NEW handle \in Handles, NEW newState \in AppState, SetTaskState(handle, newState)
      PROVE  CompactTable' /\ NoDuplicateTask'
  <2>1. \A i \in Slots : kv1TaskList'[i].pointer = kv1TaskList[i].pointer
    BY <1>7 DEF SetTaskState, TableInv, TableTypeOK, kv1TaskStruct_t
  <2> QED
    BY <2>1, SamePointers DEF TableInv
<1>8. CASE ServiceTable
  <2>1. \A i \in Slots : kv1TaskList'[i].pointer = kv1TaskList[i].pointer
    BY <1>8 DEF ServiceTable, Serviced, TableInv, TableTypeOK, kv1TaskStruct_t
  <2> QED
    BY <2>1, SamePointers DEF TableInv
<1> QED
  BY <1>1, <1>2, <1>3, <1>4, <1>5, <1>6, <1>7, <1>8 DEF TableNext, Slots

LEMMA InvInitially == TableInit => TableInv
<1> SUFFICES ASSUME TableInit PROVE CompactTable /\ NoDuplicateTask
  BY TypeInitially DEF TableInv
<1>1. \A i \in Slots : ~Occupied(i)
  BY DEF TableInit, Occupied, FreeTask
<1> QED
  BY <1>1 DEF CompactTable, NoDuplicateTask

LEMMA InvAlways == TableSpec => []TableInv
BY InvInitially, InvInductive, PTL DEF TableSpec

(***************************************************************************)
(* The list never has a hole.                                              *)
(***************************************************************************)
THEOREM AlwaysCompact == TableSpec => []CompactTable
<1>1. TableInv => CompactTable
  BY DEF TableInv
<1> QED
  BY InvAlways, <1>1, PTL

(***************************************************************************)
(* No function is ever registered twice.                                   *)
(***************************************************************************)
THEOREM NeverTwice == TableSpec => []NoDuplicateTask
<1>1. TableInv => NoDuplicateTask
  BY DEF TableInv
<1> QED
  BY InvAlways, <1>1, PTL

-----------------------------------------------------------------------------

(***************************************************************************)
(* The task list implements the schedule: every operation on the array is  *)
(* one operation on the registered functions, or none.                     *)
(***************************************************************************)
Plan == [t \in Registered |-> PlanOf(SlotOf(t))]

(***************************************************************************)
(* A registered function has one slot.                                     *)
(***************************************************************************)
LEMMA SlotOfRegistered ==
  ASSUME TableInv
  PROVE  /\ \A i \in Slots : Occupied(i) =>
              kv1TaskList[i].pointer \in Registered /\ SlotOf(kv1TaskList[i].pointer) = i
         /\ \A t \in Registered :
              SlotOf(t) \in Slots /\ Occupied(SlotOf(t)) /\ kv1TaskList[SlotOf(t)].pointer = t
         /\ Registered \subseteq Task
<1> USE DEF TableInv
<1>1. \A t \in Registered : \E i \in Slots : Occupied(i) /\ kv1TaskList[i].pointer = t
  BY DEF Registered
<1>2. \A t \in Registered : SlotOf(t) \in Slots /\ kv1TaskList[SlotOf(t)].pointer = t
  BY <1>1 DEF SlotOf
<1>3. \A i \in Slots : Occupied(i) => kv1TaskList[i].pointer \in Registered
  BY DEF Registered
<1>4. \A t \in Registered : Occupied(SlotOf(t))
  BY <1>1, <1>2 DEF Occupied
<1>5. \A i \in Slots : Occupied(i) => SlotOf(kv1TaskList[i].pointer) = i
  BY <1>2, <1>3 DEF NoDuplicateTask
<1>6. Registered \subseteq Task
  BY <1>1 DEF Occupied, TableTypeOK, kv1TaskStruct_t
<1> QED
  BY <1>2, <1>3, <1>4, <1>5, <1>6

LEMMA SlotOfRegisteredPrime ==
  ASSUME TableInv'
  PROVE  /\ \A i \in Slots : Occupied(i)' =>
              kv1TaskList'[i].pointer \in Registered' /\ SlotOf(kv1TaskList[i].pointer)' = i
         /\ \A t \in Registered' : \E i \in Slots :
              Occupied(i)' /\ kv1TaskList'[i].pointer = t /\ SlotOf(t)' = i
<1> USE DEF TableInv
<1>1. \A t \in Registered' : \E i \in Slots : Occupied(i)' /\ kv1TaskList'[i].pointer = t
  BY DEF Registered
<1>2. \A t \in Registered' : SlotOf(t)' \in Slots /\ kv1TaskList'[SlotOf(t)'].pointer = t
  BY <1>1 DEF SlotOf
<1>3. \A i \in Slots : Occupied(i)' => kv1TaskList'[i].pointer \in Registered'
  BY DEF Registered
<1>4. \A i \in Slots : Occupied(i)' => SlotOf(kv1TaskList[i].pointer)' = i
  BY <1>2, <1>3 DEF NoDuplicateTask
<1> QED
  BY <1>1, <1>2, <1>3, <1>4

(***************************************************************************)
(* The plan after a step is known from the slots after it: if each         *)
(* occupied slot has the countdown f gives its function, the plan is f.    *)
(***************************************************************************)
LEMMA PlanFrom ==
  ASSUME TableInv', NEW R, NEW f, f = [t \in R |-> f[t]],
         \A t : t \in R <=> \E i \in Slots : Occupied(i)' /\ kv1TaskList'[i].pointer = t,
         \A i \in Slots : Occupied(i)' => PlanOf(i)' = f[kv1TaskList'[i].pointer]
  PROVE  Plan' = f
<1>1. Registered' = R
  BY DEF Registered
<1>2. \A t \in R : PlanOf(SlotOf(t))' = f[t]
  <2> SUFFICES ASSUME NEW t \in R PROVE PlanOf(SlotOf(t))' = f[t]
    OBVIOUS
  <2>1. PICK i \in Slots : Occupied(i)' /\ kv1TaskList'[i].pointer = t /\ SlotOf(t)' = i
    BY <1>1, SlotOfRegisteredPrime
  <2>2. PlanOf(SlotOf(t))' = PlanOf(i)'
    BY <2>1 DEF PlanOf
  <2> QED
    BY <2>1, <2>2
<1>3. Plan' = [t \in R |-> PlanOf(SlotOf(t))']
  BY <1>1 DEF Plan
<1> QED
  BY <1>2, <1>3

LEMMA PlanOfRegistered ==
  ASSUME TableInv
  PROVE  /\ Plan = [t \in Registered |-> Plan[t]]
         /\ DOMAIN Plan = Registered
         /\ \A i \in Slots : Occupied(i) => Plan[kv1TaskList[i].pointer] = PlanOf(i)
BY SlotOfRegistered DEF Plan

(***************************************************************************)
(* A nonempty set of slots has a first one.                                *)
(***************************************************************************)
LEMMA LessThanWellFounded ==
  IsWellFoundedOn({ss \in Nat \X Nat : ss[1] < ss[2]}, Nat)
BY NatLessThanWellFounded DEF OpToRel

LEMMA FirstSlot ==
  ASSUME NEW T, T \subseteq Slots, T # {}
  PROVE  \E k \in T : \A j \in 0 .. k - 1 : j \notin T
<1>1. T \subseteq Nat
  BY DEF Slots
<1>2. PICK k \in T : \A j \in T : ~(<<j, k>> \in {ss \in Nat \X Nat : ss[1] < ss[2]})
  BY <1>1, LessThanWellFounded, WFMin
<1>3. \A j \in 0 .. k - 1 : j \in T => <<j, k>> \in {ss \in Nat \X Nat : ss[1] < ss[2]}
  BY <1>1
<1> QED
  BY <1>2, <1>3

(***************************************************************************)
(* Room is counted in functions by the schedule and in slots by the list.  *)
(***************************************************************************)
LEMMA RegisteredCount ==
  ASSUME TableInv
  PROVE  /\ Cardinality(Registered) \in Nat
         /\ Cardinality(Registered) <= MAX_TASK_QUEUE_SIZE
         /\ (\E i \in Slots : ~Occupied(i)) => Cardinality(Registered) < MAX_TASK_QUEUE_SIZE
         /\ (\A i \in Slots : Occupied(i)) => Cardinality(Registered) = MAX_TASK_QUEUE_SIZE
<1> DEFINE Used == {i \in Slots : Occupied(i)}
           slotOf == [t \in Registered |-> SlotOf(t)]
<1>1. IsFiniteSet(Slots) /\ Cardinality(Slots) = MAX_TASK_QUEUE_SIZE
  <2>1. 0 \in Int /\ MAX_TASK_QUEUE_SIZE - 1 \in Int /\ MAX_TASK_QUEUE_SIZE > 0
    BY TaskTableAssumption
  <2>2. /\ IsFiniteSet(0 .. MAX_TASK_QUEUE_SIZE - 1)
        /\ Cardinality(0 .. MAX_TASK_QUEUE_SIZE - 1) =
             IF 0 > MAX_TASK_QUEUE_SIZE - 1 THEN 0 ELSE MAX_TASK_QUEUE_SIZE - 1 - 0 + 1
    BY <2>1, FS_Interval
  <2> QED
    BY <2>1, <2>2, TaskTableAssumption DEF Slots
<1>2. /\ IsFiniteSet(Used)
      /\ Cardinality(Used) <= MAX_TASK_QUEUE_SIZE
      /\ MAX_TASK_QUEUE_SIZE = Cardinality(Used) => Slots = Used
  BY <1>1, FS_Subset
<1>3. slotOf \in Injection(Registered, Used) /\ slotOf \in Surjection(Registered, Used)
  BY SlotOfRegistered DEF Injection, IsInjective, Surjection
<1>4. IsFiniteSet(Registered) /\ Cardinality(Registered) = Cardinality(Used)
  BY <1>2, <1>3, FS_Injection
<1>5. Cardinality(Registered) \in Nat
  BY <1>4, FS_CardinalityType
<1>6. ASSUME NEW i \in Slots, ~Occupied(i)
      PROVE  Cardinality(Registered) < MAX_TASK_QUEUE_SIZE
  BY <1>2, <1>4, <1>5, <1>6, TaskTableAssumption
<1>7. ASSUME \A i \in Slots : Occupied(i)
      PROVE  Cardinality(Registered) = MAX_TASK_QUEUE_SIZE
  BY <1>1, <1>4, <1>7
<1> QED
  BY <1>2, <1>4, <1>5, <1>6, <1>7

-----------------------------------------------------------------------------

LEMMA SRegistered == S!Registered = Registered
BY DEF S!Registered

LEMMA SameCardinality == \A X : S!Cardinality(X) = Cardinality(X)
BY DEF S!Cardinality, Cardinality

LEMMA AddRefines ==
  ASSUME TableInv, TableInv',
         NEW taskType \in {KTASK_SINGLERUN, KTASK_REPEATED}, NEW ptr \in Task,
         NEW period \in Period, NEW startupState \in AppState,
         AddTask(taskType, ptr, period, startupState)
  PROVE  S!Next
<1>1. PICK dummyTask \in NewTask(taskType, ptr, period, startupState) :
        kv1TaskList' = [i \in Slots |->
                          IF i \in SlotFor(ptr) THEN dummyTask ELSE kv1TaskList[i]]
  BY DEF AddTask
<1>2. /\ dummyTask.pointer = ptr
      /\ dummyTask.delay = LastTick(period)
      /\ dummyTask.repeatPeriod \in Garbage \cup {LastTick(period)}
      /\ dummyTask.state = startupState
  <2>1. dummyTask.repeatPeriod \in
          IF taskType = KTASK_REPEATED THEN {LastTick(period)} ELSE Garbage
    BY DEF NewTask
  <2> QED
    BY <2>1 DEF NewTask
<1>3. ptr \notin {kv1Idle, NULL}
  BY TaskTableAssumption
<1>4. DOMAIN Plan = Registered
  BY PlanOfRegistered
<1>5. CASE SlotFor(ptr) = {}
  <2>1. \A i \in Slots : ~Accepts(i, ptr)
    <3> SUFFICES ASSUME {i \in Slots : Accepts(i, ptr)} # {} PROVE FALSE
      OBVIOUS
    <3>1. PICK k \in {i \in Slots : Accepts(i, ptr)} :
            \A j \in 0 .. k - 1 : j \notin {i \in Slots : Accepts(i, ptr)}
      BY FirstSlot
    <3>2. \A j \in 0 .. k - 1 : j \in Slots
      BY <3>1, TaskTableAssumption DEF Slots
    <3> QED
      BY <1>5, <3>1, <3>2 DEF SlotFor
  <2>2. \A i \in Slots : Occupied(i) /\ kv1TaskList[i].pointer # ptr
    BY <2>1 DEF Accepts, Occupied
  <2>3. ptr \notin Registered /\ Cardinality(Registered) = MAX_TASK_QUEUE_SIZE
    BY <2>2, RegisteredCount DEF Registered
  <2>4. kv1TaskList' = kv1TaskList
    BY <1>1, <1>5 DEF TableInv, TableTypeOK
  <2>5. Plan' = Plan
    BY <2>4 DEF Plan, PlanOf, SlotOf, Registered, Occupied
  <2>6. S!Refuse(ptr)
    BY <2>3, <2>5, SRegistered, SameCardinality DEF S!Refuse, Plan
  <2> QED
    BY <2>6 DEF S!Next
<1>6. CASE SlotFor(ptr) # {}
  <2>1. PICK k \in Slots : k \in SlotFor(ptr)
    BY <1>6 DEF SlotFor
  <2>2. \A i \in SlotFor(ptr) : i = k
    <3>1. \A i \in Slots, j \in Slots : i < j /\ j \in SlotFor(ptr) => ~Accepts(i, ptr)
      BY DEF SlotFor, Slots
    <3> QED
      BY <2>1, <3>1, SlotSteps DEF SlotFor
  <2>3. \A i \in Slots : kv1TaskList'[i] = IF i = k THEN dummyTask ELSE kv1TaskList[i]
    BY <1>1, <2>1, <2>2
  <2>4. ~Occupied(k) \/ kv1TaskList[k].pointer = ptr
    BY <2>1 DEF SlotFor, Accepts, Occupied
  <2>5. \A i \in Slots : i # k => Occupied(i)' = Occupied(i)
    BY <2>3 DEF Occupied
  <2>6. Occupied(k)' /\ kv1TaskList'[k].pointer = ptr
    BY <1>2, <1>3, <2>3 DEF Occupied
  <2> DEFINE fresh == [left |-> S!Last(period), every |-> dummyTask.repeatPeriod,
                       state |-> startupState]
             plan == [t \in Registered \cup {ptr} |-> IF t = ptr THEN fresh ELSE Plan[t]]
  <2>7. PlanOf(k)' = fresh
    BY <1>2, <2>3 DEF PlanOf, S!Last, LastTick
  <2>8. \A i \in Slots : Occupied(i)' /\ kv1TaskList'[i].pointer = ptr => i = k
    BY <2>6 DEF TableInv, NoDuplicateTask
  <2>9. \A i \in Slots : Occupied(i)' => PlanOf(i)' = plan[kv1TaskList'[i].pointer]
    <3> SUFFICES ASSUME NEW i \in Slots, Occupied(i)'
                 PROVE  PlanOf(i)' = plan[kv1TaskList'[i].pointer]
      OBVIOUS
    <3>1. CASE i = k
      BY <3>1, <2>6, <2>7
    <3>2. CASE i # k
      <4>1. Occupied(i) /\ kv1TaskList'[i] = kv1TaskList[i] /\ kv1TaskList'[i].pointer # ptr
        BY <3>2, <2>3, <2>5, <2>8
      <4>2. kv1TaskList[i].pointer \in Registered
        BY <4>1, SlotOfRegistered
      <4>3. PlanOf(i)' = PlanOf(i)
        BY <4>1 DEF PlanOf
      <4> QED
        BY <4>1, <4>2, <4>3, PlanOfRegistered
    <3> QED
      BY <3>1, <3>2
  <2>10. \A t : t \in Registered \cup {ptr} <=>
                 \E i \in Slots : Occupied(i)' /\ kv1TaskList'[i].pointer = t
    <3> SUFFICES ASSUME NEW t
                 PROVE  t \in Registered \cup {ptr} <=>
                          \E i \in Slots : Occupied(i)' /\ kv1TaskList'[i].pointer = t
      OBVIOUS
    <3>1. CASE t = ptr
      BY <3>1, <2>6
    <3>2. CASE t # ptr
      BY <3>2, <2>3, <2>4, <2>5, <2>6 DEF Registered
    <3> QED
      BY <3>1, <3>2
  <2> HIDE DEF fresh
  <2>11. plan = [t \in Registered \cup {ptr} |-> plan[t]]
    OBVIOUS
  <2>12. Plan' = plan
    <3> HIDE DEF plan
    <3> QED
      BY <2>9, <2>10, <2>11, PlanFrom, ZenonT(40)
  <2>13. ptr \in Registered \/ Cardinality(Registered) < MAX_TASK_QUEUE_SIZE
    BY <2>4, SlotOfRegistered, RegisteredCount, <1>3 DEF Occupied, Registered
  <2>14. S!Fresh(fresh)
    <3>1. dummyTask.repeatPeriod \in Garbage \cup {S!Last(period)}
      BY <1>2 DEF S!Last, LastTick
    <3> QED
      BY <3>1 DEF S!Fresh, fresh
  <2>15. ptr \in DOMAIN Plan' /\ Plan'[ptr] = fresh
    BY <2>12
  <2>16. Plan' = [t \in Registered \cup {ptr} |-> IF t = ptr THEN Plan'[ptr] ELSE Plan[t]]
    BY <2>12, <2>15
  <2>17. S!Register(ptr)
    <3>1. ptr \in S!Registered'
      BY <2>15 DEF S!Registered, Plan
    <3> QED
      BY <2>13, <2>14, <2>15, <2>16, <3>1, SRegistered, SameCardinality DEF S!Register, Plan
  <2> QED
    BY <2>17 DEF S!Next
<1> QED
  BY <1>5, <1>6

(***************************************************************************)
(* A removal forgets the function of one slot: the last one, when the      *)
(* position is past the end.                                               *)
(***************************************************************************)
LEMMA RemovalRefines ==
  ASSUME TableInv, TableInv', NEW position \in Nat, RemoveTaskByPos(position)
  PROVE  S!Next \/ Plan' = Plan
<1> DEFINE last == MAX_TASK_QUEUE_SIZE - 1
           q == IF position > last THEN last ELSE position
           From(i) == IF i >= q THEN i + 1 ELSE i
           gone == kv1TaskList[q].pointer
           plan == [u \in Registered \ {gone} |-> Plan[u]]
<1>1. last \in Slots /\ last \in Int /\ q \in Slots /\ q \in Int
  BY TaskTableAssumption DEF Slots
<1>2. \A i \in Slots : i \in Int /\ 0 <= i /\ i <= last
  BY TaskTableAssumption DEF Slots
<1>3. \A i \in Slots : Occupied(i)' => i # last
  BY RemovalShifts DEF TableInv
<1>4. \A i \in Slots : i # last => From(i) \in Slots /\ From(i) # q
  BY <1>1, SlotSteps
<1>5. \A i \in Slots : i # last => kv1TaskList'[i] = kv1TaskList[From(i)]
  <2>1. \A i \in Slots : i # last =>
          kv1TaskList'[i] = IF i >= position THEN kv1TaskList[i + 1] ELSE kv1TaskList[i]
    BY RemovalShifts DEF TableInv
  <2>2. \A i \in Slots : i # last => (i >= position <=> i >= q)
    BY <1>1, <1>2
  <2> QED
    BY <2>1, <2>2
<1>6. \A j \in Slots : j # q => \E i \in Slots : i # last /\ From(i) = j
  <2> SUFFICES ASSUME NEW j \in Slots, j # q
               PROVE  \E i \in Slots : i # last /\ From(i) = j
    OBVIOUS
  <2>1. CASE j < q
    BY <2>1, <1>1, <1>2
  <2>2. CASE j > q
    <3>1. j - 1 \in Slots /\ j - 1 # last /\ From(j - 1) = j
      BY <2>2, <1>1, <1>2, TaskTableAssumption DEF Slots
    <3> QED
      BY <3>1
  <2> QED
    BY <2>1, <2>2, <1>1, <1>2
<1> HIDE DEF last, q, From
<1>7. \A i \in Slots : i # last => Occupied(i)' = Occupied(From(i)) /\ PlanOf(i)' = PlanOf(From(i))
  BY <1>5 DEF Occupied, PlanOf
<1>8. \A t : t \in Registered \ {gone} <=>
              \E i \in Slots : Occupied(i)' /\ kv1TaskList'[i].pointer = t
  <2>1. ASSUME NEW t \in Registered \ {gone}
        PROVE  \E i \in Slots : Occupied(i)' /\ kv1TaskList'[i].pointer = t
    <3>1. PICK j \in Slots : Occupied(j) /\ kv1TaskList[j].pointer = t /\ j # q
      BY <2>1 DEF Registered
    <3>2. PICK i \in Slots : i # last /\ From(i) = j
      BY <3>1, <1>6
    <3> QED
      BY <3>1, <3>2, <1>5, <1>7
  <2>2. ASSUME NEW i \in Slots, Occupied(i)'
        PROVE  kv1TaskList'[i].pointer \in Registered \ {gone}
    <3>1. i # last /\ From(i) \in Slots /\ From(i) # q /\ Occupied(From(i))
      BY <2>2, <1>3, <1>4, <1>7
    <3>2. kv1TaskList'[i].pointer = kv1TaskList[From(i)].pointer
      BY <3>1, <1>5
    <3> QED
      BY <3>1, <3>2, <1>1, SlotOfRegistered DEF TableInv, NoDuplicateTask
  <2> QED
    BY <2>1, <2>2
<1>9. \A i \in Slots : Occupied(i)' => PlanOf(i)' = plan[kv1TaskList'[i].pointer]
  <2> SUFFICES ASSUME NEW i \in Slots, Occupied(i)'
               PROVE  PlanOf(i)' = plan[kv1TaskList'[i].pointer]
    OBVIOUS
  <2>1. /\ From(i) \in Slots /\ Occupied(From(i))
        /\ PlanOf(i)' = PlanOf(From(i))
        /\ kv1TaskList'[i].pointer = kv1TaskList[From(i)].pointer
    BY <1>3, <1>4, <1>5, <1>7
  <2>2. kv1TaskList'[i].pointer \in Registered \ {gone}
    BY <1>8
  <2> QED
    BY <2>1, <2>2, PlanOfRegistered
<1>10. Plan' = plan
  <2> DEFINE left == Registered \ {gone}
  <2>1. plan = [t \in left |-> plan[t]]
    OBVIOUS
  <2>2. \A t : t \in left <=> \E i \in Slots : Occupied(i)' /\ kv1TaskList'[i].pointer = t
    BY <1>8
  <2> HIDE DEF plan, left, gone
  <2> QED
    BY <1>9, <2>1, <2>2, PlanFrom
<1>11. CASE gone \in Registered
  <2>1. S!Unregister(gone)
    BY <1>10, SRegistered DEF S!Unregister, Plan
  <2>2. gone \in Task
    BY <1>11, SlotOfRegistered
  <2> QED
    BY <2>1, <2>2 DEF S!Next
<1>12. CASE gone \notin Registered
  <2>1. Registered \ {gone} = Registered
    BY <1>12
  <2> QED
    BY <1>10, <2>1, PlanOfRegistered
<1> QED
  BY <1>11, <1>12

LEMMA ClearRefines ==
  ASSUME ClearTaskQueue
  PROVE  S!Next
<1>1. Registered' = {}
  BY DEF ClearTaskQueue, Registered, Occupied, ResetTask, FreeTask
<1>2. S!Clear
  BY <1>1 DEF S!Clear
<1> QED
  BY <1>2 DEF S!Next

(***************************************************************************)
(* Steps that leave the functions where they are change the countdowns in  *)
(* place.                                                                  *)
(***************************************************************************)
LEMMA InPlace ==
  ASSUME TableInv, TableInv', NEW f, f = [t \in Registered |-> f[t]],
         \A i \in Slots : kv1TaskList'[i].pointer = kv1TaskList[i].pointer,
         \A i \in Slots : Occupied(i) => PlanOf(i)' = f[kv1TaskList[i].pointer]
  PROVE  Plan' = f
<1>1. \A i \in Slots : Occupied(i)' = Occupied(i)
  BY DEF Occupied
<1>2. \A t : t \in Registered <=>
              \E i \in Slots : Occupied(i)' /\ kv1TaskList'[i].pointer = t
  BY <1>1 DEF Registered
<1> QED
  BY <1>1, <1>2, PlanFrom

LEMMA SetStateRefines ==
  ASSUME TableInv, TableInv', NEW handle \in Handles, NEW newState \in AppState,
         SetTaskState(handle, newState)
  PROVE  S!Next \/ Plan' = Plan
<1> USE DEF TableInv, TableTypeOK, kv1TaskStruct_t
<1>1. \A i \in Slots : kv1TaskList'[i].pointer = kv1TaskList[i].pointer
  BY DEF SetTaskState
<1>2. CASE handle \in Slots /\ Occupied(handle)
  <2> DEFINE t == kv1TaskList[handle].pointer
             plan == [Plan EXCEPT ![t].state = newState]
  <2>1. t \in Registered /\ t \in Task
    BY <1>2, SlotOfRegistered
  <2>2. \A i \in Slots : Occupied(i) => PlanOf(i)' = plan[kv1TaskList[i].pointer]
    <3> SUFFICES ASSUME NEW i \in Slots, Occupied(i)
                 PROVE  PlanOf(i)' = plan[kv1TaskList[i].pointer]
      OBVIOUS
    <3>1. Plan[kv1TaskList[i].pointer] = PlanOf(i) /\ kv1TaskList[i].pointer \in Registered
      BY PlanOfRegistered, SlotOfRegistered
    <3>2. CASE i = handle
      <4>1. kv1TaskList'[i] = [kv1TaskList[i] EXCEPT !.state = newState]
        BY <3>2 DEF SetTaskState
      <4>2. PlanOf(i)' = [PlanOf(i) EXCEPT !.state = newState]
        BY <4>1 DEF PlanOf
      <4> QED
        BY <3>1, <3>2, <4>2, PlanOfRegistered
    <3>3. CASE i # handle
      <4>1. kv1TaskList'[i] = kv1TaskList[i]
        BY <3>3 DEF SetTaskState
      <4>2. kv1TaskList[i].pointer # t
        BY <1>2, <3>3 DEF NoDuplicateTask
      <4>3. PlanOf(i)' = PlanOf(i)
        BY <4>1 DEF PlanOf
      <4> QED
        BY <3>1, <4>2, <4>3, PlanOfRegistered
    <3> QED
      BY <3>2, <3>3
  <2>3. plan = [u \in Registered |-> plan[u]]
    BY PlanOfRegistered
  <2>4. Plan' = plan
    <3> HIDE DEF plan
    <3> QED
      BY <1>1, <2>2, <2>3, InPlace
  <2>5. S!SetState(t, newState)
    BY <2>1, <2>4, SRegistered DEF S!SetState, Plan
  <2> QED
    BY <2>1, <2>5 DEF S!Next
<1>3. CASE ~(handle \in Slots /\ Occupied(handle))
  <2>1. \A i \in Slots : Occupied(i) => kv1TaskList'[i] = kv1TaskList[i]
    BY <1>3 DEF SetTaskState
  <2>2. \A i \in Slots : Occupied(i) => PlanOf(i)' = Plan[kv1TaskList[i].pointer]
    BY <2>1, PlanOfRegistered DEF PlanOf
  <2> QED
    BY <1>1, <2>2, PlanOfRegistered, InPlace
<1> QED
  BY <1>2, <1>3

LEMMA ServiceRefines ==
  ASSUME TableInv, TableInv', ServiceTable
  PROVE  S!Next
<1> USE DEF TableInv, TableTypeOK, kv1TaskStruct_t
<1> DEFINE plan == [t \in Registered |-> S!Advance(Plan[t])]
<1>1. \A i \in Slots : kv1TaskList'[i] = Serviced(i)
  BY DEF ServiceTable
<1>2. \A i \in Slots : kv1TaskList'[i].pointer = kv1TaskList[i].pointer
  BY <1>1 DEF Serviced
<1>3. \A i \in Slots : Occupied(i) => PlanOf(i)' = S!Advance(PlanOf(i))
  <2> SUFFICES ASSUME NEW i \in Slots, Occupied(i)
               PROVE  PlanOf(i)' = S!Advance(PlanOf(i))
    OBVIOUS
  <2> USE DEF ACTIVE, DONE, S!ACTIVE, S!DONE, PlanOf, S!Advance, S!Expired, Serviced, Waiting, Due
  <2>1. CASE kv1TaskList[i].state # ACTIVE
    BY <1>1, <2>1
  <2>2. CASE kv1TaskList[i].state = ACTIVE /\ kv1TaskList[i].delay # 0
    BY <1>1, <2>2
  <2>3. CASE /\ kv1TaskList[i].state = ACTIVE /\ kv1TaskList[i].delay = 0
             /\ kv1TaskList[i].repeatPeriod = 0
    BY <1>1, <2>3
  <2>4. CASE /\ kv1TaskList[i].state = ACTIVE /\ kv1TaskList[i].delay = 0
             /\ kv1TaskList[i].repeatPeriod # 0
    BY <1>1, <2>4
  <2> QED
    BY <2>1, <2>2, <2>3, <2>4
<1>4. \A i \in Slots : Occupied(i) => PlanOf(i)' = plan[kv1TaskList[i].pointer]
  BY <1>3, PlanOfRegistered, SlotOfRegistered
<1>5. plan = [t \in Registered |-> plan[t]]
  OBVIOUS
<1>6. Plan' = plan
  <2> HIDE DEF plan
  <2> QED
    BY <1>2, <1>4, <1>5, InPlace
<1>7. S!Tick
  BY <1>6, SRegistered DEF S!Tick, Plan
<1> QED
  BY <1>7 DEF S!Next

(***************************************************************************)
(* The task list of kernel.c implements the schedule.                      *)
(***************************************************************************)
THEOREM TableIsSchedule == TableSpec => ImplementsSchedule
<1>1. TableInit => S!Init
  <2> SUFFICES ASSUME TableInit PROVE S!Init
    OBVIOUS
  <2>1. Registered = {}
    BY DEF TableInit, Registered, Occupied, FreeTask
  <2> QED
    BY <2>1 DEF S!Init
<1>2. TableInv /\ TableInv' /\ [TableNext]_tableVars =>
        S!Next \/ UNCHANGED [t \in Registered |-> PlanOf(SlotOf(t))]
  <2> SUFFICES ASSUME TableInv, TableInv', [TableNext]_tableVars
               PROVE  S!Next \/ Plan' = Plan
    BY DEF Plan
  <2>1. ASSUME NEW position \in Nat, RemoveTaskByPos(position)
        PROVE  S!Next \/ Plan' = Plan
    BY <2>1, RemovalRefines
  <2>2. ASSUME UNCHANGED tableVars
        PROVE  S!Next \/ Plan' = Plan
    BY <2>2 DEF tableVars, Plan, PlanOf, SlotOf, Registered, Occupied
  <2>3. ASSUME NEW ptr \in Task, RemoveTaskByPtr(ptr)
        PROVE  S!Next \/ Plan' = Plan
    BY <2>1, <2>2, <2>3, TaskTableAssumption DEF RemoveTaskByPtr
  <2>4. ASSUME NEW handle \in Handles, RemoveTask(handle)
        PROVE  S!Next \/ Plan' = Plan
    BY <2>1, <2>2, <2>4 DEF RemoveTask, Handles, Slots
  <2> QED
    BY <2>1, <2>2, <2>3, <2>4, AddRefines, ClearRefines, SetStateRefines, ServiceRefines
       DEF TableNext, Slots
<1>3. TableInv /\ TableInv' /\ [TableNext]_tableVars =>
        [S!Next]_[t \in Registered |-> PlanOf(SlotOf(t))]
  BY <1>2
<1> QED
  BY <1>1, <1>3, InvAlways, PTL DEF TableSpec, ImplementsSchedule, S!Spec

-----------------------------------------------------------------------------

(***************************************************************************)
(* The list with the memory of TaskTiming: repeated functions are called   *)
(* once in each of their periods.                                          *)
(***************************************************************************)
PointerAt(i) == kv1TaskList[i].pointer

Repeats(i) == Occupied(i) /\ asked[PointerAt(i)].type = KTASK_REPEATED

(***************************************************************************)
(* The countdown of a slot belongs to the period its function was          *)
(* registered with, and so does the value it is reloaded with.             *)
(***************************************************************************)
OnTime(i) ==
  Repeats(i) =>
    /\ age[PointerAt(i)] + kv1TaskList[i].delay + 1 = asked[PointerAt(i)].period
    /\ kv1TaskList[i].repeatPeriod + 1 = asked[PointerAt(i)].period

GoesOn(i) ==
  Repeats(i) /\ kv1TaskList[i].state = DONE => asked[PointerAt(i)].period = 1

MemoryOK ==
  /\ asked \in [Task -> [type : {KTASK_SINGLERUN, KTASK_REPEATED}, period : Nat]]
  /\ age \in [Task -> Nat]

PunctualInv == TableInv /\ MemoryOK /\ \A i \in Slots : OnTime(i)

-----------------------------------------------------------------------------

LEMMA TimingStepsAreTableSteps == [TimingNext]_timingVars => [TableNext]_tableVars
BY DEF TimingNext, Timed, TimedSetState, TimedService, TimedRemoval, TableNext, timingVars

(***************************************************************************)
(* The memory of TaskTiming only records: with it the list is still the    *)
(* task list.                                                              *)
(***************************************************************************)
THEOREM TimingOnlyRecords == TimingSpec => TableSpec
<1>1. TimingInit => TableInit
  BY DEF TimingInit
<1> QED
  BY <1>1, TimingStepsAreTableSteps, PTL DEF TimingSpec, TableSpec

LEMMA PunctualInitially == TimingInit => PunctualInv
<1> SUFFICES ASSUME TimingInit PROVE PunctualInv
  OBVIOUS
<1>1. TableInv
  BY InvInitially DEF TimingInit
<1>2. \A i \in Slots : ~Occupied(i)
  BY DEF TimingInit, TableInit, Occupied, FreeTask
<1>3. MemoryOK
  BY DEF TimingInit, MemoryOK, Nothing
<1> QED
  BY <1>1, <1>2, <1>3 DEF PunctualInv, OnTime, Repeats

(***************************************************************************)
(* A slot, before and after a step, holds a function and its countdown.    *)
(***************************************************************************)
LEMMA OccupiedSlots ==
  ASSUME TableTypeOK, NEW i \in Slots
  PROVE  /\ Occupied(i) => PointerAt(i) \in Task
         /\ kv1TaskList[i].delay \in Nat /\ kv1TaskList[i].repeatPeriod \in Nat
         /\ kv1TaskList[i] \in kv1TaskStruct_t
BY DEF TableTypeOK, kv1TaskStruct_t, Occupied, PointerAt

(***************************************************************************)
(* A registration starts the countdown of one function and touches no      *)
(* other, since no function has two slots.                                 *)
(***************************************************************************)
LEMMA RegistrationKeeps ==
  ASSUME PunctualInv, TableInv', NEW taskType \in {KTASK_SINGLERUN, KTASK_REPEATED},
         NEW ptr \in Task, NEW period \in Period, NEW startupState \in AppState,
         Timed(taskType, ptr, period, startupState)
  PROVE  /\ MemoryOK'
         /\ \A i \in Slots : OnTime(i)'
         /\ DONE \notin AppState /\ (\A i \in Slots : GoesOn(i)) => \A i \in Slots : GoesOn(i)'
<1>1. PICK dummyTask \in NewTask(taskType, ptr, period, startupState) :
        kv1TaskList' = [i \in Slots |->
                          IF i \in SlotFor(ptr) THEN dummyTask ELSE kv1TaskList[i]]
  BY DEF Timed, AddTask
<1>2. /\ dummyTask.pointer = ptr /\ dummyTask.delay = LastTick(period)
      /\ dummyTask.state = startupState
      /\ taskType = KTASK_REPEATED => dummyTask.repeatPeriod = LastTick(period)
  BY DEF NewTask
<1>3. LastTick(period) \in Nat
  BY TaskTableAssumption DEF LastTick
<1>4. CASE SlotFor(ptr) = {}
  <2>1. UNCHANGED <<asked, age>>
    BY <1>4 DEF Timed
  <2>2. \A i \in Slots : kv1TaskList'[i] = kv1TaskList[i]
    BY <1>1, <1>4
  <2> QED
    BY <2>1, <2>2 DEF PunctualInv, MemoryOK, OnTime, GoesOn, Repeats, PointerAt, Occupied
<1>5. CASE SlotFor(ptr) # {}
  <2>1. /\ asked' = [asked EXCEPT ![ptr] = [type |-> taskType,
                                            period |-> LastTick(period) + 1]]
        /\ age' = [age EXCEPT ![ptr] = 0]
    BY <1>5 DEF Timed
  <2>2. MemoryOK'
    BY <1>3, <2>1 DEF PunctualInv, MemoryOK
  <2>3. PICK slot \in Slots : slot \in SlotFor(ptr)
    BY <1>5 DEF SlotFor
  <2>4. kv1TaskList'[slot].pointer = ptr /\ Occupied(slot)'
    BY <1>1, <1>2, <2>3, TaskTableAssumption DEF Occupied
  <2>5. /\ asked'[ptr].type = taskType /\ asked'[ptr].period = LastTick(period) + 1
        /\ age'[ptr] = 0
        /\ \A t \in Task : t # ptr => asked'[t] = asked[t] /\ age'[t] = age[t]
    BY <2>1 DEF PunctualInv, MemoryOK
  <2>6. ASSUME NEW i \in Slots, i \in SlotFor(ptr)
        PROVE  OnTime(i)' /\ (DONE \notin AppState => GoesOn(i)')
    <3>1. kv1TaskList'[i] = dummyTask
      BY <1>1, <2>6
    <3>2. startupState # DONE \/ DONE \in AppState
      OBVIOUS
    <3> QED
      BY <1>2, <1>3, <2>5, <3>1, <3>2 DEF OnTime, GoesOn, Repeats, PointerAt
  <2>7. ASSUME NEW i \in Slots, i \notin SlotFor(ptr)
        PROVE  OnTime(i)' /\ (GoesOn(i) => GoesOn(i)')
    <3>1. kv1TaskList'[i] = kv1TaskList[i]
      BY <1>1, <2>7
    <3>2. Occupied(i)' => kv1TaskList[i].pointer # ptr
      BY <2>3, <2>4, <2>7, <3>1 DEF TableInv, NoDuplicateTask
    <3>3. Occupied(i) => kv1TaskList[i].pointer \in Task
      BY OccupiedSlots DEF PunctualInv, TableInv, PointerAt
    <3>4. Occupied(i)' <=> Occupied(i)
      BY <3>1 DEF Occupied
    <3>5. OnTime(i)
      BY DEF PunctualInv
    <3> QED
      BY <2>5, <3>1, <3>2, <3>3, <3>4, <3>5 DEF OnTime, GoesOn, Repeats, PointerAt
  <2> QED
    BY <2>2, <2>6, <2>7
<1> QED
  BY <1>4, <1>5

(***************************************************************************)
(* A tick moves the countdown of a function and its age together.          *)
(***************************************************************************)
LEMMA ServiceKeeps ==
  ASSUME PunctualInv, TimedService
  PROVE  /\ MemoryOK'
         /\ \A i \in Slots : OnTime(i)' /\ (GoesOn(i) => GoesOn(i)')
<1>1. /\ \A i \in Slots : kv1TaskList'[i] = Serviced(i)
      /\ asked' = asked
  BY DEF TimedService, ServiceTable
<1>2. MemoryOK'
  <2>1. \A t \in Task : age[t] \in Nat
    BY DEF PunctualInv, MemoryOK
  <2>2. age' \in [Task -> Nat]
    BY <2>1 DEF TimedService
  <2> QED
    BY <1>1, <2>2 DEF PunctualInv, MemoryOK
<1>3. ASSUME NEW i \in Slots PROVE OnTime(i)' /\ (GoesOn(i) => GoesOn(i)')
  <2>1. /\ Occupied(i) => PointerAt(i) \in Task
        /\ kv1TaskList[i].delay \in Nat /\ kv1TaskList[i].repeatPeriod \in Nat
        /\ kv1TaskList[i] \in kv1TaskStruct_t
    BY OccupiedSlots DEF PunctualInv, TableInv
  <2>2. PointerAt(i)' = PointerAt(i) /\ (Occupied(i)' <=> Occupied(i))
    BY <1>1, <2>1 DEF Serviced, PointerAt, Occupied, kv1TaskStruct_t
  <2>3. CASE ~Occupied(i)
    BY <2>2, <2>3 DEF OnTime, GoesOn, Repeats
  <2>4. CASE Occupied(i)
    <3>1. PICK t \in Task : t = PointerAt(i)
      BY <2>1, <2>4
    <3>2. \A j \in Slots : kv1TaskList[j].pointer = t => j = i
      BY <2>4, <3>1 DEF PunctualInv, TableInv, NoDuplicateTask, PointerAt
    <3>3. /\ HeldIn(t, {j \in Slots : Due(j)}) <=> Due(i)
          /\ HeldIn(t, {j \in Slots : Waiting(j)}) <=> Waiting(i)
      BY <3>1, <3>2 DEF HeldIn, PointerAt
    <3>4. age'[t] = IF Due(i) THEN 0 ELSE IF Waiting(i) THEN age[t] + 1 ELSE age[t]
      BY <3>3 DEF TimedService
    <3>5. age[t] \in Nat /\ asked[t].period \in Nat
      BY DEF PunctualInv, MemoryOK
    <3>6. OnTime(i)
      BY DEF PunctualInv
    <3>7. CASE Waiting(i)
      <4>1. /\ kv1TaskList'[i].delay = kv1TaskList[i].delay - 1
            /\ kv1TaskList'[i].repeatPeriod = kv1TaskList[i].repeatPeriod
            /\ kv1TaskList'[i].state = kv1TaskList[i].state
        BY <1>1, <2>1, <3>7 DEF Serviced, kv1TaskStruct_t
      <4>2. age'[t] = age[t] + 1
        BY <3>4, <3>7 DEF Waiting, Due
      <4> QED
        BY <1>1, <2>1, <2>2, <3>1, <3>5, <3>6, <4>1, <4>2 DEF OnTime, GoesOn, Repeats
    <3>8. CASE Due(i) /\ kv1TaskList[i].repeatPeriod = 0
      <4>1. /\ kv1TaskList'[i].delay = 0 /\ kv1TaskList[i].delay = 0
            /\ kv1TaskList'[i].repeatPeriod = 0
        BY <1>1, <2>1, <3>8 DEF Serviced, Waiting, Due, kv1TaskStruct_t
      <4>2. age'[t] = 0
        BY <3>4, <3>8
      <4> QED
        BY <1>1, <2>1, <2>2, <3>1, <3>5, <3>6, <3>8, <4>1, <4>2 DEF OnTime, GoesOn, Repeats
    <3>9. CASE Due(i) /\ kv1TaskList[i].repeatPeriod # 0
      <4>1. /\ kv1TaskList'[i].delay = kv1TaskList[i].repeatPeriod /\ kv1TaskList[i].delay = 0
            /\ kv1TaskList'[i].repeatPeriod = kv1TaskList[i].repeatPeriod
            /\ kv1TaskList'[i].state = kv1TaskList[i].state
        BY <1>1, <2>1, <3>9 DEF Serviced, Waiting, Due, kv1TaskStruct_t
      <4>2. age'[t] = 0
        BY <3>4, <3>9
      <4> QED
        BY <1>1, <2>1, <2>2, <3>1, <3>5, <3>6, <4>1, <4>2 DEF OnTime, GoesOn, Repeats
    <3>10. CASE ~Due(i) /\ ~Waiting(i)
      <4>1. kv1TaskList'[i] = kv1TaskList[i] /\ age'[t] = age[t]
        BY <1>1, <3>4, <3>10 DEF Serviced
      <4> QED
        BY <1>1, <2>2, <3>1, <3>6, <4>1 DEF OnTime, GoesOn, Repeats
    <3> QED
      BY <3>7, <3>8, <3>9, <3>10
  <2> QED
    BY <2>3, <2>4
<1> QED
  BY <1>2, <1>3

LEMMA SetStateKeeps ==
  ASSUME PunctualInv, NEW handle \in Handles, NEW newState \in AppState,
         TimedSetState(handle, newState)
  PROVE  /\ MemoryOK'
         /\ \A i \in Slots : OnTime(i)' /\ (DONE \notin AppState /\ GoesOn(i) => GoesOn(i)')
<1>1. UNCHANGED <<asked, age>>
  BY DEF TimedSetState
<1>2. ASSUME NEW i \in Slots
      PROVE  /\ kv1TaskList'[i].pointer = kv1TaskList[i].pointer
             /\ kv1TaskList'[i].delay = kv1TaskList[i].delay
             /\ kv1TaskList'[i].repeatPeriod = kv1TaskList[i].repeatPeriod
             /\ kv1TaskList'[i].state \in {kv1TaskList[i].state, newState}
  <2>1. kv1TaskList[i] \in kv1TaskStruct_t
    BY OccupiedSlots DEF PunctualInv, TableInv
  <2> QED
    BY <2>1 DEF TimedSetState, SetTaskState, kv1TaskStruct_t
<1> QED
  BY <1>1, <1>2 DEF PunctualInv, MemoryOK, OnTime, GoesOn, Repeats, PointerAt, Occupied

(***************************************************************************)
(* After a removal each occupied slot holds what one of them held before.  *)
(***************************************************************************)
LEMMA RemovalMoves ==
  ASSUME TableInv, TimedRemoval, NEW i \in Slots, Occupied(i)'
  PROVE  \E j \in Slots : kv1TaskList'[i] = kv1TaskList[j]
<1>1. ASSUME NEW position \in Nat, RemoveTaskByPos(position)
      PROVE  \E j \in Slots : kv1TaskList'[i] = kv1TaskList[j]
  BY <1>1, RemovalShifts, SlotSteps DEF TableInv
<1>2. ASSUME UNCHANGED tableVars
      PROVE  \E j \in Slots : kv1TaskList'[i] = kv1TaskList[j]
  BY <1>2 DEF tableVars
<1>3. ASSUME NEW ptr \in Task, RemoveTaskByPtr(ptr)
      PROVE  \E j \in Slots : kv1TaskList'[i] = kv1TaskList[j]
  BY <1>1, <1>2, <1>3, TaskTableAssumption DEF RemoveTaskByPtr
<1>4. ASSUME NEW handle \in Handles, RemoveTask(handle)
      PROVE  \E j \in Slots : kv1TaskList'[i] = kv1TaskList[j]
  BY <1>1, <1>2, <1>4 DEF RemoveTask, Handles, Slots
<1>5. ~ClearTaskQueue
  BY DEF ClearTaskQueue, Occupied, ResetTask, FreeTask
<1> QED
  BY <1>1, <1>3, <1>4, <1>5 DEF TimedRemoval, Slots

LEMMA RemovalKeeps ==
  ASSUME PunctualInv, TimedRemoval
  PROVE  /\ MemoryOK'
         /\ (\A i \in Slots : OnTime(i)')
         /\ (\A i \in Slots : GoesOn(i)) => \A i \in Slots : GoesOn(i)'
<1>1. MemoryOK'
  BY DEF PunctualInv, MemoryOK, TimedRemoval, Nothing
<1>2. ASSUME NEW i \in Slots, Occupied(i)'
      PROVE  \E j \in Slots : (OnTime(j) => OnTime(i)') /\ (GoesOn(j) => GoesOn(i)')
  <2>1. PICK j \in Slots : kv1TaskList'[i] = kv1TaskList[j]
    BY <1>2, RemovalMoves DEF PunctualInv
  <2>2. Occupied(j) /\ PointerAt(i)' = PointerAt(j)
    BY <1>2, <2>1 DEF Occupied, PointerAt
  <2>3. PointerAt(j) \in Task
    BY <2>2, OccupiedSlots DEF PunctualInv, TableInv
  <2>4. PointerAt(j) \in Registered'
    BY <1>2, <2>2 DEF Registered, PointerAt
  <2>5. asked'[PointerAt(j)] = asked[PointerAt(j)] /\ age'[PointerAt(j)] = age[PointerAt(j)]
    BY <2>3, <2>4 DEF TimedRemoval
  <2> QED
    BY <2>1, <2>2, <2>5 DEF OnTime, GoesOn, Repeats
<1>3. ASSUME NEW i \in Slots, ~Occupied(i)'
      PROVE  OnTime(i)' /\ GoesOn(i)'
  BY <1>3 DEF OnTime, GoesOn, Repeats
<1> QED
  BY <1>1, <1>2, <1>3 DEF PunctualInv

LEMMA SlotsKeep ==
  ASSUME PunctualInv, [TimingNext]_timingVars
  PROVE  /\ PunctualInv'
         /\ DONE \notin AppState /\ (\A i \in Slots : GoesOn(i)) => \A i \in Slots : GoesOn(i)'
<1>1. TableInv'
  BY TimingStepsAreTableSteps, InvInductive DEF PunctualInv
<1>2. CASE UNCHANGED timingVars
  <2>1. UNCHANGED <<kv1TaskList, asked, age>>
    BY <1>2 DEF timingVars, tableVars
  <2> QED
    BY <1>1, <2>1 DEF PunctualInv, MemoryOK, OnTime, GoesOn, Repeats, PointerAt, Occupied
<1> QED
  BY <1>1, <1>2, RegistrationKeeps, ServiceKeeps, SetStateKeeps, RemovalKeeps
     DEF TimingNext, PunctualInv

LEMMA PunctualAlways == TimingSpec => []PunctualInv
<1>1. PunctualInv /\ [TimingNext]_timingVars => PunctualInv'
  BY SlotsKeep
<1> QED
  BY <1>1, PunctualInitially, PTL DEF TimingSpec

(***************************************************************************)
(* A repeated function is called exactly once in each of its periods of    *)
(* active ticks, whatever is registered, removed and suspended meanwhile.  *)
(***************************************************************************)
THEOREM RepeatedCalledEveryPeriod == TimingSpec => []CalledEveryPeriod
<1>1. PunctualInv => CalledEveryPeriod
  BY DEF PunctualInv, OnTime, Repeats, PointerAt, CalledEveryPeriod
<1> QED
  BY <1>1, PunctualAlways, PTL

(***************************************************************************)
(* Unless the application itself gives its tasks the state that marks a    *)
(* task as done, only a function of period 1 stops after its first call.   *)
(***************************************************************************)
THEOREM RepeatedFunctionsGoOn ==
  ASSUME DONE \notin AppState
  PROVE  TimingSpec => []RepeatedGoesOn
<1> DEFINE GoesOnInv == PunctualInv /\ \A i \in Slots : GoesOn(i)
<1>1. TimingInit => GoesOnInv
  <2>1. TimingInit => \A i \in Slots : ~Occupied(i)
    BY DEF TimingInit, TableInit, Occupied, FreeTask
  <2> QED
    BY <2>1, PunctualInitially DEF GoesOn, Repeats
<1>2. GoesOnInv /\ [TimingNext]_timingVars => GoesOnInv'
  BY SlotsKeep
<1>3. GoesOnInv => RepeatedGoesOn
  BY DEF GoesOn, Repeats, PointerAt, RepeatedGoesOn
<1> HIDE DEF GoesOnInv
<1> QED
  BY <1>1, <1>2, <1>3, PTL DEF TimingSpec
=============================================================================
