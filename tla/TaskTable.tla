----------------------------- MODULE TaskTable -----------------------------
(***************************************************************************)
(* The task list of the kernel (src/kernel-v1/kernel.c): a fixed array of  *)
(* task structures, searched and compacted by the application through the  *)
(* API and counted down by the timer interrupt.  Every API function runs   *)
(* with interrupts disabled, so each is one action.                        *)
(*                                                                         *)
(* A task structure is a record; its priority is left out (addTask never   *)
(* writes it and nothing reads it).  Slots are numbered from 0, as in C,   *)
(* and a task handle, which is the address of a slot, is its number.       *)
(***************************************************************************)
EXTENDS Integers, FiniteSets

CONSTANTS
  Task,                 \* functions the application registers
  kv1Idle,              \* the function of a free slot
  NULL,
  MAX_TASK_QUEUE_SIZE,  \* slots of the list (10 in kernel_config.h)
  Period,               \* periods the application passes to addTask
  AppState,             \* states the application gives to its tasks
  Garbage,              \* what the unwritten repeatPeriod of a stack struct may hold
  UINT8                 \* kv1TaskIndex counts modulo UINT8 (256 in the code)

VARIABLES
  kv1TaskList,          \* slot -> task structure
  kv1TaskIndex,
  stray                 \* a structure past the end of kv1TaskList was written

tableVars == <<kv1TaskList, kv1TaskIndex, stray>>

SUSPENDED == 0          \* KSTATE_SUSPENDED
ACTIVE    == 1          \* KSTATE_ACTIVE
REAP      == 254        \* asks the main loop to remove the task
DONE      == 255        \* a task whose last call was requested

KTASK_SINGLERUN == 0
KTASK_REPEATED  == 1

Slots   == 0 .. MAX_TASK_QUEUE_SIZE - 1
Handles == Slots \cup {NULL}

ASSUME TaskTableAssumption ==
  /\ MAX_TASK_QUEUE_SIZE \in Nat \ {0}
  /\ UINT8 \in Nat \ {0}
  /\ Period \subseteq Nat
  /\ Garbage \subseteq Nat
  /\ AppState \subseteq 0 .. 255
  /\ kv1Idle # NULL
  /\ kv1Idle \notin Task
  /\ NULL \notin Task
  /\ NULL \notin Slots

kv1TaskStruct_t ==
  [pointer : Task \cup {kv1Idle, NULL}, delay : Nat, repeatPeriod : Nat, state : 0 .. 255]

-----------------------------------------------------------------------------

FreeTask(pointer, state) ==
  [pointer |-> pointer, delay |-> 0, repeatPeriod |-> 0, state |-> state]

(***************************************************************************)
(* A slip: the reset leaves a null function.                               *)
(***************************************************************************)
ResetToNull == FreeTask(NULL, ACTIVE)

(***************************************************************************)
(* What kernelv1_resetTaskByPosition leaves in a slot.                     *)
(***************************************************************************)
ResetTask == FreeTask(kv1Idle, ACTIVE)

Occupied(i) == kv1TaskList[i].pointer \notin {kv1Idle, NULL}

Registered == {kv1TaskList[i].pointer : i \in {j \in Slots : Occupied(j)}}

(***************************************************************************)
(* Slips of the search: a function already there is not looked for, or the *)
(* slot of a task that is done is taken for a free one.                    *)
(***************************************************************************)
AcceptsFreeOnly(i, ptr) == kv1TaskList[i].pointer \in {kv1Idle, NULL}

AcceptsDone(i, ptr) ==
  kv1TaskList[i].pointer \in {ptr, kv1Idle, NULL} \/ kv1TaskList[i].state = DONE

(***************************************************************************)
(* addTask takes the first slot that holds the function or is free.        *)
(***************************************************************************)
Accepts(i, ptr) == kv1TaskList[i].pointer \in {ptr, kv1Idle, NULL}

SlotFor(ptr) == {i \in Slots : Accepts(i, ptr) /\ \A j \in 0 .. i - 1 : ~Accepts(j, ptr)}

(***************************************************************************)
(* A period of 0 is served as a period of 1.                               *)
(***************************************************************************)
LastTick(period) == IF period = 0 THEN 0 ELSE period - 1

(***************************************************************************)
(* A slip: the first call comes one tick late.                             *)
(***************************************************************************)
NewTaskLate(taskType, ptr, period, startupState) ==
  [pointer : {ptr},
   delay : {period},
   repeatPeriod : IF taskType = KTASK_REPEATED THEN {LastTick(period)} ELSE Garbage,
   state : {startupState}]

(***************************************************************************)
(* The structures addTask may build: a task that is not KTASK_REPEATED     *)
(* gets whatever the stack holds as its repeatPeriod.                      *)
(***************************************************************************)
NewTask(taskType, ptr, period, startupState) ==
  [pointer : {ptr},
   delay : {LastTick(period)},
   repeatPeriod : IF taskType = KTASK_REPEATED THEN {LastTick(period)} ELSE Garbage,
   state : {startupState}]

-----------------------------------------------------------------------------

(***************************************************************************)
(* The zeroed .bss section, before kernelv1_init.                          *)
(***************************************************************************)
TableInit ==
  /\ kv1TaskList = [i \in Slots |-> FreeTask(NULL, 0)]
  /\ kv1TaskIndex = 0
  /\ stray = FALSE

AddTask(taskType, ptr, period, startupState) ==
  /\ \E dummyTask \in NewTask(taskType, ptr, period, startupState) :
       kv1TaskList' = [i \in Slots |->
                         IF i \in SlotFor(ptr) THEN dummyTask ELSE kv1TaskList[i]]
  /\ UNCHANGED <<kv1TaskIndex, stray>>

(***************************************************************************)
(* Slips of the removal: the slot is reset and nothing moves, or the loop  *)
(* that moves the slots ends one too early.                                *)
(***************************************************************************)
RemoveLeavesHole(position) ==
  /\ kv1TaskIndex' = (kv1TaskIndex - 1) % UINT8
  /\ stray' = (stray \/ position \notin Slots)
  /\ kv1TaskList' = [i \in Slots |-> IF i = position THEN ResetTask ELSE kv1TaskList[i]]

RemoveShiftsShort(position) ==
  /\ kv1TaskIndex' = (kv1TaskIndex - 1) % UINT8
  /\ stray' = (stray \/ position \notin Slots)
  /\ kv1TaskList' = [i \in Slots |->
                       IF i = MAX_TASK_QUEUE_SIZE - 1 THEN ResetTask
                       ELSE IF i >= position /\ i < MAX_TASK_QUEUE_SIZE - 2
                         THEN kv1TaskList[i + 1]
                       ELSE kv1TaskList[i]]

(***************************************************************************)
(* The slots after the position move down by one and the last one is       *)
(* reset.  A position past the end resets memory that is not the list's    *)
(* and moves nothing.                                                      *)
(***************************************************************************)
RemoveTaskByPos(position) ==
  /\ kv1TaskIndex' = (kv1TaskIndex - 1) % UINT8
  /\ stray' = (stray \/ position \notin Slots)
  /\ kv1TaskList' = [i \in Slots |->
                       IF i = MAX_TASK_QUEUE_SIZE - 1 THEN ResetTask
                       ELSE IF i >= position THEN kv1TaskList[i + 1]
                       ELSE kv1TaskList[i]]

(***************************************************************************)
(* The search ends at MAX_TASK_QUEUE_SIZE when the function is not there;  *)
(* the test that follows lets that value through and turns the last slot   *)
(* away.                                                                   *)
(***************************************************************************)
PositionOf(ptr, position) ==
  /\ \A j \in 0 .. position - 1 : kv1TaskList[j].pointer # ptr
  /\ position \in Slots => kv1TaskList[position].pointer = ptr

RemoveTaskByPtr(ptr) ==
  \E position \in 0 .. MAX_TASK_QUEUE_SIZE :
    /\ PositionOf(ptr, position)
    /\ IF position # MAX_TASK_QUEUE_SIZE - 1
         THEN RemoveTaskByPos(position)
         ELSE UNCHANGED tableVars

RemoveTask(handle) ==
  IF handle # NULL THEN RemoveTaskByPos(handle) ELSE UNCHANGED tableVars

ClearTaskQueue ==
  /\ kv1TaskList' = [i \in Slots |-> ResetTask]
  /\ kv1TaskIndex' = 0
  /\ UNCHANGED stray

SetTaskState(handle, newState) ==
  /\ kv1TaskList' = [i \in Slots |->
                       IF i = handle THEN [kv1TaskList[i] EXCEPT !.state = newState]
                                     ELSE kv1TaskList[i]]
  /\ UNCHANGED <<kv1TaskIndex, stray>>

(***************************************************************************)
(* Slips of the countdown: it goes on below zero, or it ignores the state. *)
(***************************************************************************)
WaitingAlways(i) == Occupied(i) /\ kv1TaskList[i].state = ACTIVE

DueInAnyState(i) == Occupied(i) /\ kv1TaskList[i].delay = 0

(***************************************************************************)
(* One pass of kernelv1_taskService over the list: a due task is called    *)
(* and, unless its repeatPeriod is 0, starts to count again.               *)
(***************************************************************************)
Due(i) == Occupied(i) /\ kv1TaskList[i].state = ACTIVE /\ kv1TaskList[i].delay = 0

Waiting(i) == Occupied(i) /\ kv1TaskList[i].state = ACTIVE /\ kv1TaskList[i].delay # 0

(***************************************************************************)
(* A slip of the reload: the shortest period is taken for a single run.    *)
(***************************************************************************)
ServicedEndsEarly(i) ==
  IF Waiting(i) THEN [kv1TaskList[i] EXCEPT !.delay = @ - 1]
  ELSE IF Due(i)
    THEN IF kv1TaskList[i].repeatPeriod <= 1
           THEN [kv1TaskList[i] EXCEPT !.state = DONE]
           ELSE [kv1TaskList[i] EXCEPT !.delay = kv1TaskList[i].repeatPeriod]
    ELSE kv1TaskList[i]

Serviced(i) ==
  IF Waiting(i) THEN [kv1TaskList[i] EXCEPT !.delay = @ - 1]
  ELSE IF Due(i)
    THEN IF kv1TaskList[i].repeatPeriod = 0
           THEN [kv1TaskList[i] EXCEPT !.state = DONE]
           ELSE [kv1TaskList[i] EXCEPT !.delay = kv1TaskList[i].repeatPeriod]
    ELSE kv1TaskList[i]

ServiceTable ==
  /\ kv1TaskList' = [i \in Slots |-> Serviced(i)]
  /\ UNCHANGED <<kv1TaskIndex, stray>>

TableNext ==
  \/ \E taskType \in {KTASK_SINGLERUN, KTASK_REPEATED}, ptr \in Task,
        period \in Period, startupState \in AppState :
       AddTask(taskType, ptr, period, startupState)
  \/ \E position \in Slots : RemoveTaskByPos(position)
  \/ \E ptr \in Task : RemoveTaskByPtr(ptr)
  \/ \E handle \in Handles : RemoveTask(handle)
  \/ ClearTaskQueue
  \/ \E handle \in Handles, newState \in AppState : SetTaskState(handle, newState)
  \/ ServiceTable

TableSpec == TableInit /\ [][TableNext]_tableVars

-----------------------------------------------------------------------------

(***************************************************************************)
(* Every slot holds a task structure.                                      *)
(***************************************************************************)
TableTypeOK ==
  /\ kv1TaskList \in [Slots -> kv1TaskStruct_t]
  /\ kv1TaskIndex \in 0 .. UINT8 - 1
  /\ stray \in BOOLEAN

(***************************************************************************)
(* The list has no holes: whatever order of registrations and removals     *)
(* came before, a free slot is followed by free slots only.  The shift of  *)
(* removeTaskByPos is there for this, and the first-match search of        *)
(* addTask relies on it.                                                   *)
(***************************************************************************)
CompactTable == \A i, j \in Slots : i < j /\ Occupied(j) => Occupied(i)

(***************************************************************************)
(* No function is registered in two slots, so none is called twice when it *)
(* is due once: registering a function again after other functions were    *)
(* removed finds its old slot before it finds a free one.                  *)
(***************************************************************************)
NoDuplicateTask ==
  \A i, j \in Slots : Occupied(i) /\ kv1TaskList[i].pointer = kv1TaskList[j].pointer => i = j

(***************************************************************************)
(* The list implements the schedule the application sees: each registered  *)
(* function keeps its own countdown wherever removals move its slot.       *)
(***************************************************************************)
SlotOf(t) == CHOOSE i \in Slots : kv1TaskList[i].pointer = t

PlanOf(i) ==
  [left |-> kv1TaskList[i].delay, every |-> kv1TaskList[i].repeatPeriod,
   state |-> kv1TaskList[i].state]

S == INSTANCE Schedule WITH
       Capacity <- MAX_TASK_QUEUE_SIZE,
       plan     <- [t \in Registered |-> PlanOf(SlotOf(t))]

ImplementsSchedule == S!Spec
=============================================================================
