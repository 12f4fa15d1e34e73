------------------------------- MODULE Kernel -------------------------------
(***************************************************************************)
(* The kernel as main.c runs it: the main loop calls kernelv1_taskManager  *)
(* for ever, the timer interrupt runs kernelv1_taskService on top of it,   *)
(* and the tasks, called from the main loop, use the API.                  *)
(*                                                                         *)
(* An interrupt is one action: it is not interrupted, and the API disables *)
(* interrupts.  kernelv1_taskManager does not, so an interrupt may come    *)
(* between any two of its steps, each of which reads the queue anew.       *)
(***************************************************************************)
EXTENDS TaskTable, CallQueue

CONSTANT Extern         \* structures outside the list that interrupts request calls on

VARIABLES
  pc,                   \* where the main program is
  current               \* the function the main loop is in, NULL when in none

vars == <<tableVars, queueVars, pc, current>>

ASSUME KernelAssumption ==
  /\ Ref = Slots \cup Extern \cup {NULL}
  /\ BurstLimit = MAX_TASK_QUEUE_SIZE
  /\ Extern \cap (Slots \cup Task \cup {kv1Idle, NULL}) = {}

-----------------------------------------------------------------------------

(***************************************************************************)
(* The function and the state behind a kv1Call_t.  The function of a       *)
(* structure of Extern is named by the structure; that structure and       *)
(* kv1IdleTask are static and keep state 0.  There is none behind a null   *)
(* call.                                                                   *)
(***************************************************************************)
CodeOf(call) ==
  IF call \in Slots THEN kv1TaskList[call].pointer
  ELSE IF call \in Extern THEN call
  ELSE IF call = kv1IdleTask THEN kv1Idle ELSE NULL

StatesOf(call) ==
  IF call \in Slots THEN {kv1TaskList[call].state}
  ELSE IF call \in Extern \cup {kv1IdleTask} THEN {0} ELSE 0 .. 255

KernelInit ==
  /\ TableInit
  /\ QueueInit
  /\ pc = "boot"
  /\ current = NULL

(***************************************************************************)
(* kernelv1_init clears both arrays and starts the timer.                  *)
(***************************************************************************)
Boot ==
  /\ pc = "boot"
  /\ pc' = "setup"
  /\ ClearCallQueue
  /\ ClearTaskQueue
  /\ UNCHANGED current

(***************************************************************************)
(* main has registered its tasks and enters its loop.                      *)
(***************************************************************************)
EnterLoop ==
  /\ pc = "setup"
  /\ pc' = "poll"
  /\ UNCHANGED <<tableVars, queueVars, current>>

(***************************************************************************)
(* kernelv1_taskManager, step by step: the index is tested, entry 0 is     *)
(* called, entry 0 is read again for the state that asks for removal, the  *)
(* task there is removed, and the queue loses its first call.  Nothing     *)
(* tests entry 0 for null: what is found through a null call are the       *)
(* processor's registers, and where that jump leads is not the kernel's to *)
(* say; the state found there may be any.                                  *)
(***************************************************************************)
Poll ==
  /\ pc = "poll"
  /\ kv1CallIndex # 0
  /\ pc' = "call"
  /\ UNCHANGED <<tableVars, queueVars, current>>

Call ==
  /\ pc = "call"
  /\ pc' = IF CodeOf(kv1CallQueue[0]) = NULL THEN "lost" ELSE "run"
  /\ current' = CodeOf(kv1CallQueue[0])
  /\ UNCHANGED <<tableVars, queueVars>>

Return ==
  /\ pc = "run"
  /\ pc' = "check"
  /\ current' = NULL
  /\ UNCHANGED <<tableVars, queueVars>>

Check ==
  /\ pc = "check"
  /\ \E state \in StatesOf(kv1CallQueue[0]) : pc' = IF state = REAP THEN "reap" ELSE "drop"
  /\ UNCHANGED <<tableVars, queueVars, current>>

Reap ==
  /\ pc = "reap"
  /\ pc' = "drop"
  /\ RemoveTask(kv1CallQueue[0])
  /\ UNCHANGED <<queueVars, current>>

Drop ==
  /\ pc = "drop"
  /\ pc' = "poll"
  /\ RemoveCall
  /\ UNCHANGED <<tableVars, current>>

MainStep == Boot \/ EnterLoop \/ Poll \/ Call \/ Return \/ Check \/ Reap \/ Drop

(***************************************************************************)
(* The timer interrupt: the due tasks are called in the order of their     *)
(* slots.                                                                  *)
(***************************************************************************)
DueSlots == {i \in Slots : Due(i)}

DueCalls ==
  {calls \in [1 .. Cardinality(DueSlots) -> DueSlots] :
     \A a, b \in DOMAIN calls : a < b => calls[a] < calls[b]}

Tick ==
  /\ pc # "boot"
  /\ ServiceTable
  /\ \E calls \in DueCalls : AddCalls(calls)
  /\ UNCHANGED <<pc, current>>

(***************************************************************************)
(* Another interrupt requests a call on a structure of its own.  main      *)
(* enables interrupts before it calls kernelv1_init.                       *)
(***************************************************************************)
IsrAddCall ==
  /\ \E t_ptr \in Extern : AddCall(t_ptr)
  /\ UNCHANGED <<tableVars, pc, current>>

Interrupt == Tick \/ IsrAddCall

(***************************************************************************)
(* What main, before its loop, and a running task may ask of the API, for  *)
(* any task: a handle may belong to another one, may be stale, and is null *)
(* when addTask found no slot.                                             *)
(***************************************************************************)
InApp == pc = "setup" \/ (pc = "run" /\ current \in Task)

AppRegister ==
  /\ InApp
  /\ \E taskType \in {KTASK_SINGLERUN, KTASK_REPEATED}, ptr \in Task,
        period \in Period, startupState \in AppState :
       AddTask(taskType, ptr, period, startupState)
  /\ UNCHANGED <<queueVars, pc, current>>

AppSetState ==
  /\ InApp
  /\ \E handle \in Handles, newState \in AppState : SetTaskState(handle, newState)
  /\ UNCHANGED <<queueVars, pc, current>>

AppAddCall ==
  /\ InApp
  /\ \E t_ptr \in Handles : AddCall(t_ptr)
  /\ UNCHANGED <<tableVars, pc, current>>

AppRemoveAt(position) ==
  /\ InApp
  /\ \/ RemoveTaskByPos(position)
     \/ RemoveTask(position)
  /\ UNCHANGED <<queueVars, pc, current>>

AppRemoveByPtr(ptr) ==
  /\ InApp
  /\ RemoveTaskByPtr(ptr)
  /\ UNCHANGED <<queueVars, pc, current>>

AppClearTasks ==
  /\ InApp
  /\ ClearTaskQueue
  /\ UNCHANGED <<queueVars, pc, current>>

AppCut ==
  /\ InApp
  /\ RemoveCall \/ ClearCallQueue
  /\ UNCHANGED <<tableVars, pc, current>>

KernelNext ==
  \/ MainStep
  \/ Interrupt
  \/ AppRegister
  \/ AppSetState
  \/ AppAddCall
  \/ \E position \in Slots : AppRemoveAt(position)
  \/ \E ptr \in Task : AppRemoveByPtr(ptr)
  \/ AppClearTasks
  \/ AppCut

KernelSpec == KernelInit /\ [][KernelNext]_vars

-----------------------------------------------------------------------------

(***************************************************************************)
(* Both arrays and the program counter have their types.                   *)
(***************************************************************************)
KernelTypeOK ==
  /\ TableTypeOK
  /\ QueueTypeOK
  /\ pc \in {"boot", "setup", "poll", "call", "run", "check", "reap", "drop", "lost"}
  /\ current \in Task \cup Extern \cup {kv1Idle, NULL}

(***************************************************************************)
(* A write past the end of kv1TaskList may change any other variable: what *)
(* follows is promised as long as there was none.                          *)
(*                                                                         *)
(* The main loop jumps through a null pointer only for a call that was     *)
(* itself requested on a null handle (kernel.c:71 does not look at it, and *)
(* kernel.c:96 returns one when the list is full).  A call on a slot or a  *)
(* structure leads to a function, whatever tasks removed or cleared while  *)
(* it was pending (kernel.c:229).                                          *)
(***************************************************************************)
NullOnlyIfRequested ==
  pc = "call" /\ ~stray =>
    /\ kv1CallIndex # 0
    /\ kv1CallQueue[0] # NULL => CodeOf(kv1CallQueue[0]) # NULL

(***************************************************************************)
(* The main loop only removes a slot of the list as a task: the structure  *)
(* it asks removeTask for (kernel.c:230) is in kv1TaskList and still asks  *)
(* to be removed, whatever interrupts came since the state was read, or it *)
(* is null, which removeTask turns away.                                   *)
(***************************************************************************)
ReapsATask ==
  pc = "reap" /\ ~stray =>
    \/ kv1CallQueue[0] = NULL
    \/ kv1CallQueue[0] \in Slots /\ kv1TaskList[kv1CallQueue[0]].state = REAP
=============================================================================
