--------------------------- MODULE KernelHistory ---------------------------
(***************************************************************************)
(* The kernel with a memory of what was asked of it: for each pending call *)
(* the function it was requested for, and whether the list has moved under *)
(* it since.  The added variables only record; they hold nothing the code  *)
(* has.                                                                    *)
(***************************************************************************)
EXTENDS Kernel

VARIABLES
  calls,   \* one record per pending call, in order
  ran,     \* the call and the function the main loop called last
  cut      \* the queue was cut by the task that is being served

historyVars == <<calls, ran, cut>>

allVars == <<vars, historyVars>>

(***************************************************************************)
(* A call is requested for the function now in its structure; a free slot  *)
(* promises no function.                                                   *)
(***************************************************************************)
Request(call) ==
  [task |-> CodeOf(call), moved |-> call \in Slots /\ ~Occupied(call)]

NoteRequests ==
  /\ calls' = [k \in 1 .. kv1CallIndex' |->
                 IF k <= kv1CallIndex THEN calls[k] ELSE Request(kv1CallQueue'[k - 1])]
  /\ UNCHANGED <<ran, cut>>

(***************************************************************************)
(* The task at a position was removed: it and the ones above it move.      *)
(***************************************************************************)
MovedFrom(position) ==
  [k \in DOMAIN calls |->
     IF kv1CallQueue[k - 1] \in position .. MAX_TASK_QUEUE_SIZE - 1
       THEN [calls[k] EXCEPT !.moved = TRUE] ELSE calls[k]]

NoteRemoval(position) ==
  /\ calls' = MovedFrom(position)
  /\ UNCHANGED <<ran, cut>>

HistoryInit ==
  /\ KernelInit
  /\ calls = <<>>
  /\ ran = [call |-> NULL, task |-> NULL]
  /\ cut = FALSE

HistoryMain ==
  \/ /\ EnterLoop \/ Poll \/ Return \/ Check
     /\ UNCHANGED historyVars
  \/ /\ Boot
     /\ calls' = <<>>
     /\ UNCHANGED <<ran, cut>>
  \/ /\ Call
     /\ ran' = [call |-> kv1CallQueue[0], task |-> current']
     /\ cut' = FALSE
     /\ UNCHANGED calls
  \/ /\ Reap
     /\ IF kv1CallQueue[0] = NULL THEN UNCHANGED historyVars
                                   ELSE NoteRemoval(kv1CallQueue[0])
  \/ /\ Drop
     /\ calls' = IF kv1CallIndex' = 0 THEN <<>> ELSE Tail(calls)
     /\ ran' = [call |-> NULL, task |-> NULL]
     /\ cut' = FALSE

HistoryInterrupt == Interrupt /\ NoteRequests

(***************************************************************************)
(* What a task may do without touching a pending call.                     *)
(***************************************************************************)
HistoryCalmApp ==
  \/ AppRegister /\ UNCHANGED historyVars
  \/ AppSetState /\ UNCHANGED historyVars
  \/ AppAddCall /\ NoteRequests

(***************************************************************************)
(* A position past the end resets the last slot; the search for a function *)
(* that is in the last slot changes nothing.                               *)
(***************************************************************************)
HistoryRemoval ==
  \/ \E position \in Slots : AppRemoveAt(position) /\ NoteRemoval(position)
  \/ \E ptr \in Task, position \in 0 .. MAX_TASK_QUEUE_SIZE :
       /\ AppRemoveByPtr(ptr)
       /\ PositionOf(ptr, position)
       /\ CASE position = MAX_TASK_QUEUE_SIZE     -> NoteRemoval(position - 1)
            [] position = MAX_TASK_QUEUE_SIZE - 1 -> UNCHANGED historyVars
            [] OTHER                              -> NoteRemoval(position)
  \/ AppClearTasks /\ NoteRemoval(0)

HistoryCut ==
  /\ AppCut
  /\ calls' = IF kv1CallIndex' = 0 THEN <<>> ELSE Tail(calls)
  /\ cut' = (pc = "run")
  /\ UNCHANGED ran

HistoryNext ==
  HistoryMain \/ HistoryInterrupt \/ HistoryCalmApp \/ HistoryRemoval \/ HistoryCut

HistorySpec == HistoryInit /\ [][HistoryNext]_allVars

(***************************************************************************)
(* The kernel while no task removes a task or a call, with the fairness of *)
(* the processor: the main program goes on, and every task returns.        *)
(***************************************************************************)
CalmNext == HistoryMain \/ HistoryInterrupt \/ HistoryCalmApp

CalmSpec ==
  /\ HistoryInit
  /\ [][CalmNext]_allVars
  /\ WF_allVars(HistoryMain)

-----------------------------------------------------------------------------

(***************************************************************************)
(* The arrays and the program counter have their types, and there is a     *)
(* record per pending call.                                                *)
(***************************************************************************)
HistoryTypeOK ==
  /\ KernelTypeOK
  /\ calls \in [1 .. kv1CallIndex -> [task : Task \cup Extern \cup {kv1Idle, NULL},
                                      moved : BOOLEAN]]
  /\ ran \in [call : Ref, task : Task \cup Extern \cup {kv1Idle, NULL}]
  /\ cut \in BOOLEAN

(***************************************************************************)
(* A call reaches the function it was requested for, however long it       *)
(* waits, as long as no task at or below its slot is removed meanwhile:    *)
(* new registrations, other removals and interrupts do not redirect it     *)
(* (the queue holds addresses of slots, kernel.c:66 and kernel.c:303, and  *)
(* the function is read from the slot when it is called, kernel.c:229).    *)
(***************************************************************************)
PendingRunsItsTask ==
  ~stray => \A k \in DOMAIN calls : ~calls[k].moved => CodeOf(kv1CallQueue[k - 1]) = calls[k].task

(***************************************************************************)
(* kernelv1_taskManager reads entry 0 three times.  Unless the task it     *)
(* called cut the queue, all three reads find the same call, interrupts    *)
(* or not: the call that is dropped is the call that was served.           *)
(***************************************************************************)
DropsWhatRan ==
  pc \in {"run", "check", "reap", "drop"} /\ ~cut /\ ~stray =>
    kv1CallIndex # 0 /\ kv1CallQueue[0] = ran.call

(***************************************************************************)
(* A task that asked to be removed while it ran is the one that is         *)
(* removed, unless it cut the queue or removed a task at or below its own  *)
(* slot itself.                                                            *)
(***************************************************************************)
ReapsWhatRan ==
  pc = "reap" /\ ~stray /\ ~cut /\ ~calls[1].moved => CodeOf(kv1CallQueue[0]) = ran.task

(***************************************************************************)
(* A requested call is served: interrupts that keep requesting calls, and  *)
(* fill the queue, delay it but do not starve it.  Only a task that        *)
(* requests a call on a null handle ends the service.  The first record is *)
(* that of the call in progress from its start to its removal.             *)
(***************************************************************************)
Awaits(f) ==
  \E k \in DOMAIN calls :
    /\ pc # "boot"
    /\ calls[k].task = f
    /\ k = 1 => pc \notin {"run", "check", "reap", "drop"}

EveryCallIsServed ==
  \A f \in Task \cup Extern : Awaits(f) ~> (pc = "lost" \/ (pc = "run" /\ current = f))
=============================================================================
