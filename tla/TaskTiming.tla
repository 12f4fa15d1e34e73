----------------------------- MODULE TaskTiming -----------------------------
(***************************************************************************)
(* The task list with a memory of what each function was registered for    *)
(* and of the ticks it has counted since.  The added variables only        *)
(* record: when a function is called is decided by TaskTable.              *)
(***************************************************************************)
EXTENDS TaskTable

VARIABLES
  asked,   \* function -> type and period of its last accepted registration
  age,     \* function -> ticks it was active since then or since its last call
  runs     \* function -> calls since then or since its state was last set, up to 2

timingVars == <<tableVars, asked, age, runs>>

(***************************************************************************)
(* Nothing is remembered of a function that is not registered.             *)
(***************************************************************************)
Nothing == [type |-> KTASK_REPEATED, period |-> 1]

TimingInit ==
  /\ TableInit
  /\ asked = [t \in Task |-> Nothing]
  /\ age = [t \in Task |-> 0]
  /\ runs = [t \in Task |-> 0]

Timed(taskType, ptr, period, startupState) ==
  /\ AddTask(taskType, ptr, period, startupState)
  /\ IF SlotFor(ptr) # {}
       THEN /\ asked' = [asked EXCEPT ![ptr] = [type |-> taskType,
                                                period |-> LastTick(period) + 1]]
            /\ age' = [age EXCEPT ![ptr] = 0]
            /\ runs' = [runs EXCEPT ![ptr] = 0]
       ELSE UNCHANGED <<asked, age, runs>>

HeldIn(t, slots) == \E i \in slots : kv1TaskList[i].pointer = t

TimedService ==
  /\ ServiceTable
  /\ age' = [t \in Task |->
               IF HeldIn(t, {i \in Slots : Due(i)}) THEN 0
               ELSE IF HeldIn(t, {i \in Slots : Waiting(i)}) THEN age[t] + 1 ELSE age[t]]
  /\ runs' = [t \in Task |->
                IF HeldIn(t, {i \in Slots : Due(i)}) /\ runs[t] < 2 THEN runs[t] + 1
                                                                   ELSE runs[t]]
  /\ UNCHANGED asked

TimedSetState(handle, newState) ==
  /\ SetTaskState(handle, newState)
  /\ runs' = [t \in Task |-> IF HeldIn(t, {handle} \cap Slots) THEN 0 ELSE runs[t]]
  /\ UNCHANGED <<asked, age>>

TimedRemoval ==
  /\ \/ \E position \in Slots : RemoveTaskByPos(position)
     \/ \E ptr \in Task : RemoveTaskByPtr(ptr)
     \/ \E handle \in Handles : RemoveTask(handle)
     \/ ClearTaskQueue
  /\ asked' = [t \in Task |-> IF t \in Registered' THEN asked[t] ELSE Nothing]
  /\ age' = [t \in Task |-> IF t \in Registered' THEN age[t] ELSE 0]
  /\ runs' = [t \in Task |-> IF t \in Registered' THEN runs[t] ELSE 0]

TimingNext ==
  \/ \E taskType \in {KTASK_SINGLERUN, KTASK_REPEATED}, ptr \in Task,
        period \in Period, startupState \in AppState :
       Timed(taskType, ptr, period, startupState)
  \/ \E handle \in Handles, newState \in AppState : TimedSetState(handle, newState)
  \/ TimedService
  \/ TimedRemoval

TimingSpec == TimingInit /\ [][TimingNext]_timingVars

-----------------------------------------------------------------------------

(***************************************************************************)
(* A repeated function is called exactly once in each of its periods of    *)
(* ticks spent active: the first time a period after its registration      *)
(* (delay starts at period - 1, kernel.c:99), then every period (delay is  *)
(* reloaded with period - 1, kernel.c:307), however often other            *)
(* functions come and go, its slot moves, and it is suspended.             *)
(***************************************************************************)
CalledEveryPeriod ==
  \A i \in Slots :
    LET t == kv1TaskList[i].pointer
    IN  Occupied(i) /\ asked[t].type = KTASK_REPEATED =>
          age[t] + kv1TaskList[i].delay + 1 = asked[t].period

(***************************************************************************)
(* A repeated function goes on being called: only a period of 1 (or of 0,  *)
(* served as 1), whose repeatPeriod is the 0 that marks a single run       *)
(* (kernel.c:304), ends after its first call.                              *)
(***************************************************************************)
RepeatedGoesOn ==
  \A i \in Slots :
    LET t == kv1TaskList[i].pointer
    IN  Occupied(i) /\ asked[t].type = KTASK_REPEATED /\ kv1TaskList[i].state = DONE =>
          asked[t].period = 1

(***************************************************************************)
(* kernel.h:57 calls task type 0 KTASK_SINGLERUN: a function registered    *)
(* so is called at most once.                                              *)
(***************************************************************************)
SingleRunOnce ==
  \A t \in Registered : asked[t].type = KTASK_SINGLERUN => runs[t] < 2
=============================================================================
