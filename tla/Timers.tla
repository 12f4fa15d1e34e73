------------------------------- MODULE Timers -------------------------------
(***************************************************************************)
(* The software timers of the kernel (src/kernel-v1/timers.c): an array of *)
(* functions, each called by the timer interrupt every repeatPeriod + 1    *)
(* ticks.  A pass of the interrupt over the array is a sequence of steps,  *)
(* because the functions it calls may set and remove timers on their way;  *)
(* the main program may do so between two passes only, with interrupts     *)
(* disabled.                                                               *)
(*                                                                         *)
(* since, byMain, holed and wrapped only record.                           *)
(***************************************************************************)
EXTENDS Integers

CONSTANTS
  Callback,          \* functions a timer may call
  NULL,
  MAX_TIMER_COUNT,   \* slots of the array (1 in kernel_config.h)
  TimerPeriod,       \* periods asked for
  UINT8,             \* kv1TimerIndex counts modulo UINT8 (256 in the code)
  SinceBound         \* since counts up to this

VARIABLES
  kv1TimerQueue,     \* slot -> timer structure
  kv1TimerIndex,     \* calls of setTimer that found a slot
  visiting,          \* the slot the pass has reached, MAX_TIMER_COUNT between passes
  calling,           \* the function of that slot is running
  since,             \* slot -> ticks since it was set or since its last call
  byMain,            \* slot -> it was set between passes
  holed,             \* a slot was freed while a later one was in use
  wrapped            \* kv1TimerIndex went back to 0

timerVars == <<kv1TimerQueue, kv1TimerIndex, visiting, calling>>
noteVars  == <<since, byMain, holed, wrapped>>
allTimerVars == <<timerVars, noteVars>>

TimerSlots == 0 .. MAX_TIMER_COUNT - 1

ASSUME TimersAssumption ==
  /\ MAX_TIMER_COUNT \in Nat \ {0}
  /\ UINT8 \in Nat \ {0, 1}
  /\ TimerPeriod \subseteq Nat
  /\ SinceBound \in Nat
  /\ \A p \in TimerPeriod : p + 1 < SinceBound
  /\ NULL \notin Callback

kv1TimerStruct_t ==
  [tsrPointer : Callback \cup {NULL}, period : Nat, repeatPeriod : Nat]

Armed(i) == kv1TimerQueue[i].tsrPointer # NULL

Between == visiting = MAX_TIMER_COUNT

-----------------------------------------------------------------------------

TimersInit ==
  /\ kv1TimerQueue = [i \in TimerSlots |-> [tsrPointer |-> NULL, period |-> 0,
                                            repeatPeriod |-> 0]]
  /\ kv1TimerIndex = 0
  /\ visiting = MAX_TIMER_COUNT
  /\ calling = FALSE
  /\ since = [i \in TimerSlots |-> 0]
  /\ byMain = [i \in TimerSlots |-> TRUE]
  /\ holed = FALSE
  /\ wrapped = FALSE

(***************************************************************************)
(* A slip: a function already there is not looked for.                     *)
(***************************************************************************)
TakesFreeOnly(i, t_pointer) == ~Armed(i)

(***************************************************************************)
(* setTimer takes the first slot that holds the function or is free.       *)
(***************************************************************************)
Takes(i, t_pointer) == kv1TimerQueue[i].tsrPointer \in {t_pointer, NULL}

TimerSlotFor(t_pointer) ==
  {i \in TimerSlots : Takes(i, t_pointer) /\ \A j \in 0 .. i - 1 : ~Takes(j, t_pointer)}

SetTimer(t_pointer, t_period) ==
  /\ Between \/ calling
  /\ \A i \in TimerSlotFor(t_pointer) :
       /\ kv1TimerQueue' = [kv1TimerQueue EXCEPT ![i] =
                              [tsrPointer |-> t_pointer, period |-> t_period,
                               repeatPeriod |-> t_period]]
       /\ kv1TimerIndex' = (kv1TimerIndex + 1) % UINT8
       /\ since' = [since EXCEPT ![i] = 0]
       /\ byMain' = [byMain EXCEPT ![i] = Between]
       /\ wrapped' = (wrapped \/ kv1TimerIndex' = 0)
  /\ TimerSlotFor(t_pointer) = {} =>
       UNCHANGED <<kv1TimerQueue, kv1TimerIndex, since, byMain, wrapped>>
  /\ UNCHANGED <<visiting, calling, holed>>

(***************************************************************************)
(* A slip: the removal counts down what setTimer counts up.                *)
(***************************************************************************)
RemoveTimerCounts(handle) ==
  /\ Between \/ calling
  /\ kv1TimerQueue' = [kv1TimerQueue EXCEPT ![handle].tsrPointer = NULL]
  /\ kv1TimerIndex' = (kv1TimerIndex - 1) % UINT8
  /\ holed' = (holed \/ \E j \in TimerSlots : handle < j /\ Armed(j))
  /\ UNCHANGED <<visiting, calling, since, byMain, wrapped>>

(***************************************************************************)
(* removeTimer frees the slot behind a handle, whatever function is there  *)
(* by now; a null handle changes nothing.                                  *)
(***************************************************************************)
RemoveTimer(handle) ==
  /\ Between \/ calling
  /\ kv1TimerQueue' = [kv1TimerQueue EXCEPT ![handle].tsrPointer = NULL]
  /\ holed' = (holed \/ \E j \in TimerSlots : handle < j /\ Armed(j))
  /\ UNCHANGED <<kv1TimerIndex, visiting, calling, since, byMain, wrapped>>

-----------------------------------------------------------------------------

(***************************************************************************)
(* The timer interrupt begins a pass, unless the index is 0.               *)
(***************************************************************************)
BeginPass ==
  /\ Between
  /\ visiting' = IF kv1TimerIndex # 0 THEN 0 ELSE visiting
  /\ since' = [i \in TimerSlots |->
                 IF Armed(i) /\ since[i] < SinceBound THEN since[i] + 1 ELSE since[i]]
  /\ UNCHANGED <<kv1TimerQueue, kv1TimerIndex, calling, byMain, holed, wrapped>>

(***************************************************************************)
(* The pass reaches a slot: a free one is skipped, one whose period is not *)
(* over counts down, and the function of one whose period is over starts.  *)
(***************************************************************************)
SkipSlot ==
  /\ ~Between /\ ~calling
  /\ ~Armed(visiting)
  /\ visiting' = visiting + 1
  /\ UNCHANGED <<kv1TimerQueue, kv1TimerIndex, calling, noteVars>>

(***************************************************************************)
(* A slip: the countdown does not stop at 0.                               *)
(***************************************************************************)
CountDownPast ==
  /\ ~Between /\ ~calling
  /\ Armed(visiting)
  /\ kv1TimerQueue' = [kv1TimerQueue EXCEPT ![visiting].period = @ - 1]
  /\ visiting' = visiting + 1
  /\ UNCHANGED <<kv1TimerIndex, calling, noteVars>>

CountDown ==
  /\ ~Between /\ ~calling
  /\ Armed(visiting) /\ kv1TimerQueue[visiting].period # 0
  /\ kv1TimerQueue' = [kv1TimerQueue EXCEPT ![visiting].period = @ - 1]
  /\ visiting' = visiting + 1
  /\ UNCHANGED <<kv1TimerIndex, calling, noteVars>>

StartCall ==
  /\ ~Between /\ ~calling
  /\ Armed(visiting) /\ kv1TimerQueue[visiting].period = 0
  /\ calling' = TRUE
  /\ UNCHANGED <<kv1TimerQueue, kv1TimerIndex, visiting, noteVars>>

(***************************************************************************)
(* A slip: the period is not loaded again.                                 *)
(***************************************************************************)
EndCallUnloaded ==
  /\ calling
  /\ calling' = FALSE
  /\ visiting' = visiting + 1
  /\ since' = [since EXCEPT ![visiting] = 0]
  /\ byMain' = [byMain EXCEPT ![visiting] = TRUE]
  /\ UNCHANGED <<kv1TimerQueue, kv1TimerIndex, holed, wrapped>>

(***************************************************************************)
(* The function returns, and the slot, whatever is there by now, starts    *)
(* its period again.                                                       *)
(***************************************************************************)
EndCall ==
  /\ calling
  /\ calling' = FALSE
  /\ kv1TimerQueue' =
       [kv1TimerQueue EXCEPT ![visiting].period = kv1TimerQueue[visiting].repeatPeriod]
  /\ visiting' = visiting + 1
  /\ since' = [since EXCEPT ![visiting] = 0]
  /\ byMain' = [byMain EXCEPT ![visiting] = TRUE]
  /\ UNCHANGED <<kv1TimerIndex, holed, wrapped>>

TimersNext ==
  \/ \E t_pointer \in Callback, t_period \in TimerPeriod : SetTimer(t_pointer, t_period)
  \/ \E handle \in TimerSlots : RemoveTimer(handle)
  \/ BeginPass
  \/ SkipSlot
  \/ CountDown
  \/ StartCall
  \/ EndCall

TimersSpec == TimersInit /\ [][TimersNext]_allTimerVars

-----------------------------------------------------------------------------

(***************************************************************************)
(* The array holds timer structures and the pass stays within it.          *)
(***************************************************************************)
TimersTypeOK ==
  /\ kv1TimerQueue \in [TimerSlots -> kv1TimerStruct_t]
  /\ kv1TimerIndex \in 0 .. UINT8 - 1
  /\ visiting \in 0 .. MAX_TIMER_COUNT
  /\ calling \in BOOLEAN
  /\ calling => ~Between
  /\ since \in [TimerSlots -> 0 .. SinceBound]
  /\ byMain \in [TimerSlots -> BOOLEAN]
  /\ holed \in BOOLEAN /\ wrapped \in BOOLEAN

(***************************************************************************)
(* A timer's function is called repeatPeriod + 1 ticks after the timer was *)
(* set and then every repeatPeriod + 1 ticks, whatever timers other        *)
(* functions set and remove meanwhile, in the middle of a pass too.  Only  *)
(* the first call of a timer set in the middle of a pass comes a tick      *)
(* early, when the pass has yet to reach its slot (timers.c:49-59).        *)
(***************************************************************************)
FiresOnTime ==
  \A i \in TimerSlots :
    ~wrapped /\ ~calling /\ visiting = i /\ Armed(i) /\ kv1TimerQueue[i].period = 0 =>
      \/ since[i] = kv1TimerQueue[i].repeatPeriod + 1
      \/ ~byMain[i] /\ since[i] = kv1TimerQueue[i].repeatPeriod

(***************************************************************************)
(* A function holds two slots, and is called twice a period, only after a  *)
(* removal left a free slot before one in use: the first-match search of   *)
(* setTimer (timers.c:20) would otherwise have found the function.         *)
(***************************************************************************)
TwiceOnlyAfterHole ==
  ~holed => \A i, j \in TimerSlots :
              Armed(i) /\ kv1TimerQueue[i].tsrPointer = kv1TimerQueue[j].tsrPointer => i = j

(***************************************************************************)
(* The interrupt does not pass over timers that are set: the index that    *)
(* lets it skip the array (timers.c:48) is 0 only while none is, or after  *)
(* UINT8 calls of setTimer brought it back to 0.                           *)
(***************************************************************************)
NoneLeftOut ==
  kv1TimerIndex = 0 /\ ~wrapped => \A i \in TimerSlots : ~Armed(i)
=============================================================================
