---------------------------- MODULE TimersProofs ----------------------------
(***************************************************************************)
(* Software timers fire on time, for every size of their array and every   *)
(* set of functions and periods.                                           *)
(***************************************************************************)
EXTENDS Timers, TLAPS

(***************************************************************************)
(* The interrupt has begun this tick's pass and has yet to reach the slot. *)
(***************************************************************************)
Ahead(i) == ~Between /\ i >= visiting

Served(i) == calling /\ visiting = i

(***************************************************************************)
(* The ticks a timer has waited and those it still has to wait add up to   *)
(* its period.  A tick is counted when its pass begins and taken off the   *)
(* period when the pass reaches the slot; a timer set between the two was  *)
(* not there when the tick was counted.                                    *)
(***************************************************************************)
OnTime(i) ==
  LET total == since[i] + kv1TimerQueue[i].period
      asked == kv1TimerQueue[i].repeatPeriod + (IF Ahead(i) THEN 1 ELSE 0)
  IN  total = asked \/ (~byMain[i] /\ total = asked - 1)

CountsAddUp ==
  ~wrapped => \A i \in TimerSlots :
                Armed(i) => /\ kv1TimerQueue[i].repeatPeriod \in TimerPeriod
                            /\ ~Served(i) => OnTime(i)

TimingInv == TimersTypeOK /\ NoneLeftOut /\ CountsAddUp

LEMMA TimerSlotSteps ==
  /\ \A i \in TimerSlots : i \in Int /\ 0 <= i /\ i < MAX_TIMER_COUNT
  /\ \A i \in 0 .. MAX_TIMER_COUNT : i # MAX_TIMER_COUNT =>
       i \in TimerSlots /\ i + 1 \in 0 .. MAX_TIMER_COUNT /\ i \in Int
  /\ MAX_TIMER_COUNT \in Nat /\ 0 \in TimerSlots
BY TimersAssumption DEF TimerSlots

(***************************************************************************)
(* The search of setTimer ends at one slot or at none.                     *)
(***************************************************************************)
LEMMA OneSlotAtMost ==
  ASSUME NEW t_pointer
  PROVE  /\ TimerSlotFor(t_pointer) \subseteq TimerSlots
         /\ \A i, j \in TimerSlotFor(t_pointer) : i = j
<1>1. \A i, j \in TimerSlotFor(t_pointer) : ~(i < j)
  BY TimerSlotSteps, TimersAssumption DEF TimerSlotFor, TimerSlots
<1> QED
  BY <1>1, TimerSlotSteps DEF TimerSlotFor

(***************************************************************************)
(* What setTimer does to the slot it finds.                                *)
(***************************************************************************)
SetsSlot(i, t_pointer, t_period) ==
  /\ kv1TimerQueue' = [kv1TimerQueue EXCEPT ![i] =
                         [tsrPointer |-> t_pointer, period |-> t_period,
                          repeatPeriod |-> t_period]]
  /\ kv1TimerIndex' = (kv1TimerIndex + 1) % UINT8
  /\ since' = [since EXCEPT ![i] = 0]
  /\ byMain' = [byMain EXCEPT ![i] = Between]
  /\ wrapped' = (wrapped \/ kv1TimerIndex' = 0)
  /\ UNCHANGED <<visiting, calling, holed>>

LEMMA SetTimerSets ==
  ASSUME NEW t_pointer, NEW t_period, SetTimer(t_pointer, t_period)
  PROVE  \/ \E i \in TimerSlotFor(t_pointer) : SetsSlot(i, t_pointer, t_period)
         \/ UNCHANGED allTimerVars
<1>1. CASE TimerSlotFor(t_pointer) = {}
  BY <1>1 DEF SetTimer, allTimerVars, timerVars, noteVars
<1>2. CASE TimerSlotFor(t_pointer) # {}
  BY <1>2 DEF SetTimer, SetsSlot
<1> QED
  BY <1>1, <1>2

-----------------------------------------------------------------------------

LEMMA TimersTypeInitially == TimersInit => TimersTypeOK
<1> SUFFICES ASSUME TimersInit PROVE TimersTypeOK
  OBVIOUS
<1>1. [tsrPointer |-> NULL, period |-> 0, repeatPeriod |-> 0] \in kv1TimerStruct_t
  BY DEF kv1TimerStruct_t
<1>2. 0 \in 0 .. UINT8 - 1 /\ 0 \in 0 .. SinceBound /\ MAX_TIMER_COUNT \in 0 .. MAX_TIMER_COUNT
  BY TimersAssumption
<1> QED
  BY <1>1, <1>2 DEF TimersInit, TimersTypeOK

LEMMA TimersTypeInductive == TimersTypeOK /\ [TimersNext]_allTimerVars => TimersTypeOK'
<1> SUFFICES ASSUME TimersTypeOK, [TimersNext]_allTimerVars PROVE TimersTypeOK'
  OBVIOUS
<1> USE DEF TimersTypeOK
<1>0. /\ 0 \in 0 .. SinceBound
      /\ ~Between => visiting \in TimerSlots /\ visiting + 1 \in 0 .. MAX_TIMER_COUNT
      /\ \A i \in TimerSlots : kv1TimerQueue[i] \in kv1TimerStruct_t
  BY TimersAssumption, TimerSlotSteps DEF Between
<1>1. ASSUME NEW t_pointer \in Callback, NEW t_period \in TimerPeriod,
             SetTimer(t_pointer, t_period)
      PROVE  TimersTypeOK'
  <2>1. ASSUME NEW i \in TimerSlotFor(t_pointer), SetsSlot(i, t_pointer, t_period)
        PROVE  TimersTypeOK'
    <3>1. [tsrPointer |-> t_pointer, period |-> t_period, repeatPeriod |-> t_period]
            \in kv1TimerStruct_t
      BY TimersAssumption DEF kv1TimerStruct_t
    <3>2. kv1TimerQueue' \in [TimerSlots -> kv1TimerStruct_t]
      BY <2>1, <3>1 DEF SetsSlot
    <3>3. kv1TimerIndex' \in 0 .. UINT8 - 1
      BY <2>1, TimersAssumption DEF SetsSlot
    <3>4. since' \in [TimerSlots -> 0 .. SinceBound] /\ byMain' \in [TimerSlots -> BOOLEAN]
      BY <1>0, <2>1 DEF SetsSlot, Between
    <3>5. wrapped' \in BOOLEAN /\ holed' \in BOOLEAN /\ UNCHANGED <<visiting, calling>>
      BY <2>1 DEF SetsSlot
    <3> QED
      BY <3>2, <3>3, <3>4, <3>5 DEF Between
  <2> QED
    BY <1>1, <2>1, SetTimerSets DEF allTimerVars, timerVars, noteVars, Between
<1>2. ASSUME NEW handle \in TimerSlots, RemoveTimer(handle)
      PROVE  TimersTypeOK'
  <2>1. [kv1TimerQueue[handle] EXCEPT !.tsrPointer = NULL] \in kv1TimerStruct_t
    BY <1>0 DEF kv1TimerStruct_t
  <2> QED
    BY <1>2, <2>1 DEF RemoveTimer, Between
<1>3. CASE BeginPass
  <2>1. since' \in [TimerSlots -> 0 .. SinceBound]
    BY <1>3, TimersAssumption DEF BeginPass
  <2>2. visiting' \in 0 .. MAX_TIMER_COUNT /\ ~calling'
    BY <1>3, TimersAssumption DEF BeginPass
  <2> QED
    BY <1>3, <2>1, <2>2 DEF BeginPass
<1>4. CASE SkipSlot
  BY <1>0, <1>4 DEF SkipSlot, noteVars
<1>5. CASE CountDown
  <2>1. kv1TimerQueue[visiting].period \in Nat \ {0}
    BY <1>0, <1>5 DEF CountDown, kv1TimerStruct_t
  <2>2. kv1TimerQueue[visiting].period - 1 \in Nat
    BY <2>1
  <2>3. [kv1TimerQueue[visiting] EXCEPT !.period = @ - 1] \in kv1TimerStruct_t
    BY <1>0, <1>5, <2>2 DEF CountDown, kv1TimerStruct_t
  <2> QED
    BY <1>0, <1>5, <2>3 DEF CountDown, noteVars
<1>6. CASE StartCall
  BY <1>6 DEF StartCall, noteVars, Between
<1>7. CASE EndCall
  <2>1. [kv1TimerQueue[visiting] EXCEPT !.period = kv1TimerQueue[visiting].repeatPeriod]
          \in kv1TimerStruct_t
    BY <1>0, <1>7 DEF EndCall, kv1TimerStruct_t
  <2> QED
    BY <1>0, <1>7, <2>1 DEF EndCall
<1>8. CASE UNCHANGED allTimerVars
  BY <1>8 DEF allTimerVars, timerVars, noteVars, Between
<1> QED
  BY <1>1, <1>2, <1>3, <1>4, <1>5, <1>6, <1>7, <1>8 DEF TimersNext

(***************************************************************************)
(* The array always holds timer structures, and the pass stays within it.  *)
(***************************************************************************)
THEOREM TimersTypeCorrect == TimersSpec => []TimersTypeOK
BY TimersTypeInitially, TimersTypeInductive, PTL DEF TimersSpec

-----------------------------------------------------------------------------

(***************************************************************************)
(* The index is 0 only before the first setTimer, or when it wrapped.      *)
(***************************************************************************)
LEMMA NoneLeftOutInductive ==
  ASSUME TimersTypeOK, NoneLeftOut, [TimersNext]_allTimerVars
  PROVE  NoneLeftOut'
<1> USE DEF TimersTypeOK, NoneLeftOut, Armed
<1>1. ASSUME NEW t_pointer \in Callback, NEW t_period \in TimerPeriod,
             SetTimer(t_pointer, t_period)
      PROVE  NoneLeftOut'
  BY <1>1, SetTimerSets DEF SetsSlot, allTimerVars, timerVars, noteVars
<1>2. ASSUME NEW handle \in TimerSlots, RemoveTimer(handle)
      PROVE  NoneLeftOut'
  BY <1>2 DEF RemoveTimer
<1>3. CASE BeginPass \/ SkipSlot \/ StartCall
  BY <1>3 DEF BeginPass, SkipSlot, StartCall, noteVars
<1>4. CASE CountDown \/ EndCall
  <2>1. visiting \in TimerSlots
    BY <1>4, TimerSlotSteps DEF CountDown, EndCall, Between
  <2>2. \A i \in TimerSlots : kv1TimerQueue'[i].tsrPointer = kv1TimerQueue[i].tsrPointer
    BY <1>4, <2>1 DEF CountDown, EndCall, kv1TimerStruct_t
  <2> QED
    BY <1>4, <2>2 DEF CountDown, EndCall, noteVars
<1>5. CASE UNCHANGED allTimerVars
  BY <1>5 DEF allTimerVars, timerVars, noteVars
<1> QED
  BY <1>1, <1>2, <1>3, <1>4, <1>5 DEF TimersNext

(***************************************************************************)
(* The timers that are set wait for the right number of ticks.             *)
(***************************************************************************)
LEMMA CountsInductive ==
  ASSUME TimingInv, [TimersNext]_allTimerVars
  PROVE  CountsAddUp'
<1> USE DEF TimingInv
<1>1. ASSUME NEW t_pointer \in Callback, NEW t_period \in TimerPeriod,
             SetTimer(t_pointer, t_period)
      PROVE  CountsAddUp'
  <2>1. ASSUME NEW i \in TimerSlotFor(t_pointer), SetsSlot(i, t_pointer, t_period)
        PROVE  CountsAddUp'
    <3> SUFFICES ASSUME ~wrapped', NEW j \in TimerSlots, Armed(j)'
                 PROVE  /\ kv1TimerQueue'[j].repeatPeriod \in TimerPeriod
                        /\ ~Served(j)' => OnTime(j)'
      BY DEF CountsAddUp
    <3>1. i \in TimerSlots /\ UNCHANGED <<visiting, calling>> /\ ~wrapped
      BY <2>1, OneSlotAtMost DEF SetsSlot
    <3>2. CASE j = i
      <4>1. /\ kv1TimerQueue'[j].period = t_period /\ kv1TimerQueue'[j].repeatPeriod = t_period
            /\ since'[j] = 0 /\ byMain'[j] = Between
        BY <2>1, <3>1, <3>2 DEF SetsSlot, TimersTypeOK
      <4>2. Ahead(j)' => ~byMain'[j]
        BY <3>1, <4>1 DEF Ahead, Between
      <4>3. t_period \in Nat
        BY TimersAssumption
      <4>4. OnTime(j)'
        BY <4>1, <4>2, <4>3 DEF OnTime
      <4> QED
        BY <4>1, <4>4
    <3>3. CASE j # i
      <4>1. /\ kv1TimerQueue'[j] = kv1TimerQueue[j] /\ since'[j] = since[j]
            /\ byMain'[j] = byMain[j]
        BY <2>1, <3>1, <3>3 DEF SetsSlot, TimersTypeOK
      <4> QED
        BY <3>1, <4>1 DEF CountsAddUp, OnTime, Ahead, Between, Served, Armed
    <3> QED
      BY <3>2, <3>3
  <2>2. CASE UNCHANGED allTimerVars
    BY <2>2 DEF allTimerVars, timerVars, noteVars, CountsAddUp, OnTime, Ahead, Between, Served,
       Armed
  <2> QED
    BY <1>1, <2>1, <2>2, SetTimerSets
<1>2. ASSUME NEW handle \in TimerSlots, RemoveTimer(handle)
      PROVE  CountsAddUp'
  <2> SUFFICES ASSUME ~wrapped', NEW j \in TimerSlots, Armed(j)'
               PROVE  /\ kv1TimerQueue'[j].repeatPeriod \in TimerPeriod
                      /\ ~Served(j)' => OnTime(j)'
    BY DEF CountsAddUp
  <2>1. j # handle
    BY <1>2 DEF RemoveTimer, Armed, TimersTypeOK, kv1TimerStruct_t
  <2>2. /\ kv1TimerQueue'[j] = kv1TimerQueue[j]
        /\ UNCHANGED <<since, byMain, visiting, calling, wrapped>>
    BY <1>2, <2>1 DEF RemoveTimer, TimersTypeOK
  <2> QED
    BY <2>2 DEF CountsAddUp, OnTime, Ahead, Between, Served, Armed
<1>3. CASE BeginPass
  <2> SUFFICES ASSUME ~wrapped, NEW j \in TimerSlots, Armed(j)
               PROVE  /\ kv1TimerQueue[j].repeatPeriod \in TimerPeriod
                      /\ OnTime(j)'
    BY <1>3 DEF CountsAddUp, BeginPass, Armed
  <2>1. kv1TimerIndex # 0 /\ visiting' = 0 /\ Between /\ ~calling
    BY <1>3 DEF BeginPass, NoneLeftOut, TimersTypeOK
  <2>2. /\ kv1TimerQueue[j].repeatPeriod \in TimerPeriod
        /\ OnTime(j) /\ ~Ahead(j)
    BY <2>1 DEF CountsAddUp, Ahead, Served
  <2>3. /\ since[j] \in Nat /\ kv1TimerQueue[j].period \in Nat
        /\ kv1TimerQueue[j].repeatPeriod \in Nat
    BY TimersAssumption DEF TimersTypeOK, kv1TimerStruct_t
  <2>4. since[j] < SinceBound
    BY <2>2, <2>3, TimersAssumption DEF OnTime
  <2>5. since'[j] = since[j] + 1
    BY <1>3, <2>4 DEF BeginPass
  <2>6. Ahead(j)'
    BY <2>1, TimerSlotSteps DEF Ahead, Between
  <2> QED
    BY <1>3, <2>2, <2>3, <2>5, <2>6, TimersAssumption DEF BeginPass, OnTime
<1>4. CASE SkipSlot \/ CountDown
  <2> SUFFICES ASSUME ~wrapped, NEW j \in TimerSlots, Armed(j)'
               PROVE  /\ kv1TimerQueue'[j].repeatPeriod \in TimerPeriod
                      /\ OnTime(j)'
    BY <1>4 DEF CountsAddUp, SkipSlot, CountDown, noteVars
  <2>1. /\ visiting \in TimerSlots /\ visiting' = visiting + 1 /\ ~calling /\ ~Between
        /\ UNCHANGED noteVars
    BY <1>4, TimerSlotSteps DEF SkipSlot, CountDown, Between, TimersTypeOK
  <2>2. Ahead(j)' <=> Ahead(j) /\ j # visiting
    BY <2>1, TimerSlotSteps DEF Ahead, Between
  <2>3. CASE j = visiting
    <3>1. /\ CountDown /\ Armed(j) /\ Ahead(j)
          /\ kv1TimerQueue'[j] = [kv1TimerQueue[j] EXCEPT !.period = kv1TimerQueue[j].period - 1]
      BY <1>4, <2>1, <2>3, TimerSlotSteps DEF SkipSlot, CountDown, Ahead, Armed, TimersTypeOK
    <3>2. /\ kv1TimerQueue'[j].period = kv1TimerQueue[j].period - 1
          /\ kv1TimerQueue'[j].repeatPeriod = kv1TimerQueue[j].repeatPeriod
          /\ kv1TimerQueue[j].period \in Nat /\ since[j] \in Nat
      BY <3>1, TimersAssumption DEF TimersTypeOK, kv1TimerStruct_t
    <3>3. kv1TimerQueue[j].repeatPeriod \in TimerPeriod /\ OnTime(j)
      BY <2>1, <3>1 DEF CountsAddUp, Served
    <3> QED
      BY <2>1, <2>2, <2>3, <3>1, <3>2, <3>3, TimersAssumption DEF OnTime, noteVars
  <2>4. CASE j # visiting
    <3>1. kv1TimerQueue'[j] = kv1TimerQueue[j]
      BY <1>4, <2>4 DEF SkipSlot, CountDown, TimersTypeOK
    <3>2. kv1TimerQueue[j].repeatPeriod \in TimerPeriod /\ OnTime(j)
      BY <2>1, <3>1 DEF CountsAddUp, Served, Armed
    <3> QED
      BY <2>1, <2>2, <2>4, <3>1, <3>2 DEF OnTime, noteVars
  <2> QED
    BY <2>3, <2>4
<1>5. CASE StartCall
  BY <1>5 DEF StartCall, noteVars, CountsAddUp, OnTime, Ahead, Between, Served, Armed
<1>6. CASE EndCall
  <2> SUFFICES ASSUME ~wrapped, NEW j \in TimerSlots, Armed(j)'
               PROVE  /\ kv1TimerQueue'[j].repeatPeriod \in TimerPeriod
                      /\ OnTime(j)'
    BY <1>6 DEF CountsAddUp, EndCall
  <2>1. visiting \in TimerSlots /\ visiting' = visiting + 1 /\ ~Between
    BY <1>6, TimerSlotSteps DEF EndCall, Between, TimersTypeOK
  <2>2. Ahead(j)' <=> Ahead(j) /\ j # visiting
    BY <2>1, TimerSlotSteps DEF Ahead, Between
  <2>3. CASE j = visiting
    <3>1. /\ kv1TimerQueue'[j] = [kv1TimerQueue[j] EXCEPT
                                    !.period = kv1TimerQueue[j].repeatPeriod]
          /\ since'[j] = 0
      BY <1>6, <2>3 DEF EndCall, TimersTypeOK
    <3>2. /\ kv1TimerQueue'[j].period = kv1TimerQueue[j].repeatPeriod
          /\ kv1TimerQueue'[j].repeatPeriod = kv1TimerQueue[j].repeatPeriod
          /\ Armed(j)
      BY <3>1 DEF TimersTypeOK, kv1TimerStruct_t, Armed
    <3>3. kv1TimerQueue[j].repeatPeriod \in TimerPeriod
      BY <3>2 DEF CountsAddUp
    <3> QED
      BY <2>2, <2>3, <3>1, <3>2, <3>3, TimersAssumption DEF OnTime
  <2>4. CASE j # visiting
    <3>1. /\ kv1TimerQueue'[j] = kv1TimerQueue[j] /\ since'[j] = since[j]
          /\ byMain'[j] = byMain[j]
      BY <1>6, <2>1, <2>4 DEF EndCall, TimersTypeOK
    <3>2. kv1TimerQueue[j].repeatPeriod \in TimerPeriod /\ OnTime(j)
      BY <2>4, <3>1 DEF CountsAddUp, Served, Armed
    <3> QED
      BY <2>2, <2>4, <3>1, <3>2 DEF OnTime
  <2> QED
    BY <2>3, <2>4
<1>7. CASE UNCHANGED allTimerVars
  BY <1>7 DEF allTimerVars, timerVars, noteVars, CountsAddUp, OnTime, Ahead, Between, Served,
     Armed
<1> QED
  BY <1>1, <1>2, <1>3, <1>4, <1>5, <1>6, <1>7 DEF TimersNext

LEMMA TimingInvAlways == TimersSpec => []TimingInv
<1>1. TimersInit => TimingInv
  BY TimersTypeInitially DEF TimersInit, TimingInv, NoneLeftOut, CountsAddUp, Armed
<1>2. TimingInv /\ [TimersNext]_allTimerVars => TimingInv'
  BY TimersTypeInductive, NoneLeftOutInductive, CountsInductive DEF TimingInv
<1> QED
  BY <1>1, <1>2, PTL DEF TimersSpec

(***************************************************************************)
(* Every timer fires on its tick, or one early the first time when it was  *)
(* set in the middle of a pass, whatever callbacks set and remove.         *)
(***************************************************************************)
THEOREM TimersFireOnTime == TimersSpec => []FiresOnTime
<1>1. TimingInv => FiresOnTime
  <2> SUFFICES ASSUME TimingInv, NEW i \in TimerSlots, ~wrapped, ~calling, visiting = i,
                      Armed(i), kv1TimerQueue[i].period = 0
               PROVE  \/ since[i] = kv1TimerQueue[i].repeatPeriod + 1
                      \/ ~byMain[i] /\ since[i] = kv1TimerQueue[i].repeatPeriod
    BY DEF FiresOnTime
  <2>1. OnTime(i) /\ since[i] \in Nat
    BY TimersAssumption DEF TimingInv, CountsAddUp, Served, TimersTypeOK
  <2>3. kv1TimerQueue[i].repeatPeriod \in Nat
    BY DEF TimingInv, TimersTypeOK, kv1TimerStruct_t
  <2>2. Ahead(i)
    BY TimerSlotSteps DEF Ahead, Between
  <2> QED
    BY <2>1, <2>2, <2>3 DEF OnTime
<1> QED
  BY TimingInvAlways, <1>1, PTL

(***************************************************************************)
(* The interrupt never passes over a timer that is set, until the index    *)
(* has wrapped.                                                            *)
(***************************************************************************)
THEOREM NoTimerLeftOut == TimersSpec => []NoneLeftOut
<1>1. TimingInv => NoneLeftOut
  BY DEF TimingInv
<1> QED
  BY TimingInvAlways, <1>1, PTL

-----------------------------------------------------------------------------

(***************************************************************************)
(* No function is set twice because no free slot comes before one in use:  *)
(* the search of setTimer then meets the function first.                   *)
(***************************************************************************)
Packed == ~holed => \A i, j \in TimerSlots : i < j /\ Armed(j) => Armed(i)

OnceInv == TimersTypeOK /\ Packed /\ TwiceOnlyAfterHole

LEMMA OnceInductive ==
  ASSUME OnceInv, [TimersNext]_allTimerVars
  PROVE  Packed' /\ TwiceOnlyAfterHole'
<1> DEFINE SamePointers ==
      \A i \in TimerSlots : kv1TimerQueue'[i].tsrPointer = kv1TimerQueue[i].tsrPointer
<1> USE DEF OnceInv
<1>1. ASSUME NEW t_pointer \in Callback, NEW t_period \in TimerPeriod,
             NEW i \in TimerSlotFor(t_pointer), SetsSlot(i, t_pointer, t_period), ~holed'
      PROVE  Packed' /\ TwiceOnlyAfterHole'
  <2>1. i \in TimerSlots /\ ~holed /\ t_pointer # NULL
    BY <1>1, OneSlotAtMost, TimersAssumption DEF SetsSlot
  <2>2. \A j \in TimerSlots :
          kv1TimerQueue'[j].tsrPointer = IF j = i THEN t_pointer
                                         ELSE kv1TimerQueue[j].tsrPointer
    BY <1>1, <2>1 DEF SetsSlot, TimersTypeOK
  <2>3. \A j \in TimerSlots : j < i => kv1TimerQueue[j].tsrPointer \notin {t_pointer, NULL}
    BY <1>1, TimerSlotSteps, TimersAssumption DEF TimerSlotFor, Takes, TimerSlots
  <2>4. \A j \in TimerSlots : j # i => kv1TimerQueue[j].tsrPointer # t_pointer
    <3> SUFFICES ASSUME NEW j \in TimerSlots, j # i, kv1TimerQueue[j].tsrPointer = t_pointer
                 PROVE  FALSE
      OBVIOUS
    <3>1. i < j /\ Armed(j)
      BY <2>1, <2>3, TimerSlotSteps DEF Armed
    <3>2. Armed(i)
      BY <2>1, <3>1 DEF Packed
    <3>3. kv1TimerQueue[i].tsrPointer = t_pointer
      BY <3>2 DEF TimerSlotFor, Takes, Armed
    <3> QED
      BY <2>1, <3>1, <3>3 DEF TwiceOnlyAfterHole
  <2>5. Packed'
    BY <2>1, <2>2, <2>3, TimerSlotSteps DEF Packed, Armed
  <2>6. TwiceOnlyAfterHole'
    BY <2>1, <2>2, <2>4 DEF TwiceOnlyAfterHole, Armed
  <2> QED
    BY <2>5, <2>6
<1>2. ASSUME NEW handle \in TimerSlots, RemoveTimer(handle), ~holed'
      PROVE  Packed' /\ TwiceOnlyAfterHole'
  <2>1. ~holed /\ \A j \in TimerSlots : handle < j => ~Armed(j)
    BY <1>2 DEF RemoveTimer
  <2>2. \A j \in TimerSlots :
          kv1TimerQueue'[j].tsrPointer = IF j = handle THEN NULL
                                         ELSE kv1TimerQueue[j].tsrPointer
    BY <1>2 DEF RemoveTimer, TimersTypeOK, kv1TimerStruct_t
  <2> QED
    BY <2>1, <2>2, TimerSlotSteps DEF Packed, TwiceOnlyAfterHole, Armed
<1>3. ASSUME SamePointers, UNCHANGED holed
      PROVE  Packed' /\ TwiceOnlyAfterHole'
  BY <1>3 DEF Packed, TwiceOnlyAfterHole, Armed
<1>4. CASE BeginPass \/ SkipSlot \/ StartCall \/ UNCHANGED allTimerVars
  BY <1>3, <1>4 DEF BeginPass, SkipSlot, StartCall, allTimerVars, timerVars, noteVars
<1>5. CASE CountDown \/ EndCall
  <2>1. visiting \in TimerSlots
    BY <1>5, TimerSlotSteps DEF CountDown, EndCall, Between, TimersTypeOK
  <2>2. SamePointers
    BY <1>5, <2>1 DEF CountDown, EndCall, TimersTypeOK, kv1TimerStruct_t
  <2> QED
    BY <1>3, <1>5, <2>2 DEF CountDown, EndCall, noteVars
<1>6. CASE holed'
  BY <1>6 DEF Packed, TwiceOnlyAfterHole
<1> QED
  BY <1>1, <1>2, <1>4, <1>5, <1>6, SetTimerSets DEF TimersNext

(***************************************************************************)
(* A function is set twice only after a removal left a hole.               *)
(***************************************************************************)
THEOREM SetOnceWithoutHole == TimersSpec => []TwiceOnlyAfterHole
<1>1. TimersInit => OnceInv
  BY TimersTypeInitially DEF TimersInit, OnceInv, Packed, TwiceOnlyAfterHole, Armed
<1>2. OnceInv /\ [TimersNext]_allTimerVars => OnceInv'
  BY TimersTypeInductive, OnceInductive DEF OnceInv
<1>3. OnceInv => TwiceOnlyAfterHole
  BY DEF OnceInv
<1> QED
  BY <1>1, <1>2, <1>3, PTL DEF TimersSpec
=============================================================================
