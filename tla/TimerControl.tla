---------------------------- MODULE TimerControl ----------------------------
(***************************************************************************)
(* The control of the system timer in src/kernel-v1/kernel.c: each of its  *)
(* functions is a row of critical sections, one in the driver and one in   *)
(* kernelv1_setFlag, and the tick may come between two of them.  The main  *)
(* program starts in kernelv1_init and then calls any of them; a callback  *)
(* of the tick may start or stop the timer too.  The program is taken to   *)
(* leave the two flags of the timer to the kernel.                         *)
(***************************************************************************)
EXTENDS FiniteSets

VARIABLES
  TCCR0,       \* whether the timer has a clock
  TIMSK,       \* whether its interrupt is enabled
  timerFlags,  \* the two bits of kv1flags that tell of it
  section,     \* the critical section the main program comes to
  booting,     \* kernelv1_init has not returned
  undone       \* a callback stopped what the main program was starting

timerVars == <<TCCR0, TIMSK, timerFlags, section, booting, undone>>

Sections ==
  {"unset", "disable", "setup", "set", "check start", "start", "started",
   "enable", "check stop", "stop", "stopped", "rest"}

At(s, next) == section = s /\ section' = next

(***************************************************************************)
(* Where a function goes on in the main program when it returns: the last  *)
(* call of kernelv1_init is followed by a section of its own.              *)
(***************************************************************************)
AfterSetup == IF booting THEN "check start" ELSE "rest"

AfterStart == IF booting THEN "enable" ELSE "rest"

SetFlag(flag) == timerFlags' = timerFlags \cup {flag}

ClearFlag(flag) == timerFlags' = timerFlags \ {flag}

-----------------------------------------------------------------------------

ControlInit ==
  /\ TCCR0 = FALSE
  /\ TIMSK = FALSE
  /\ timerFlags = {}
  /\ section = "unset"
  /\ booting = TRUE
  /\ undone = FALSE

KernelInitClears ==
  /\ \/ At("unset", "disable") /\ ClearFlag("SET")
     \/ At("disable", "setup") /\ ClearFlag("EN")
  /\ UNCHANGED <<TCCR0, TIMSK, booting, undone>>

KernelInitEnables ==
  /\ At("enable", "rest")
  /\ SetFlag("EN")
  /\ booting' = FALSE
  /\ UNCHANGED <<TCCR0, TIMSK, undone>>

BeginControl ==
  /\ section = "rest"
  /\ section' \in {"setup", "check start", "check stop"}
  /\ UNCHANGED <<TCCR0, TIMSK, timerFlags, booting, undone>>

SetupTimer0 ==
  /\ At("setup", "set")
  /\ TCCR0' = TRUE
  /\ UNCHANGED <<TIMSK, timerFlags, booting, undone>>

MarkSetUp ==
  /\ At("set", AfterSetup)
  /\ SetFlag("SET")
  /\ UNCHANGED <<TCCR0, TIMSK, booting, undone>>

SetupTimer == SetupTimer0 \/ MarkSetUp

CheckBeforeStart ==
  /\ At("check start", IF "SET" \in timerFlags THEN "start" ELSE AfterStart)
  /\ UNCHANGED <<TCCR0, TIMSK, timerFlags, booting, undone>>

StartTimer0 ==
  /\ At("start", "started")
  /\ TIMSK' = TRUE
  /\ undone' = FALSE
  /\ UNCHANGED <<TCCR0, timerFlags, booting>>

MarkEnabled ==
  /\ At("started", AfterStart)
  /\ SetFlag("EN")
  /\ UNCHANGED <<TCCR0, TIMSK, booting, undone>>

StartTimer == CheckBeforeStart \/ StartTimer0 \/ MarkEnabled

CheckBeforeStop ==
  /\ At("check stop", IF "SET" \in timerFlags THEN "stop" ELSE "rest")
  /\ UNCHANGED <<TCCR0, TIMSK, timerFlags, booting, undone>>

StopTimer0 ==
  /\ At("stop", "stopped")
  /\ TIMSK' = FALSE
  /\ undone' = FALSE
  /\ UNCHANGED <<TCCR0, timerFlags, booting>>

(***************************************************************************)
(* A slip: the flag is left as it was.                                     *)
(***************************************************************************)
MarkNothing ==
  /\ At("stopped", "rest")
  /\ UNCHANGED <<TCCR0, TIMSK, timerFlags, booting, undone>>

MarkDisabled ==
  /\ At("stopped", "rest")
  /\ ClearFlag("EN")
  /\ UNCHANGED <<TCCR0, TIMSK, booting, undone>>

StopTimer == CheckBeforeStop \/ StopTimer0 \/ MarkDisabled

ControlStep ==
  KernelInitClears \/ KernelInitEnables \/ BeginControl \/ SetupTimer \/ StartTimer \/ StopTimer

-----------------------------------------------------------------------------

(***************************************************************************)
(* The tick comes while the timer has a clock and its interrupt is         *)
(* enabled.  A callback's call runs whole, since handlers do not nest.     *)
(***************************************************************************)
Ticks == TCCR0 /\ TIMSK

CallbackStarts ==
  /\ "SET" \in timerFlags
  /\ TIMSK' = TRUE
  /\ SetFlag("EN")
  /\ UNCHANGED <<TCCR0, section, booting, undone>>

CallbackStops ==
  /\ "SET" \in timerFlags
  /\ TIMSK' = FALSE
  /\ ClearFlag("EN")
  /\ \/ section \in {"started", "enable"} /\ undone' = TRUE
     \/ section \notin {"started", "enable"} /\ UNCHANGED undone
  /\ UNCHANGED <<TCCR0, section, booting>>

ControlNext == ControlStep \/ (Ticks /\ (CallbackStarts \/ CallbackStops))

ControlSpec == ControlInit /\ [][ControlNext]_timerVars

-----------------------------------------------------------------------------

ControlTypeOK ==
  /\ TCCR0 \in BOOLEAN
  /\ TIMSK \in BOOLEAN
  /\ timerFlags \in SUBSET {"SET", "EN"}
  /\ section \in Sections
  /\ booting \in BOOLEAN
  /\ undone \in BOOLEAN

(***************************************************************************)
(* Between calls KFLAG_TIMER_EN says whether the timer ticks, although the *)
(* driver is told and the flag written in two sections (kernel.c:235-249   *)
(* and 287-290); what breaks it is a callback that stops the timer between *)
(* the two, and that until the main program next starts or stops it.       *)
(***************************************************************************)
FlagTellsTimer ==
  section = "rest" /\ ~undone => ("EN" \in timerFlags <=> Ticks)
=============================================================================
