----------------------------- MODULE Preempted -----------------------------
(***************************************************************************)
(* What the main program does with interrupts enabled, and the system tick *)
(* that comes in between: reading the uptime, writing pins and logging;    *)
(* and the control of the timer that makes the tick.  The main program     *)
(* does one of them at a time.  The tick counts e_time; a callback of it   *)
(* may write a pin, or start or stop the timer, and may log, and the main  *)
(* program goes on when the last character of its message is out.          *)
(***************************************************************************)
EXTENDS Uptime, Pins, Uart, TimerControl

preemptedVars == <<uptimeVars, pinVars, uartVars, timerVars>>

PreemptedInit == UptimeInit /\ PinsInit /\ UartInit /\ ControlInit

AtRest ==
  reading = NotReading /\ access = NoAccess /\ ~Speaks("main") /\ section = "rest"

-----------------------------------------------------------------------------

MainReadsUptime ==
  /\ Runs("main")
  /\ (BeginUptime /\ AtRest) \/ ReadByte \/ ReturnUptime
  /\ UNCHANGED <<pinVars, uartVars, timerVars>>

MainWritesPin ==
  /\ Runs("main")
  /\ \/ (BeginDigitalWrite \/ BeginPinMode \/ BeginBit) /\ AtRest
     \/ ReadRegister
     \/ WriteRegister
  /\ UNCHANGED <<uptimeVars, uartVars, timerVars>>

MainLogs ==
  /\ (LogMessage("main") /\ AtRest) \/ Say("main")
  /\ UNCHANGED <<uptimeVars, pinVars, timerVars>>

MainControlsTimer ==
  /\ Runs("main")
  /\ reading = NotReading /\ access = NoAccess /\ ~Speaks("main")
  /\ ControlStep
  /\ UNCHANGED <<uptimeVars, pinVars, uartVars>>

(***************************************************************************)
(* The handler of the system tick, up to the message of its callback.      *)
(***************************************************************************)
TickComes ==
  /\ ~Speaks("tick")
  /\ Ticks
  /\ CountTick
  /\ \/ /\ \E pin \in CallbackPin, value \in {LOW, HIGH} : CallbackWrites(pin, value)
        /\ UNCHANGED timerVars
     \/ (CallbackStarts \/ CallbackStops) /\ UNCHANGED pinVars
     \/ UNCHANGED <<pinVars, timerVars>>
  /\ LogMessage("tick") \/ UNCHANGED uartVars

TickLogs == Say("tick") /\ UNCHANGED <<uptimeVars, pinVars, timerVars>>

Transmit == Shift /\ UNCHANGED <<uptimeVars, pinVars, timerVars>>

PreemptedNext ==
  \/ MainReadsUptime \/ MainWritesPin \/ MainLogs \/ MainControlsTimer
  \/ TickComes \/ TickLogs
  \/ Transmit

PreemptedSpec == PreemptedInit /\ [][PreemptedNext]_preemptedVars

-----------------------------------------------------------------------------

PreemptedTypeOK == UptimeTypeOK /\ PinsTypeOK /\ UartTypeOK /\ ControlTypeOK
=============================================================================
