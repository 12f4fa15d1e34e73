------------------------------- MODULE Uptime -------------------------------
(***************************************************************************)
(* The uptime of src/kernel-v1/kernel.c: the system tick counts it in      *)
(* e_time, eight bytes wide, and kernelv1_getUptime returns it with        *)
(* interrupts enabled, so the tick may come between the reads of two       *)
(* bytes.  The source leaves the order of the reads to the compiler.       *)
(***************************************************************************)
EXTENDS Integers, Sequences

CONSTANTS
  Base,        \* values of a byte (256 in the code)
  ByteCount,   \* bytes of e_time (8 in the code)
  Weight,      \* byte -> what a one in it counts for (Base to its power)
  ReadOrders,  \* orders of reading them: sequences of bytes, 0 the lowest
  MaxTime      \* ticks at most

VARIABLES
  e_time,
  reading      \* the call of getUptime in progress

uptimeVars == <<e_time, reading>>

Bytes == 0 .. ByteCount - 1

LowFirst == [k \in 1 .. ByteCount |-> k - 1]

HighFirst == [k \in 1 .. ByteCount |-> ByteCount - k]

ASSUME UptimeAssumption ==
  /\ Base \in Nat \ {0, 1}
  /\ ByteCount \in Nat \ {0}
  /\ Weight \in [0 .. ByteCount -> Nat \ {0}]
  /\ Weight[0] = 1 /\ \A b \in Bytes : Weight[b + 1] = Base * Weight[b]
  /\ MaxTime \in Nat /\ MaxTime < Weight[ByteCount]
  /\ \A order \in ReadOrders :
       /\ order \in [1 .. ByteCount -> Bytes]
       /\ \A b \in Bytes : \E k \in 1 .. ByteCount : order[k] = b
       /\ \A j, k \in 1 .. ByteCount : order[j] = order[k] => j = k

Byte(time, b) == (time \div Weight[b]) % Base

-----------------------------------------------------------------------------

(***************************************************************************)
(* order is empty between calls; value is what the bytes read so far       *)
(* amount to; started is the time of the call.                             *)
(***************************************************************************)
NotReading == [order |-> <<>>, read |-> 0, value |-> 0, started |-> 0]

UptimeInit == e_time = 0 /\ reading = NotReading

BeginUptime ==
  /\ reading = NotReading
  /\ \E order \in ReadOrders :
       reading' = [order |-> order, read |-> 0, value |-> 0, started |-> e_time]
  /\ UNCHANGED e_time

(***************************************************************************)
(* A slip: the first byte of the order is read last.                       *)
(***************************************************************************)
ReadByteRotated ==
  /\ reading.read < Len(reading.order)
  /\ \E b \in {reading.order[((reading.read + 1) % ByteCount) + 1]} :
       reading' = [reading EXCEPT !.read = @ + 1,
                                  !.value = @ + Byte(e_time, b) * Weight[b]]
  /\ UNCHANGED e_time

ReadByte ==
  /\ reading.read < Len(reading.order)
  /\ \E b \in {reading.order[reading.read + 1]} :
       reading' = [reading EXCEPT !.read = @ + 1,
                                  !.value = @ + Byte(e_time, b) * Weight[b]]
  /\ UNCHANGED e_time

HasUptime == reading # NotReading /\ reading.read = Len(reading.order)

ReturnUptime ==
  /\ HasUptime
  /\ reading' = NotReading
  /\ UNCHANGED e_time

(***************************************************************************)
(* The end of kernelv1_taskService.  The bound keeps e_time below the      *)
(* 2^64 at which it would wrap.                                            *)
(***************************************************************************)
CountTick ==
  /\ e_time < MaxTime
  /\ e_time' = e_time + 1
  /\ UNCHANGED reading

UptimeStep == BeginUptime \/ ReadByte \/ ReturnUptime

UptimeNext == UptimeStep \/ CountTick

UptimeSpec == UptimeInit /\ [][UptimeNext]_uptimeVars

-----------------------------------------------------------------------------

UptimeTypeOK ==
  /\ e_time \in 0 .. MaxTime
  /\ reading = NotReading \/ reading.order \in ReadOrders
  /\ reading.read \in 0 .. Len(reading.order)
  /\ reading.value \in Nat
  /\ reading.started \in 0 .. e_time

(***************************************************************************)
(* What a caller of kernelv1_getUptime may rely on, however many ticks     *)
(* come between the reads of two bytes: read from the low byte up the time *)
(* is never before the call, read from the high byte down never after the  *)
(* return, and in any order it is neither unless a tick carried out of the *)
(* low byte meanwhile.                                                     *)
(***************************************************************************)
NeverBeforeCall == HasUptime /\ reading.order = LowFirst => reading.value >= reading.started

NeverAfterReturn == HasUptime /\ reading.order = HighFirst => reading.value <= e_time

TornOnlyByCarry ==
  HasUptime /\ reading.started \div Base = e_time \div Base
    => reading.value \in reading.started .. e_time

TornReadBounds == NeverBeforeCall /\ NeverAfterReturn /\ TornOnlyByCarry
=============================================================================
