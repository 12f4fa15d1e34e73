-------------------------------- MODULE Uart --------------------------------
(***************************************************************************)
(* The debug output (src/kernel-v1/debug, and the UART of hal.c): a        *)
(* message is its level's prefix and its text, put one character at a time *)
(* into the data register of the UART.  putc writes the register and then  *)
(* waits for it to be empty; the hardware ignores a character written      *)
(* while it is not.  The critical section around a message is an empty     *)
(* macro, so a callback of the system tick may say something in the middle *)
(* of a message of the main program, which then stands still.              *)
(***************************************************************************)
EXTENDS Integers, Sequences

CONSTANTS
  Level,         \* levels that messages are given; L_NONE has no prefix
  PrefixLength,  \* characters of a prefix
  TextLength     \* characters of a text

VARIABLES
  udr,           \* the character in the data register, if any
  wire,          \* characters sent since a message began when none was
  saying         \* main program and tick -> the message of each

uartVars == <<udr, wire, saying>>

ASSUME UartAssumption == Level \subseteq 0 .. 4 /\ {PrefixLength, TextLength} \subseteq Nat

L_NONE == 0

PGM_OFF == 0
PGM_ON == 1
PGM_PUTS == 2

Speaker == {"main", "tick"}

Silent == [length |-> 0, put |-> 0, waits |-> FALSE]

Speaks(who) == saying[who] # Silent

(***************************************************************************)
(* The main program stands still while the tick speaks.                    *)
(***************************************************************************)
Runs(who) == who = "main" => ~Speaks("tick")

(***************************************************************************)
(* What debug_logMessage sends: nothing for a format kept nowhere it knows *)
(* of.                                                                     *)
(***************************************************************************)
MessageLength(pgm, level) ==
  IF pgm \notin {PGM_OFF, PGM_ON, PGM_PUTS} THEN 0
  ELSE TextLength + (IF level = L_NONE THEN 0 ELSE PrefixLength)

-----------------------------------------------------------------------------

UartInit ==
  /\ udr = <<>>
  /\ wire = <<>>
  /\ saying = [who \in Speaker |-> Silent]

LogMessage(who) ==
  /\ Runs(who) /\ ~Speaks(who)
  /\ \E pgm \in PGM_OFF .. PGM_PUTS + 1, level \in Level :
       saying' = [saying EXCEPT ![who].length = MessageLength(pgm, level)]
  /\ UNCHANGED <<udr, wire>>

Character(who, place) ==
  [who |-> who, place |-> place, last |-> place = saying[who].length]

(***************************************************************************)
(* A slip: the null character after the text is put too.                   *)
(***************************************************************************)
PutCharPast(who) ==
  /\ Runs(who) /\ ~saying[who].waits
  /\ Speaks(who) /\ saying[who].put <= saying[who].length
  /\ udr' = IF udr = <<>> THEN <<Character(who, saying[who].put + 1)>> ELSE udr
  /\ saying' = [saying EXCEPT ![who].put = @ + 1, ![who].waits = TRUE]
  /\ UNCHANGED wire

(***************************************************************************)
(* A slip: putc returns without waiting.                                   *)
(***************************************************************************)
PutCharAndGo(who) ==
  /\ Runs(who) /\ ~saying[who].waits
  /\ saying[who].put < saying[who].length
  /\ udr' = IF udr = <<>> THEN <<Character(who, saying[who].put + 1)>> ELSE udr
  /\ saying' = [saying EXCEPT ![who].put = @ + 1]
  /\ UNCHANGED wire

PutChar(who) ==
  /\ Runs(who) /\ ~saying[who].waits
  /\ saying[who].put < saying[who].length
  /\ udr' = IF udr = <<>> THEN <<Character(who, saying[who].put + 1)>> ELSE udr
  /\ saying' = [saying EXCEPT ![who].put = @ + 1, ![who].waits = TRUE]
  /\ UNCHANGED wire

(***************************************************************************)
(* A slip: the wait is over although the register is not empty.            *)
(***************************************************************************)
WaitBriefly(who) ==
  /\ Runs(who) /\ saying[who].waits
  /\ saying' = [saying EXCEPT ![who].waits = FALSE]
  /\ UNCHANGED <<udr, wire>>

Wait(who) ==
  /\ Runs(who) /\ saying[who].waits
  /\ udr = <<>>
  /\ saying' = [saying EXCEPT ![who].waits = FALSE]
  /\ UNCHANGED <<udr, wire>>

EndMessage(who) ==
  /\ Runs(who) /\ Speaks(who) /\ ~saying[who].waits
  /\ saying[who].put = saying[who].length
  /\ saying' = [saying EXCEPT ![who] = Silent]
  /\ wire' = IF \A other \in Speaker \ {who} : ~Speaks(other) THEN <<>> ELSE wire
  /\ UNCHANGED udr

(***************************************************************************)
(* The hardware takes the character out of the data register.              *)
(***************************************************************************)
Shift ==
  /\ udr # <<>>
  /\ wire' = wire \o udr
  /\ udr' = <<>>
  /\ UNCHANGED saying

Say(who) == PutChar(who) \/ Wait(who) \/ EndMessage(who)

UartNext == Shift \/ \E who \in Speaker : LogMessage(who) \/ Say(who)

UartSpec == UartInit /\ [][UartNext]_uartVars

-----------------------------------------------------------------------------

Char == [who : Speaker, place : Nat \ {0}, last : BOOLEAN]

UartTypeOK ==
  /\ udr \in Seq(Char) /\ Len(udr) <= 1
  /\ wire \in Seq(Char)
  /\ saying \in [Speaker -> [length : Nat, put : Nat, waits : BOOLEAN]]
  /\ \A who \in Speaker : saying[who].put <= saying[who].length

Sent == wire \o udr

Of(who) == {k \in DOMAIN Sent : Sent[k].who = who}

(***************************************************************************)
(* However often the tick speaks in the middle of a message of the main    *)
(* program, and although putc does not look at the register before it      *)
(* writes, no character of that message is lost or out of place.           *)
(***************************************************************************)
MainTextWhole ==
  /\ {Sent[k].place : k \in Of("main")} = 1 .. saying["main"].put
  /\ \A j, k \in Of("main") : j < k => Sent[j].place < Sent[k].place

(***************************************************************************)
(* A message of the tick stays in one piece and lacks at most its first    *)
(* character, and that one only when it came upon a character of the main  *)
(* program that was still in the register.                                 *)
(***************************************************************************)
TickTextWhole ==
  \A k \in Of("tick") :
    /\ ~Sent[k].last /\ k < Len(Sent) =>
         Sent[k + 1].who = "tick" /\ Sent[k + 1].place = Sent[k].place + 1
    /\ Sent[k].place > 1 =>
         /\ k > 1
         /\ IF Sent[k - 1].who = "tick" THEN Sent[k - 1].place = Sent[k].place - 1
            ELSE Sent[k].place = 2
=============================================================================
