--------------------------- MODULE CriticalSection ---------------------------
(***************************************************************************)
(* The critical sections of the kernel, instruction by instruction.  Each  *)
(* function of the API saves the status register, clears the interrupt     *)
(* flag, works, sets the flag and writes the status register back:         *)
(*                                                                         *)
(*   sreg = SREG; cli; ...; sei; SREG = sreg                               *)
(*                                                                         *)
(* so a section that another one calls, or that an interrupt handler       *)
(* opens, sets the flag for one instruction although the one around it     *)
(* wants it clear.  The processor executes one more instruction after sei, *)
(* and after reti, before it takes an interrupt; optimised (-O3 and -Os in *)
(* the project file), the write of SREG is that instruction.               *)
(*                                                                         *)
(* The work is the read and the write of a word of bits, kv1flags, as      *)
(* kernelv1_setFlag does it; the sections of hal.c do so with TIMSK.       *)
(***************************************************************************)
EXTENDS Integers, Sequences, FiniteSets

CONSTANTS
  Flag,       \* bits of the word
  MaxNesting  \* sections open in the main program, or in a handler, at most

VARIABLES
  iflag,      \* the interrupt flag of SREG
  shadow,     \* the last instruction was sei or reti
  stack,      \* handlers and sections in progress, innermost last
  kv1flags,
  asked       \* kv1flags as the completed writes would have it, one by one

sectionVars == <<iflag, shadow, stack, kv1flags, asked>>

ASSUME CriticalSectionAssumption == MaxNesting \in Nat \ {0}

Frame ==
  [step : {"handler", "saved", "closed", "loaded", "opened"}, sreg : BOOLEAN,
   copy : SUBSET Flag]

Handler == [step |-> "handler", sreg |-> FALSE, copy |-> {}]

Depth == Len(stack)

Top == stack[Depth]

At == IF stack = <<>> THEN "main" ELSE Top.step

IsHandler(i) == stack[i].step = "handler"

Replace(frame) == stack' = [stack EXCEPT ![Depth] = frame]

Pop == stack' = SubSeq(stack, 1, Depth - 1)

(***************************************************************************)
(* Sections open above the innermost handler.                              *)
(***************************************************************************)
Nesting == {i \in 1 .. Depth : \A j \in i .. Depth : ~IsHandler(j)}

-----------------------------------------------------------------------------

SectionInit ==
  /\ iflag = TRUE
  /\ shadow = FALSE
  /\ stack = <<>>
  /\ kv1flags = {}
  /\ asked = {}

(***************************************************************************)
(* A slip: SREG is read after cli.                                         *)
(***************************************************************************)
SaveLate ==
  /\ At \in {"main", "handler", "closed"}
  /\ Cardinality(Nesting) < MaxNesting
  /\ stack' = Append(stack, [step |-> "saved", sreg |-> FALSE, copy |-> {}])
  /\ shadow' = FALSE
  /\ UNCHANGED <<iflag, kv1flags, asked>>

(***************************************************************************)
(* sreg = SREG, in the main program, in a handler, or between two pieces   *)
(* of work of another section (removeTask calls removeTaskByPos).          *)
(***************************************************************************)
Save ==
  /\ At \in {"main", "handler", "closed"}
  /\ Cardinality(Nesting) < MaxNesting
  /\ stack' = Append(stack, [step |-> "saved", sreg |-> iflag, copy |-> {}])
  /\ shadow' = FALSE
  /\ UNCHANGED <<iflag, kv1flags, asked>>

(***************************************************************************)
(* A slip: the flag is not cleared.                                        *)
(***************************************************************************)
DisableNot ==
  /\ At = "saved"
  /\ Replace([Top EXCEPT !.step = "closed"])
  /\ shadow' = FALSE
  /\ UNCHANGED <<iflag, kv1flags, asked>>

Disable ==
  /\ At = "saved"
  /\ Replace([Top EXCEPT !.step = "closed"])
  /\ iflag' = FALSE
  /\ shadow' = FALSE
  /\ UNCHANGED <<kv1flags, asked>>

(***************************************************************************)
(* The work: the word is read, and written with one bit changed.           *)
(***************************************************************************)
Load ==
  /\ At = "closed"
  /\ Replace([Top EXCEPT !.step = "loaded", !.copy = kv1flags])
  /\ shadow' = FALSE
  /\ UNCHANGED <<iflag, kv1flags, asked>>

Written(word, flag, value) == IF value THEN word \cup {flag} ELSE word \ {flag}

SetFlag(flag, value) ==
  /\ At = "loaded"
  /\ Replace([Top EXCEPT !.step = "closed", !.copy = {}])
  /\ kv1flags' = Written(Top.copy, flag, value)
  /\ asked' = Written(asked, flag, value)
  /\ shadow' = FALSE
  /\ UNCHANGED iflag

(***************************************************************************)
(* A slip: an instruction comes between sei and the write of SREG.         *)
(***************************************************************************)
EnableEarly ==
  /\ At = "closed"
  /\ Replace([Top EXCEPT !.step = "opened"])
  /\ iflag' = TRUE
  /\ shadow' = FALSE
  /\ UNCHANGED <<kv1flags, asked>>

Enable ==
  /\ At = "closed"
  /\ Replace([Top EXCEPT !.step = "opened"])
  /\ iflag' = TRUE
  /\ shadow' = TRUE
  /\ UNCHANGED <<kv1flags, asked>>

Restore ==
  /\ At = "opened"
  /\ Pop
  /\ iflag' = Top.sreg
  /\ shadow' = FALSE
  /\ UNCHANGED <<kv1flags, asked>>

(***************************************************************************)
(* An instruction of the main program, or of a handler, outside sections.  *)
(***************************************************************************)
Compute ==
  /\ At \in {"main", "handler"}
  /\ shadow' = FALSE
  /\ UNCHANGED <<iflag, stack, kv1flags, asked>>

(***************************************************************************)
(* The processor takes an interrupt and returns from it.                   *)
(***************************************************************************)
TakeInterrupt ==
  /\ iflag /\ ~shadow
  /\ stack' = Append(stack, Handler)
  /\ iflag' = FALSE
  /\ UNCHANGED <<shadow, kv1flags, asked>>

ReturnFromInterrupt ==
  /\ At = "handler"
  /\ Pop
  /\ iflag' = TRUE
  /\ shadow' = TRUE
  /\ UNCHANGED <<kv1flags, asked>>

SectionNext ==
  \/ Save \/ Disable \/ Load
  \/ \E flag \in Flag, value \in BOOLEAN : SetFlag(flag, value)
  \/ Enable \/ Restore
  \/ Compute
  \/ TakeInterrupt \/ ReturnFromInterrupt

SectionSpec == SectionInit /\ [][SectionNext]_sectionVars

-----------------------------------------------------------------------------

(***************************************************************************)
(* Types; the stack holds one handler at most and what is open around it.  *)
(***************************************************************************)
SectionTypeOK ==
  /\ iflag \in BOOLEAN
  /\ shadow \in BOOLEAN
  /\ stack \in Seq(Frame) /\ Depth <= 2 * MaxNesting + 1
  /\ kv1flags \in SUBSET Flag
  /\ asked \in SUBSET Flag

(***************************************************************************)
(* No handler runs in the middle of a section, from its cli to the write   *)
(* of SREG that ends it, although a section inside it executes sei: this   *)
(* is what lets the other modules take each function of the API as one     *)
(* step (kernel.c:73-84 and its like).                                     *)
(***************************************************************************)
SectionsExclude ==
  \A i, j \in 1 .. Depth :
    i < j /\ ~IsHandler(i) /\ IsHandler(j) => stack[i].step = "saved"

(***************************************************************************)
(* A handler that uses the API is not interrupted by another one, although *)
(* each section in it executes sei: the tick and the receive interrupt     *)
(* follow each other (kernel.c:315-325, commands.c:304-323).               *)
(***************************************************************************)
HandlersDoNotNest ==
  \A i, j \in 1 .. Depth : IsHandler(i) /\ IsHandler(j) => i = j

(***************************************************************************)
(* Interrupts are enabled outside handlers and sections, so that no way    *)
(* through nested sections leaves the main program deaf; and they can be   *)
(* taken nowhere else.                                                     *)
(***************************************************************************)
Outside == \A i \in 1 .. Depth : ~IsHandler(i) /\ stack[i].step = "saved"

EnabledOutside ==
  /\ Outside => iflag
  /\ iflag /\ ~shadow => Outside

(***************************************************************************)
(* No write of a flag is undone by another one that was under way          *)
(* (kernel.c:34, hal.c:161 and hal.c:170 read the word before they write). *)
(***************************************************************************)
NoWriteUndone == kv1flags = asked
=============================================================================
