-------------------------------- MODULE Cli --------------------------------
(***************************************************************************)
(* The command shell (src/kernel-v1/commands.c) on top of the kernel: the  *)
(* receive interrupt edits a line in recvBuffer; at the end of the line it *)
(* disables itself and requests a call; the main loop runs the command,    *)
(* clears the buffer and enables the interrupt again.  The kernel's call   *)
(* queue is the one of Fifo, which CallQueue implements; the ticks put     *)
(* calls of other tasks into it, and a task, or the handler of a command,  *)
(* may take calls out of it (kernelv1_removeCall, kernelv1_clearCallQueue).*)
(*                                                                         *)
(* line, overrun, early, nulled, lost, cut and stray only record.          *)
(***************************************************************************)
EXTENDS Integers, Sequences

CONSTANTS
  Letter,               \* characters other than backspace and the ones below
  TERMINATOR,           \* '\r', '\n' and ';'
  NUL,                  \* '\0'
  RX0_BUFFER_SIZE,      \* cells of recvBuffer (64 in kernel_config.h)
  UINT8,                \* recvBuffer_i counts modulo UINT8 (256 in the code)
  CallCapacity,         \* entries of the call queue
  CommandCall,          \* a call on dummyTask, the shell's own structure
  TaskCall              \* a call on some task of the list

VARIABLES
  recvBuffer,           \* cell -> character
  recvBuffer_i,
  rxEnabled,            \* the receive interrupt is enabled
  pending,              \* calls of the kernel's queue
  main,                 \* what the main program does
  line,                 \* the line as typed and edited
  overrun,              \* that line once filled the buffer
  early,                \* a line ended before cli_init was done
  nulled,               \* a null character was received
  lost,                 \* the request made when the interrupt was disabled is gone
  cut,                  \* the function being served took its own call out of the queue
  stray                 \* a cell outside recvBuffer was written

bufferVars == <<recvBuffer, recvBuffer_i, line, overrun, nulled, stray>>

cliVars == <<bufferVars, rxEnabled, pending, main, early, lost, cut>>

Cells == 0 .. RX0_BUFFER_SIZE - 1

ASSUME CliAssumption ==
  /\ RX0_BUFFER_SIZE \in Nat \ {0, 1}
  /\ UINT8 \in Nat /\ UINT8 > RX0_BUFFER_SIZE
  /\ CallCapacity \in Nat \ {0}
  /\ CommandCall # TaskCall
  /\ {TERMINATOR, NUL} \cap Letter = {}
  /\ TERMINATOR # NUL

Queue == INSTANCE Fifo WITH
           Item <- {CommandCall, TaskCall}, Capacity <- CallCapacity, BurstLimit <- 1

-----------------------------------------------------------------------------

(***************************************************************************)
(* strlen of the buffer: the cells before the first null one.  It reads on *)
(* past a buffer without one, and what it returns then is no smaller.      *)
(***************************************************************************)
Filled == {n \in 0 .. RX0_BUFFER_SIZE :
             /\ \A k \in 0 .. n - 1 : recvBuffer[k] # NUL
             /\ n \in Cells => recvBuffer[n] = NUL}

HasRoomAlways == TRUE

HasRoom == \A n \in Filled : n < RX0_BUFFER_SIZE

(***************************************************************************)
(* The word the command task reads: the buffer up to its first null cell.  *)
(***************************************************************************)
Command == CHOOSE c \in UNION {[1 .. n -> Letter \cup {TERMINATOR}] : n \in Filled} :
             \A k \in DOMAIN c : c[k] = recvBuffer[k - 1]

EmptyBuffer == [k \in Cells |-> NUL]

CliInit ==
  /\ recvBuffer = EmptyBuffer
  /\ recvBuffer_i = 0
  /\ rxEnabled = TRUE
  /\ pending = <<>>
  /\ main = "boot"
  /\ line = <<>>
  /\ overrun = FALSE
  /\ early = FALSE
  /\ nulled = FALSE
  /\ lost = FALSE
  /\ cut = FALSE
  /\ stray = FALSE

(***************************************************************************)
(* A letter, or a null character, is appended unless the buffer is full.   *)
(***************************************************************************)
ReceiveLetter(data) ==
  /\ rxEnabled
  /\ IF HasRoom
       THEN /\ recvBuffer' = [recvBuffer EXCEPT ![recvBuffer_i] = data]
            /\ recvBuffer_i' = (recvBuffer_i + 1) % UINT8
            /\ stray' = (stray \/ recvBuffer_i \notin Cells)
       ELSE UNCHANGED <<recvBuffer, recvBuffer_i, stray>>
  /\ line' = IF Len(line) < RX0_BUFFER_SIZE THEN Append(line, data) ELSE line
  /\ overrun' = (overrun \/ Len(line') = RX0_BUFFER_SIZE)
  /\ nulled' = (nulled \/ data = NUL)
  /\ UNCHANGED <<rxEnabled, pending, main, early, lost, cut>>

(***************************************************************************)
(* A slip: a backspace on an empty line is not stopped.                    *)
(***************************************************************************)
ReceiveBackspacePast ==
  /\ rxEnabled
  /\ recvBuffer_i' = IF HasRoom THEN (recvBuffer_i - 1) % UINT8 ELSE recvBuffer_i
  /\ line' = IF line = <<>> THEN line ELSE SubSeq(line, 1, Len(line) - 1)
  /\ UNCHANGED <<recvBuffer, rxEnabled, pending, main, overrun, early, nulled, lost, cut,
                 stray>>

(***************************************************************************)
(* A backspace moves the index and leaves the character in its cell.       *)
(***************************************************************************)
ReceiveBackspace ==
  /\ rxEnabled
  /\ recvBuffer_i' = IF HasRoom /\ recvBuffer_i >= 1 THEN recvBuffer_i - 1 ELSE recvBuffer_i
  /\ line' = IF line = <<>> THEN line ELSE SubSeq(line, 1, Len(line) - 1)
  /\ UNCHANGED <<recvBuffer, rxEnabled, pending, main, overrun, early, nulled, lost, cut,
                 stray>>

(***************************************************************************)
(* A slip: the terminator is stored after the line and the null after it.  *)
(***************************************************************************)
EndCellLate(i) == i

(***************************************************************************)
(* A terminator is stored like a letter and then replaced by a null, which *)
(* lands on the last letter of a full buffer.                              *)
(***************************************************************************)
EndCell(i) == i - 1

ReceiveTerminator ==
  /\ rxEnabled
  /\ \E end \in {IF HasRoom THEN recvBuffer_i + 1 ELSE recvBuffer_i} :
       /\ recvBuffer' =
            [k \in Cells |->
               IF k = EndCell(end) THEN NUL
               ELSE IF HasRoom /\ k = recvBuffer_i THEN TERMINATOR ELSE recvBuffer[k]]
       /\ recvBuffer_i' = end % UINT8
       /\ stray' = (stray \/ EndCell(end) \notin Cells)
  /\ rxEnabled' = FALSE
  /\ Queue!Request(<<CommandCall>>)
  /\ lost' = (Len(pending) = CallCapacity)
  /\ early' = (early \/ main \in {"boot", "setup"})
  /\ UNCHANGED <<main, line, overrun, nulled, cut>>

(***************************************************************************)
(* The timer interrupt finds a task due.                                   *)
(***************************************************************************)
Tick ==
  /\ main # "boot"
  /\ Queue!Request(<<TaskCall>>)
  /\ UNCHANGED <<bufferVars, rxEnabled, main, early, lost, cut>>

-----------------------------------------------------------------------------

(***************************************************************************)
(* Calls still to be served: the first one is being served, unless it was  *)
(* cut.                                                                    *)
(***************************************************************************)
Serving == main \in {"command", "task", "served"}

Unserved == {k \in DOMAIN pending : k = 1 => cut \/ ~Serving}

ShellCalls == {k \in Unserved : pending[k] = CommandCall}

(***************************************************************************)
(* The queue loses its first call or all of them, and maybe a command's.   *)
(***************************************************************************)
RemoveFirst ==
  /\ IF pending = <<>> THEN UNCHANGED pending ELSE Queue!Serve
  /\ lost' = (lost \/ (~rxEnabled /\ 1 \in ShellCalls))

RemoveAll ==
  /\ Queue!Clear
  /\ lost' = (lost \/ (~rxEnabled /\ ShellCalls # {}))

(***************************************************************************)
(* The main program: kernelv1_init clears the queue, while characters may  *)
(* already come in; cli_init ends by enabling the receive interrupt.       *)
(***************************************************************************)
KernelInit ==
  /\ main = "boot"
  /\ main' = "setup"
  /\ RemoveAll
  /\ UNCHANGED <<bufferVars, rxEnabled, early, cut>>

CliSetup ==
  /\ main = "setup"
  /\ main' = "poll"
  /\ rxEnabled' = TRUE
  /\ lost' = FALSE
  /\ UNCHANGED <<bufferVars, pending, early, cut>>

(***************************************************************************)
(* taskManager calls the first call of the queue.                          *)
(***************************************************************************)
Dispatch ==
  /\ main = "poll"
  /\ pending # <<>>
  /\ main' = IF Head(pending) = CommandCall THEN "command" ELSE "task"
  /\ cut' = FALSE
  /\ UNCHANGED <<bufferVars, rxEnabled, pending, early, lost>>

(***************************************************************************)
(* What it calls may cut the queue, any number of times, before it returns.*)
(***************************************************************************)
Cut ==
  /\ main \in {"command", "task"}
  /\ RemoveFirst \/ RemoveAll
  /\ cut' = TRUE
  /\ UNCHANGED <<bufferVars, rxEnabled, main, early>>

TaskReturns ==
  /\ main = "task"
  /\ main' = "served"
  /\ UNCHANGED <<bufferVars, rxEnabled, pending, early, lost, cut>>

(***************************************************************************)
(* A slip: the interrupt is not enabled again.                             *)
(***************************************************************************)
ClearRecvBufferDeaf ==
  /\ recvBuffer' = EmptyBuffer
  /\ recvBuffer_i' = 0
  /\ UNCHANGED rxEnabled

ClearRecvBuffer ==
  /\ recvBuffer' = EmptyBuffer
  /\ recvBuffer_i' = 0
  /\ rxEnabled' = TRUE

(***************************************************************************)
(* processCommand, whether it finds the command or not, clears the buffer. *)
(***************************************************************************)
ProcessCommand ==
  /\ main = "command"
  /\ main' = "served"
  /\ ClearRecvBuffer
  /\ line' = <<>>
  /\ overrun' = FALSE
  /\ lost' = FALSE
  /\ UNCHANGED <<pending, early, nulled, cut, stray>>

Drop ==
  /\ main = "served"
  /\ main' = "poll"
  /\ RemoveFirst
  /\ cut' = FALSE
  /\ UNCHANGED <<bufferVars, rxEnabled, early>>

MainStep ==
  KernelInit \/ CliSetup \/ Dispatch \/ TaskReturns \/ ProcessCommand \/ Drop

CliNext ==
  \/ \E data \in Letter \cup {NUL} : ReceiveLetter(data)
  \/ ReceiveBackspace
  \/ ReceiveTerminator
  \/ Tick
  \/ Cut
  \/ MainStep

(***************************************************************************)
(* The main program goes on: tasks and commands return.                    *)
(***************************************************************************)
CliSpec == CliInit /\ [][CliNext]_cliVars /\ WF_cliVars(MainStep)

-----------------------------------------------------------------------------

(***************************************************************************)
(* Two things corrupt the buffer: a line that ends before cli_init is done *)
(* is still to be run when cli_init enables the interrupt; and after a     *)
(* null character the buffer seems empty however much is written to it.    *)
(***************************************************************************)
Undisturbed == ~early /\ ~nulled

(***************************************************************************)
(* Types; the index goes at most one past the buffer.                      *)
(***************************************************************************)
CliTypeOK ==
  /\ recvBuffer \in [Cells -> Letter \cup {TERMINATOR, NUL}]
  /\ recvBuffer_i \in 0 .. UINT8 - 1
  /\ Undisturbed => recvBuffer_i <= RX0_BUFFER_SIZE
  /\ rxEnabled \in BOOLEAN
  /\ pending \in Seq({CommandCall, TaskCall}) /\ Len(pending) <= CallCapacity
  /\ main \in {"boot", "setup", "poll", "command", "task", "served"}
  /\ {overrun, early, nulled, lost, cut, stray} \subseteq BOOLEAN

(***************************************************************************)
(* While the receive interrupt is disabled a command waits to be run or    *)
(* its request is gone: the queue was full (kernel.c:77, the ISR ignores   *)
(* the exit code), or a task, or the command served before, cut the queue  *)
(* (kernel.c:116 and kernel.c:187).  Then the shell stays deaf, and no     *)
(* other way leads there.  Unless a line ended too early only one of the   *)
(* three is true at a time: no character reaches the buffer between the    *)
(* terminator and processCommand's last use of it.                         *)
(***************************************************************************)
CommandWaits == main = "command" \/ ShellCalls # {}

DeafWhileCommandWaits ==
  /\ rxEnabled \/ CommandWaits \/ lost
  /\ ~early => /\ ~(rxEnabled /\ CommandWaits)
               /\ ~(rxEnabled /\ lost)
               /\ ~(CommandWaits /\ lost)

(***************************************************************************)
(* The command task reads the line that was typed and edited, as long as   *)
(* it did not fill the buffer, although a backspace leaves characters in   *)
(* the buffer and the next line comes as soon as this one is cleared.      *)
(***************************************************************************)
CommandIsLine == Undisturbed /\ main = "command" /\ ~overrun => Command = line

(***************************************************************************)
(* The interrupt writes into the buffer only, however long the line and    *)
(* wherever its backspaces are.                                            *)
(***************************************************************************)
StaysInBuffer == Undisturbed => ~stray

(***************************************************************************)
(* After each line the shell listens again, unless the request to run it   *)
(* is gone: calls of other tasks delay it, and do not keep it deaf.        *)
(***************************************************************************)
ListensAgain == ~rxEnabled ~> (rxEnabled \/ lost)
=============================================================================
