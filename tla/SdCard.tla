------------------------------- MODULE SdCard -------------------------------
(***************************************************************************)
(* The logger on the SD card (src/kernel-v1/sdcard.c): characters collect  *)
(* in sd_buffer0, and in sd_buffer1 while the log cannot be opened; a full *)
(* sd_buffer0 is written to /debug.log as one block.  The results of       *)
(* pf_lseek and pf_write are ignored.  Petit FatFs (src/pff3a/pff.c) is    *)
(* modelled as far as one block goes: it may fail before, in the middle of *)
(* or after sending it, and it never makes a file longer.  The program may *)
(* flush by itself (kernel.h:93), full or not: the block then ends in what *)
(* sd_buffer0 held before.                                                 *)
(*                                                                         *)
(* accepted, first, ends, early, source and unopened only record.  The log *)
(* has a whole number of blocks, and its characters are not null (sd_puts  *)
(* passes none).                                                           *)
(***************************************************************************)
EXTENDS Integers, Sequences

CONSTANTS
  Char,           \* characters of the log
  NUL,
  Buffer0Size,    \* cells of sd_buffer0, and of a block (512)
  Buffer1Size,    \* cells of sd_buffer1 (256)
  LogBlocks,      \* blocks of /debug.log, which was made on another computer
  DWORD,          \* number of values of a 32-bit word
  StoredPointer,  \* what the four bytes of sd_ptr_e read may hold
  Blank,          \* a block as it was before
  Torn,           \* a block whose writing was broken off
  AcceptBound,    \* characters accepted between two restarts, at most
  FlushBound,     \* the program flushes only while fewer blocks were sent
  PointerBound    \* sd_readPtr is called only while sd_pointer is below it

VARIABLES
  sd_buffer0,
  sd_buffer1,
  sd_index,
  sd_pointer,
  inPuts,         \* sd_puts is in progress
  log,            \* block of /debug.log -> what it holds
  accepted,       \* characters stored since first was set
  first,          \* sd_pointer after the restart, or after sd_readPtr
  ends,           \* characters sent up to each flush since first was set
  early,          \* the flushes among them the program called itself
  source,         \* block -> the flush that last wrote it, 0 when none did
  unopened        \* the log could not be opened when last tried

buffers == <<sd_buffer0, sd_buffer1, sd_index>>
sdVars == <<buffers, sd_pointer, inPuts, log, accepted, first, ends, early, source,
            unopened>>

Cells0 == 0 .. Buffer0Size - 1
Cells1 == 0 .. Buffer1Size - 1
Limit  == Buffer0Size + Buffer1Size - 1
Blocks == 0 .. LogBlocks - 1

ASSUME SdCardAssumption ==
  /\ Buffer0Size \in Nat /\ DWORD \in Nat \ {0} /\ Buffer1Size \in Nat \ {0}
  /\ Buffer1Size <= Buffer0Size
  /\ LogBlocks \in Nat
  /\ StoredPointer \subseteq Nat
  /\ NUL \notin Char
  /\ {AcceptBound, FlushBound, PointerBound} \subseteq Nat

(***************************************************************************)
(* strlen of sd_buffer1.                                                   *)
(***************************************************************************)
StrLen(b1) == CHOOSE n \in Cells1 \cup {Buffer1Size} :
                /\ \A k \in 0 .. n - 1 : b1[k] # NUL
                /\ n \in Cells1 => b1[n] = NUL

-----------------------------------------------------------------------------

(***************************************************************************)
(* Power-up: all variables are zero, the log is as it was.                 *)
(***************************************************************************)
Empty(cells) == [k \in cells |-> NUL]

Nothing == [p \in Blocks |-> 0]

SdInit ==
  /\ sd_buffer0 = Empty(Cells0) /\ sd_buffer1 = Empty(Cells1) /\ sd_index = 0
  /\ sd_pointer = 0
  /\ inPuts = FALSE
  /\ log = [p \in Blocks |-> Blank]
  /\ accepted = <<>> /\ first = 0
  /\ ends = <<>> /\ early = {} /\ source = Nothing
  /\ unopened = FALSE

(***************************************************************************)
(* The buffers and the index after a step that writes no block.            *)
(***************************************************************************)
Hold(b0, b1, n) ==
  /\ sd_buffer0' = b0
  /\ sd_buffer1' = b1
  /\ sd_index' = n

Restart ==
  /\ Hold(Empty(Cells0), Empty(Cells1), 0)
  /\ sd_pointer' = 0
  /\ inPuts' = FALSE
  /\ accepted' = <<>> /\ first' = 0
  /\ ends' = <<>> /\ early' = {} /\ source' = Nothing
  /\ unopened' = FALSE
  /\ UNCHANGED log

(***************************************************************************)
(* pf_open fails, and the characters stay where they are.                  *)
(***************************************************************************)
CannotOpen(b0, b1, n) ==
  /\ unopened' = TRUE
  /\ Hold(b0, b1, n)
  /\ UNCHANGED <<sd_pointer, log, ends, source>>

(***************************************************************************)
(* pf_lseek takes the low 32 bits of sd_pointer and clips them to the end  *)
(* of the log, where nothing can be written.                               *)
(***************************************************************************)
InLog(position) == position < LogBlocks * Buffer0Size

StartsBlock(position) == \E p \in Blocks : p * Buffer0Size = position

(***************************************************************************)
(* The block written at a position: in the middle of a block pf_lseek and  *)
(* pf_write do not agree on the sector, and any may be hit (sector 0 at    *)
(* the start of the file, the next one or the first of the next cluster    *)
(* after it, one past the cluster at its end).                             *)
(***************************************************************************)
Hits(position, p) ==
  \/ StartsBlock(position) /\ p * Buffer0Size = position
  \/ InLog(position) /\ ~StartsBlock(position)

(***************************************************************************)
(* pf_write sends the block, breaks off in the middle of it, or writes     *)
(* nothing of the log: at its end, elsewhere, or because it or pf_lseek    *)
(* failed.                                                                 *)
(***************************************************************************)
WriteBlock(block) ==
  \/ \E p \in Blocks :
       /\ Hits(sd_pointer % DWORD, p)
       /\ \/ /\ log' = [log EXCEPT ![p] = block]
             /\ source' = [source EXCEPT ![p] = Len(ends) + 1]
          \/ /\ log' = [log EXCEPT ![p] = Torn]
             /\ source' = [source EXCEPT ![p] = 0]
  \/ UNCHANGED <<log, source>>

(***************************************************************************)
(* Characters sent up to flush i, and with those of the first buffer.      *)
(***************************************************************************)
EndOf(i) == IF i = 0 THEN 0 ELSE ends[i]

EndWith(n) == EndOf(Len(ends)) + (IF n < Buffer0Size THEN n ELSE Buffer0Size)

(***************************************************************************)
(* A slip: the characters of sd_buffer1 are forgotten.                     *)
(***************************************************************************)
FlushForgets(b0, b1, n) ==
  \/ CannotOpen(b0, b1, n)
  \/ /\ unopened' = FALSE
     /\ WriteBlock(b0)
     /\ sd_index' = 0
     /\ sd_buffer0' = b0
     /\ sd_buffer1' = [b1 EXCEPT ![0] = NUL]
     /\ sd_pointer' = sd_pointer + Buffer0Size
     /\ ends' = Append(ends, EndWith(n))

(***************************************************************************)
(* sd_flush with the buffers b0 and b1 and n characters in them: when the  *)
(* log can be opened, the whole of sd_buffer0 is written and sd_buffer1    *)
(* copied into it.                                                         *)
(***************************************************************************)
Flush(b0, b1, n) ==
  \/ CannotOpen(b0, b1, n)
  \/ /\ unopened' = FALSE
     /\ WriteBlock(b0)
     /\ sd_index' = StrLen(b1)
     /\ sd_buffer0' = [k \in Cells0 |-> IF k < StrLen(b1) THEN b1[k]
                                        ELSE IF k = StrLen(b1) THEN NUL ELSE b0[k]]
     /\ sd_buffer1' = [b1 EXCEPT ![0] = NUL]
     /\ sd_pointer' = sd_pointer + Buffer0Size
     /\ ends' = Append(ends, EndWith(n))

FlushIfFull(b0, b1, n) ==
  IF n >= Buffer0Size THEN Flush(b0, b1, n)
  ELSE /\ Hold(b0, b1, n)
       /\ UNCHANGED <<sd_pointer, log, ends, source, unopened>>

(***************************************************************************)
(* A slip: the last cell of sd_buffer1 is used, and the null character     *)
(* after it goes past its end.                                             *)
(***************************************************************************)
FitsLast(n) == n \in Buffer0Size .. Limit

(***************************************************************************)
(* sd_buffer1 takes a character, and keeps a cell for a null one.          *)
(***************************************************************************)
FitsSecond(n) == n \in Buffer0Size .. Limit - 1

SdPutc(data) ==
  /\ Len(accepted) < AcceptBound
  /\ \/ /\ sd_index < Buffer0Size
        /\ FlushIfFull([sd_buffer0 EXCEPT ![sd_index] = data], sd_buffer1, sd_index + 1)
        /\ accepted' = Append(accepted, data)
     \/ /\ FitsSecond(sd_index)
        /\ FlushIfFull(sd_buffer0,
                       [sd_buffer1 EXCEPT ![sd_index - Buffer0Size] = data,
                                          ![sd_index - Buffer0Size + 1] = NUL],
                       sd_index + 1)
        /\ accepted' = Append(accepted, data)
     \/ /\ sd_index >= Buffer0Size /\ ~FitsSecond(sd_index)
        /\ Flush(sd_buffer0, sd_buffer1, sd_index)
        /\ UNCHANGED accepted
  /\ UNCHANGED <<inPuts, first, early>>

(***************************************************************************)
(* sd_puts puts its characters one by one and flushes once more.           *)
(***************************************************************************)
BeginPuts ==
  /\ ~inPuts
  /\ inPuts' = TRUE
  /\ UNCHANGED <<buffers, sd_pointer, log, accepted, first, ends, early, source, unopened>>

EndPuts ==
  /\ inPuts
  /\ inPuts' = FALSE
  /\ FlushIfFull(sd_buffer0, sd_buffer1, sd_index)
  /\ UNCHANGED <<accepted, first, early>>

(***************************************************************************)
(* The program calls sd_flush, however many characters wait.               *)
(***************************************************************************)
FlushDirectly ==
  /\ ~inPuts
  /\ Len(ends) < FlushBound
  /\ Flush(sd_buffer0, sd_buffer1, sd_index)
  /\ early' = IF unopened' THEN early ELSE early \cup {Len(ends) + 1}
  /\ UNCHANGED <<inPuts, accepted, first>>

(***************************************************************************)
(* Characters waiting in the buffers.                                      *)
(***************************************************************************)
Waiting ==
  [k \in 1 .. sd_index |->
     IF k <= Buffer0Size THEN sd_buffer0[k - 1] ELSE sd_buffer1[k - 1 - Buffer0Size]]

(***************************************************************************)
(* sd_readPtr reads four bytes of the eight: the upper ones stay.          *)
(***************************************************************************)
SdReadPtr ==
  /\ ~inPuts
  /\ sd_pointer < PointerBound
  /\ \E stored \in StoredPointer :
       sd_pointer' = (sd_pointer \div DWORD) * DWORD + stored
  /\ first' = sd_pointer'
  /\ accepted' = Waiting
  /\ ends' = <<>> /\ early' = {} /\ source' = Nothing
  /\ UNCHANGED <<buffers, inPuts, log, unopened>>

SdNext ==
  \/ \E data \in Char : SdPutc(data)
  \/ BeginPuts
  \/ EndPuts
  \/ FlushDirectly
  \/ SdReadPtr
  \/ Restart

SdSpec == SdInit /\ [][SdNext]_sdVars

-----------------------------------------------------------------------------

(***************************************************************************)
(* The buffers are indexed within their cells, and sd_buffer1 is always    *)
(* the string strlen and sprintf take it for.                              *)
(***************************************************************************)
SdTypeOK ==
  /\ sd_buffer0 \in [Cells0 -> Char \cup {NUL}]
  /\ sd_buffer1 \in [Cells1 -> Char \cup {NUL}]
  /\ \E k \in Cells1 : sd_buffer1[k] = NUL
  /\ sd_index \in 0 .. Limit
  /\ sd_pointer \in Nat /\ first \in Nat
  /\ sd_pointer = first + Len(ends) * Buffer0Size
  /\ accepted \in Seq(Char)
  /\ {inPuts, unopened} \subseteq BOOLEAN

(***************************************************************************)
(* Nothing is lost, doubled or put out of order on the way through the two *)
(* buffers, whatever failed (a failed write leaves a gap and shifts        *)
(* nothing, sdcard.c:89-96): a block of the log begins with the characters *)
(* accepted between the flush that wrote it and the one before; it holds   *)
(* nothing else unless the program flushed by itself (sdcard.c:81); it     *)
(* lies where its flush belongs, if that is the start of a block; and the  *)
(* characters after the last flush wait in the buffers.                    *)
(***************************************************************************)
Position(i) == (first + (i - 1) * Buffer0Size) % DWORD

LogInOrder ==
  /\ \A p \in Blocks : source[p] # 0 =>
       LET i == source[p]
       IN  /\ \A k \in 1 .. EndOf(i) - EndOf(i - 1) :
                log[p][k - 1] = accepted[EndOf(i - 1) + k]
           /\ i \notin early => EndOf(i) = EndOf(i - 1) + Buffer0Size
           /\ StartsBlock(Position(i)) => p * Buffer0Size = Position(i)
  /\ Waiting = SubSeq(accepted, EndOf(Len(ends)) + 1, Len(accepted))
=============================================================================
