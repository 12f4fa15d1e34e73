----------------------------- MODULE CliProofs -----------------------------
(***************************************************************************)
(* The command task reads the line that was typed, and the receive         *)
(* interrupt writes into its buffer only, for every size of the buffer and *)
(* of the call queue.                                                      *)
(***************************************************************************)
EXTENDS Cli, SequenceTheorems, TLAPS

Character == Letter \cup {TERMINATOR, NUL}

CliTyped ==
  /\ recvBuffer \in [Cells -> Character]
  /\ recvBuffer_i \in 0 .. UINT8 - 1
  /\ rxEnabled \in BOOLEAN
  /\ pending \in Seq({CommandCall, TaskCall}) /\ Len(pending) <= CallCapacity
  /\ main \in {"boot", "setup", "poll", "command", "task", "served"}
  /\ line \in Seq(Character) /\ Len(line) <= RX0_BUFFER_SIZE
  /\ {overrun, early, nulled, lost, cut, stray} \subseteq BOOLEAN

(***************************************************************************)
(* Unless a line ended too early the shell has one call, waiting, being    *)
(* served or gone, while its interrupt is disabled, and none otherwise.    *)
(***************************************************************************)
OneShellCall ==
  /\ \A k, l \in ShellCalls : k = l
  /\ main = "command" => ShellCalls = {}
  /\ rxEnabled => ShellCalls = {} /\ main # "command" /\ ~lost
  /\ lost => ShellCalls = {} /\ main # "command"
  /\ main \in {"boot", "setup"} => rxEnabled

CallsInv ==
  /\ Serving /\ ~cut => pending # <<>>
  /\ rxEnabled \/ CommandWaits \/ lost
  /\ ~early => OneShellCall

(***************************************************************************)
(* The first n cells hold the line and no null.                            *)
(***************************************************************************)
HoldsLine(n) ==
  /\ \A k \in Cells : k < n => recvBuffer[k] # NUL
  /\ ~overrun => Len(line) = n /\ \A k \in 1 .. n : line[k] = recvBuffer[k - 1]

(***************************************************************************)
(* While the line is typed: backspaces leave characters after the index,   *)
(* but no null between them, so the buffer is full only when the index is  *)
(* at its end.                                                             *)
(***************************************************************************)
Typing ==
  /\ recvBuffer_i \in 0 .. RX0_BUFFER_SIZE
  /\ HoldsLine(recvBuffer_i)
  /\ ~overrun => recvBuffer_i < RX0_BUFFER_SIZE
  /\ \A k, l \in Cells : k < l /\ recvBuffer[k] = NUL => recvBuffer[l] = NUL
  /\ ~HasRoom => recvBuffer_i = RX0_BUFFER_SIZE

(***************************************************************************)
(* While its command waits: the line, and the null that ends it.           *)
(***************************************************************************)
Ended ==
  /\ recvBuffer_i \in 1 .. RX0_BUFFER_SIZE
  /\ HoldsLine(recvBuffer_i - 1)
  /\ recvBuffer[recvBuffer_i - 1] = NUL

BufferInv ==
  Undisturbed =>
    /\ ~stray
    /\ rxEnabled => Typing
    /\ ~rxEnabled => Ended

CliInv == CliTyped /\ CallsInv /\ BufferInv

-----------------------------------------------------------------------------

Calls == {CommandCall, TaskCall}

(***************************************************************************)
(* The queue takes one more call unless it is full.                        *)
(***************************************************************************)
LEMMA RequestOne ==
  ASSUME pending \in Seq(Calls), Len(pending) <= CallCapacity, NEW call \in Calls,
         Queue!Request(<<call>>)
  PROVE  /\ pending' \in Seq(Calls) /\ Len(pending') <= CallCapacity
         /\ Len(pending) \in Nat
         /\ \A k \in 1 .. Len(pending) : pending'[k] = pending[k]
         /\ Len(pending) = CallCapacity => Len(pending') = Len(pending)
         /\ Len(pending) # CallCapacity =>
              Len(pending') = Len(pending) + 1 /\ pending'[Len(pending) + 1] = call
<1>1. Len(pending) \in Nat /\ CallCapacity \in Nat
  BY LenProperties, CliAssumption
<1>2. <<call>> \in Seq(Calls) /\ Len(<<call>>) = 1 /\ <<call>>[1] = call
  OBVIOUS
<1>3. CASE Len(pending) = CallCapacity
  <2>1. Queue!Room = 0
    BY <1>1, <1>3 DEF Queue!Room
  <2>2. SubSeq(<<call>>, 1, 0) = <<>>
    BY SubSeqEmpty
  <2>3. pending' = pending \o <<>>
    BY <1>2, <2>1, <2>2 DEF Queue!Request
  <2>4. pending' = pending
    BY <2>3, ConcatEmptySeq
  <2> QED
    BY <1>1, <1>3, <2>4
<1>4. CASE Len(pending) # CallCapacity
  <2>1. pending' = pending \o <<call>>
    BY <1>1, <1>2, <1>4 DEF Queue!Request, Queue!Room
  <2>2. /\ pending' \in Seq(Calls)
        /\ Len(pending') = Len(pending) + 1
        /\ \A k \in 1 .. Len(pending) + 1 :
             pending'[k] = IF k <= Len(pending) THEN pending[k] ELSE <<call>>[k - Len(pending)]
    BY <1>2, <2>1, ConcatProperties
  <2> QED
    BY <1>1, <1>2, <1>4, <2>2
<1> QED
  BY <1>3, <1>4

(***************************************************************************)
(* The buffer has room exactly while it has a null cell.                   *)
(***************************************************************************)
LEMMA RoomIsNull ==
  HasRoom <=> \E k \in Cells : recvBuffer[k] = NUL
<1> USE CliAssumption DEF HasRoom, Filled, Cells
<1>1. ASSUME NEW k \in Cells, recvBuffer[k] = NUL PROVE HasRoom
  BY <1>1
<1>2. ASSUME \A k \in Cells : recvBuffer[k] # NUL PROVE ~HasRoom
  BY <1>2
<1> QED
  BY <1>1, <1>2

(***************************************************************************)
(* What a key does to the line that is remembered.                         *)
(***************************************************************************)
LEMMA LineAppended ==
  ASSUME line \in Seq(Character), Len(line) <= RX0_BUFFER_SIZE, NEW data \in Character,
         line' = IF Len(line) < RX0_BUFFER_SIZE THEN Append(line, data) ELSE line
  PROVE  /\ line' \in Seq(Character) /\ Len(line') <= RX0_BUFFER_SIZE /\ Len(line) \in Nat
         /\ Len(line') # RX0_BUFFER_SIZE =>
              /\ Len(line') = Len(line) + 1
              /\ line'[Len(line) + 1] = data
              /\ \A k \in 1 .. Len(line) : line'[k] = line[k]
<1>1. Len(line) \in Nat /\ RX0_BUFFER_SIZE \in Nat
  BY LenProperties, CliAssumption
<1> QED
  BY <1>1, AppendProperties

LEMMA LineShortened ==
  ASSUME line \in Seq(Character), Len(line) <= RX0_BUFFER_SIZE,
         line' = IF line = <<>> THEN line ELSE SubSeq(line, 1, Len(line) - 1)
  PROVE  /\ line' \in Seq(Character) /\ Len(line') <= RX0_BUFFER_SIZE /\ Len(line) \in Nat
         /\ Len(line') = IF Len(line) = 0 THEN 0 ELSE Len(line) - 1
         /\ \A k \in 1 .. Len(line') : line'[k] = line[k]
<1>1. Len(line) \in Nat /\ (line = <<>> <=> Len(line) = 0) /\ RX0_BUFFER_SIZE \in Nat
  BY EmptySeq, LenProperties, CliAssumption
<1>2. CASE line = <<>>
  BY <1>1, <1>2
<1>3. CASE line # <<>>
  <2> DEFINE n == Len(line) - 1
  <2>1. n \in Nat /\ 1 \in Int /\ n \in Int
    BY <1>1, <1>3
  <2>2. \A i \in 1 .. n : line[i] \in Character
    BY <1>1, ElementOfSeq
  <2>3. line' = SubSeq(line, 1, n)
    BY <1>3
  <2> HIDE DEF n
  <2>4. /\ line' \in Seq(Character)
        /\ Len(line') = IF 1 <= n THEN n - 1 + 1 ELSE 0
        /\ \A i \in 1 .. n - 1 + 1 : line'[i] = line[1 + i - 1]
    BY <2>1, <2>2, <2>3, SubSeqProperties
  <2>5. Len(line') = n /\ \A i \in 1 .. n : line'[i] = line[i]
    BY <2>1, <2>4
  <2> QED
    BY <1>1, <1>3, <2>4, <2>5 DEF n
<1> QED
  BY <1>2, <1>3

-----------------------------------------------------------------------------

LEMMA Empties ==
  /\ EmptyBuffer \in [Cells -> Character]
  /\ 0 \in 0 .. UINT8 - 1 /\ 0 \in 0 .. RX0_BUFFER_SIZE
  /\ <<>> \in Seq(Character) /\ <<>> \in Seq(Calls) /\ Len(<<>>) = 0
  /\ RX0_BUFFER_SIZE \in Nat \ {0, 1} /\ CallCapacity \in Nat \ {0}
<1>1. EmptyBuffer \in [Cells -> Character]
  BY DEF EmptyBuffer, Character
<1> QED
  BY <1>1, CliAssumption

LEMMA CliTypedInitially == CliInit => CliTyped
<1> SUFFICES ASSUME CliInit PROVE CliTyped
  OBVIOUS
<1>1. {overrun, early, nulled, lost, cut, stray} \subseteq BOOLEAN /\ rxEnabled \in BOOLEAN
  BY DEF CliInit
<1> QED
  BY <1>1, Empties DEF CliInit, CliTyped, Calls

LEMMA CliTypedInductive == CliTyped /\ [CliNext]_cliVars => CliTyped'
<1> SUFFICES ASSUME CliTyped, [CliNext]_cliVars PROVE CliTyped'
  OBVIOUS
<1> USE CliAssumption DEF CliTyped
<1>1. ASSUME NEW data \in Letter \cup {NUL}, ReceiveLetter(data)
      PROVE  CliTyped'
  <2>1. data \in Character
    BY DEF Character
  <2>2. line' \in Seq(Character) /\ Len(line') <= RX0_BUFFER_SIZE
    BY <1>1, <2>1, LineAppended DEF ReceiveLetter
  <2>3. recvBuffer' \in [Cells -> Character]
    BY <1>1, <2>1 DEF ReceiveLetter
  <2>4. recvBuffer_i' \in 0 .. UINT8 - 1
    BY <1>1 DEF ReceiveLetter
  <2>5. {overrun, early, nulled, lost, cut, stray}' \subseteq BOOLEAN
    BY <1>1 DEF ReceiveLetter
  <2> QED
    BY <1>1, <2>2, <2>3, <2>4, <2>5 DEF ReceiveLetter
<1>2. CASE ReceiveBackspace
  <2>1. line' \in Seq(Character) /\ Len(line') <= RX0_BUFFER_SIZE
    BY <1>2, LineShortened DEF ReceiveBackspace
  <2>2. recvBuffer_i' \in 0 .. UINT8 - 1
    BY <1>2 DEF ReceiveBackspace
  <2> QED
    BY <1>2, <2>1, <2>2 DEF ReceiveBackspace
<1>3. CASE ReceiveTerminator
  <2>1. PICK end \in {IF HasRoom THEN recvBuffer_i + 1 ELSE recvBuffer_i} :
          /\ recvBuffer' =
               [k \in Cells |->
                  IF k = EndCell(end) THEN NUL
                  ELSE IF HasRoom /\ k = recvBuffer_i THEN TERMINATOR ELSE recvBuffer[k]]
          /\ recvBuffer_i' = end % UINT8
          /\ stray' = (stray \/ EndCell(end) \notin Cells)
    BY <1>3 DEF ReceiveTerminator
  <2>2. recvBuffer' \in [Cells -> Character]
    BY <2>1 DEF Character
  <2>3. recvBuffer_i' \in 0 .. UINT8 - 1
    BY <2>1
  <2>4. pending' \in Seq(Calls) /\ Len(pending') <= CallCapacity
    BY <1>3, RequestOne DEF ReceiveTerminator, Calls
  <2>5. {overrun, early, nulled, lost, cut, stray}' \subseteq BOOLEAN
    BY <1>3, <2>1 DEF ReceiveTerminator
  <2> QED
    BY <1>3, <2>2, <2>3, <2>4, <2>5 DEF ReceiveTerminator, Calls
<1>4. CASE Tick
  <2>1. pending' \in Seq(Calls) /\ Len(pending') <= CallCapacity
    BY <1>4, RequestOne DEF Tick, Calls
  <2> QED
    BY <1>4, <2>1 DEF Tick, Calls, bufferVars
<1>5. ASSUME RemoveFirst \/ RemoveAll
      PROVE  pending' \in Seq(Calls) /\ Len(pending') <= CallCapacity /\ lost' \in BOOLEAN
  <2>1. lost' \in BOOLEAN
    BY <1>5 DEF RemoveFirst, RemoveAll
  <2>2. CASE pending' = pending
    BY <2>1, <2>2 DEF Calls
  <2>3. CASE pending' = <<>>
    BY <2>1, <2>3, Empties
  <2>4. CASE pending # <<>> /\ pending' = Tail(pending)
    <3>1. pending' \in Seq(Calls) /\ Len(pending') = Len(pending) - 1 /\ Len(pending) \in Nat
      BY <2>4, HeadTailProperties, LenProperties DEF Calls
    <3> QED
      BY <2>1, <3>1
  <2> QED
    BY <1>5, <2>2, <2>3, <2>4 DEF RemoveFirst, RemoveAll, Queue!Serve, Queue!Clear
<1>6. CASE CliSetup \/ Dispatch \/ TaskReturns
  <2>1. {overrun, early, nulled, lost, cut, stray}' \subseteq BOOLEAN /\ rxEnabled' \in BOOLEAN
    BY <1>6 DEF CliSetup, Dispatch, TaskReturns, bufferVars
  <2> QED
    BY <1>6, <2>1 DEF CliSetup, Dispatch, TaskReturns, bufferVars
<1>7. CASE ProcessCommand
  <2>1. {overrun, early, nulled, lost, cut, stray}' \subseteq BOOLEAN /\ rxEnabled' \in BOOLEAN
    BY <1>7 DEF ProcessCommand, ClearRecvBuffer
  <2> QED
    BY <1>7, <2>1, Empties DEF ProcessCommand, ClearRecvBuffer
<1>8. CASE KernelInit \/ Cut \/ Drop
  <2>1. pending' \in Seq(Calls) /\ Len(pending') <= CallCapacity /\ lost' \in BOOLEAN
    BY <1>5, <1>8 DEF KernelInit, Cut, Drop
  <2>2. {overrun, early, nulled, lost, cut, stray}' \subseteq BOOLEAN
    BY <1>8, <2>1 DEF KernelInit, Cut, Drop, bufferVars
  <2> QED
    BY <1>8, <2>1, <2>2 DEF KernelInit, Cut, Drop, Calls, bufferVars
<1>9. CASE UNCHANGED cliVars
  BY <1>9 DEF cliVars, bufferVars
<1> QED
  BY <1>1, <1>2, <1>3, <1>4, <1>6, <1>7, <1>8, <1>9 DEF CliNext, MainStep

-----------------------------------------------------------------------------

(***************************************************************************)
(* The shell's calls by their places in the queue.                         *)
(***************************************************************************)
IsShellCall(k) == pending[k] = CommandCall /\ (k = 1 => cut \/ ~Serving)

LEMMA PlacesOfShellCalls ==
  ASSUME CliTyped
  PROVE  /\ Len(pending) \in Nat /\ DOMAIN pending = 1 .. Len(pending)
         /\ pending # <<>> <=> Len(pending) # 0
         /\ ShellCalls = {k \in 1 .. Len(pending) : IsShellCall(k)}
<1>1. pending \in Seq(Calls)
  BY DEF CliTyped, Calls
<1>2. Len(pending) \in Nat /\ DOMAIN pending = 1 .. Len(pending)
  BY <1>1, LenProperties
<1>3. pending # <<>> <=> Len(pending) # 0
  BY <1>1, <1>2, EmptySeq
<1> QED
  BY <1>2, <1>3 DEF ShellCalls, Unserved, IsShellCall

LEMMA PlacesOfShellCallsPrime ==
  ASSUME CliTyped'
  PROVE  /\ Len(pending') \in Nat /\ DOMAIN pending' = 1 .. Len(pending')
         /\ pending' # <<>> <=> Len(pending') # 0
         /\ ShellCalls' = {k \in 1 .. Len(pending') : IsShellCall(k)'}
<1>1. pending' \in Seq(Calls)
  BY DEF CliTyped, Calls
<1>2. Len(pending') \in Nat /\ DOMAIN pending' = 1 .. Len(pending')
  BY <1>1, LenProperties
<1>3. pending' # <<>> <=> Len(pending') # 0
  BY <1>1, <1>2, EmptySeq
<1> QED
  BY <1>2, <1>3 DEF ShellCalls, Unserved, IsShellCall

(***************************************************************************)
(* A step that leaves the queue and who is served as they are.             *)
(***************************************************************************)
LEMMA SameCallsKeep ==
  ASSUME CallsInv,
         UNCHANGED <<pending, rxEnabled, early, lost, cut>>,
         \/ UNCHANGED main
         \/ main = "task" /\ main' = "served"
  PROVE  CallsInv'
<1>1. ShellCalls' = ShellCalls /\ (Serving' <=> Serving)
  BY DEF ShellCalls, Unserved, Serving
<1> QED
  BY <1>1 DEF CallsInv, OneShellCall, CommandWaits

(***************************************************************************)
(* The end of a line: its call is the last of the queue, or was refused.   *)
(***************************************************************************)
LEMMA TerminatorKeepsCalls ==
  ASSUME CliTyped, CliTyped', CallsInv, ReceiveTerminator
  PROVE  CallsInv'
<1>1. /\ rxEnabled /\ ~rxEnabled' /\ UNCHANGED <<main, cut>>
      /\ Queue!Request(<<CommandCall>>)
      /\ lost' = (Len(pending) = CallCapacity)
      /\ early' = (early \/ main \in {"boot", "setup"})
  BY DEF ReceiveTerminator
<1>2. /\ Len(pending) \in Nat
      /\ ShellCalls = {k \in 1 .. Len(pending) : IsShellCall(k)}
      /\ ShellCalls' = {k \in 1 .. Len(pending') : IsShellCall(k)'}
      /\ pending # <<>> <=> Len(pending) # 0
      /\ pending' # <<>> <=> Len(pending') # 0
  BY PlacesOfShellCalls, PlacesOfShellCallsPrime
<1>3. /\ \A k \in 1 .. Len(pending) : pending'[k] = pending[k]
      /\ Len(pending) = CallCapacity => Len(pending') = Len(pending)
      /\ Len(pending) # CallCapacity =>
           Len(pending') = Len(pending) + 1 /\ pending'[Len(pending) + 1] = CommandCall
  BY <1>1, RequestOne, CliAssumption DEF CliTyped, Calls
<1>4. Serving /\ ~cut => Len(pending) # 0
  BY <1>2 DEF CallsInv
<1>5. Serving' /\ ~cut' => pending' # <<>>
  BY <1>1, <1>2, <1>3, <1>4 DEF Serving
<1>6. \A k \in 1 .. Len(pending) : IsShellCall(k)' <=> k \in ShellCalls
  BY <1>1, <1>2, <1>3 DEF IsShellCall, Serving
<1>7. ASSUME ~lost' PROVE Len(pending) + 1 \in ShellCalls'
  <2>1. PICK n \in Nat : n = Len(pending) + 1
    BY <1>2
  <2>2. Len(pending') = n /\ pending'[n] = CommandCall
    BY <1>1, <1>3, <1>7, <2>1
  <2>3. n = 1 => cut' \/ ~Serving'
    BY <1>1, <1>2, <1>4, <2>1 DEF Serving
  <2>4. IsShellCall(n)'
    BY <2>2, <2>3 DEF IsShellCall
  <2>5. n \in 1 .. Len(pending')
    BY <1>2, <2>1, <2>2
  <2> QED
    BY <1>2, <2>1, <2>4, <2>5
<1>8. ASSUME ~early' PROVE OneShellCall'
  <2>1. ~early /\ main \notin {"boot", "setup"}
    BY <1>1, <1>8
  <2>2. ShellCalls = {} /\ main # "command"
    BY <1>1, <2>1 DEF CallsInv, OneShellCall
  <2>3. \A k \in ShellCalls' : k = Len(pending) + 1 /\ ~lost'
    <3>1. \A k \in 1 .. Len(pending) : ~IsShellCall(k)'
      BY <1>6, <2>2
    <3>2. \A k \in ShellCalls' : k \in 1 .. Len(pending') /\ IsShellCall(k)'
      BY <1>2
    <3>3. CASE lost'
      BY <1>1, <1>3, <3>1, <3>2, <3>3
    <3>4. CASE ~lost'
      <4>1. Len(pending') = Len(pending) + 1
        BY <1>1, <1>3, <3>4
      <4> QED
        BY <1>2, <3>1, <3>2, <3>4, <4>1
    <3> QED
      BY <3>3, <3>4
  <2> QED
    BY <1>1, <2>1, <2>2, <2>3 DEF OneShellCall
<1> QED
  BY <1>5, <1>7, <1>8 DEF CallsInv, CommandWaits

LEMMA TickKeepsCalls ==
  ASSUME CliTyped, CliTyped', CallsInv, Tick
  PROVE  CallsInv'
<1>1. UNCHANGED <<main, rxEnabled, early, lost, cut>> /\ Queue!Request(<<TaskCall>>)
  BY DEF Tick
<1>2. /\ Len(pending) \in Nat
      /\ ShellCalls = {k \in 1 .. Len(pending) : IsShellCall(k)}
      /\ ShellCalls' = {k \in 1 .. Len(pending') : IsShellCall(k)'}
      /\ pending # <<>> <=> Len(pending) # 0
      /\ pending' # <<>> <=> Len(pending') # 0
  BY PlacesOfShellCalls, PlacesOfShellCallsPrime
<1>3. /\ \A k \in 1 .. Len(pending) : pending'[k] = pending[k]
      /\ \/ Len(pending') = Len(pending)
         \/ Len(pending') = Len(pending) + 1 /\ pending'[Len(pending) + 1] = TaskCall
  BY <1>1, RequestOne, CliAssumption DEF CliTyped, Calls
<1>4. \A k \in 1 .. Len(pending) : IsShellCall(k)' <=> IsShellCall(k)
  BY <1>1, <1>3 DEF IsShellCall, Serving
<1>5. \A k \in 1 .. Len(pending') : k = Len(pending) + 1 => ~IsShellCall(k)'
  BY <1>2, <1>3, CliAssumption DEF IsShellCall
<1>6. \A k \in 1 .. Len(pending') :
        IsShellCall(k)' <=> k \in 1 .. Len(pending) /\ IsShellCall(k)
  BY <1>2, <1>3, <1>4, <1>5
<1>7. 1 .. Len(pending) \subseteq 1 .. Len(pending')
  BY <1>2, <1>3
<1>8. ShellCalls' = ShellCalls
  BY <1>2, <1>6, <1>7
<1>9. Serving' /\ ~cut' => pending' # <<>>
  BY <1>1, <1>2, <1>3 DEF CallsInv, Serving
<1> QED
  BY <1>1, <1>8, <1>9 DEF CallsInv, OneShellCall, CommandWaits

(***************************************************************************)
(* The first call leaves the queue and the others move up by one place.    *)
(***************************************************************************)
LEMMA FirstLeaves ==
  ASSUME CliTyped, CliTyped', RemoveFirst, cut' \/ ~Serving'
  PROVE  /\ \A k \in ShellCalls' : k + 1 \in ShellCalls
         /\ \A k \in ShellCalls : k # 1 => k - 1 \in ShellCalls'
         /\ ShellCalls' \subseteq Nat /\ ShellCalls \subseteq Nat
<1>1. /\ Len(pending) \in Nat
      /\ ShellCalls = {k \in 1 .. Len(pending) : IsShellCall(k)}
      /\ ShellCalls' = {k \in 1 .. Len(pending') : IsShellCall(k)'}
      /\ pending # <<>> <=> Len(pending) # 0
      /\ pending' # <<>> <=> Len(pending') # 0
  BY PlacesOfShellCalls, PlacesOfShellCallsPrime
<1>2. CASE pending = <<>>
  <2>1. pending' = <<>>
    BY <1>2 DEF RemoveFirst
  <2>2. Len(pending) = 0 /\ Len(pending') = 0
    BY <1>1, <1>2, <2>1
  <2> QED
    BY <1>1, <2>2
<1>3. CASE pending # <<>>
  <2>1. pending' = Tail(pending)
    BY <1>3 DEF RemoveFirst, Queue!Serve
  <2>2. /\ Len(pending') = Len(pending) - 1
        /\ \A k \in 1 .. Len(pending') : pending'[k] = pending[k + 1]
    BY <1>3, <2>1, HeadTailProperties DEF CliTyped
  <2>3. \A k \in 1 .. Len(pending') : IsShellCall(k)' <=> k + 1 \in ShellCalls
    BY <1>1, <2>2 DEF IsShellCall
  <2>4. ASSUME NEW k \in ShellCalls, k # 1 PROVE k - 1 \in ShellCalls'
    <3>1. k - 1 \in 1 .. Len(pending') /\ (k - 1) + 1 = k
      BY <1>1, <2>2, <2>4
    <3> QED
      BY <1>1, <2>3, <3>1
  <2> QED
    BY <1>1, <2>3, <2>4
<1> QED
  BY <1>2, <1>3

(***************************************************************************)
(* Whatever is taken out of the queue: a command's call that goes is lost. *)
(***************************************************************************)
LEMMA RemovalKeepsCalls ==
  ASSUME CliTyped, CliTyped', CallsInv, RemoveFirst \/ RemoveAll, cut' \/ ~Serving',
         UNCHANGED <<rxEnabled, early>>,
         main' = "command" <=> main = "command",
         main' \in {"boot", "setup"} => main \in {"boot", "setup"}
  PROVE  CallsInv'
<1>1. /\ \A k \in ShellCalls' : k + 1 \in ShellCalls
      /\ ShellCalls' # {} \/ lost' \/ rxEnabled \/ ShellCalls = {}
      /\ ShellCalls' \subseteq Nat /\ ShellCalls \subseteq Nat
      /\ lost' => lost \/ (~rxEnabled /\ ShellCalls # {})
      /\ lost => lost'
      /\ ShellCalls' = {} \/ ~lost' \/ lost \/ \E k \in ShellCalls' : 1 \in ShellCalls /\ k + 1 # 1
  <2>1. CASE RemoveFirst
    <3>1. /\ \A k \in ShellCalls' : k + 1 \in ShellCalls
          /\ \A k \in ShellCalls : k # 1 => k - 1 \in ShellCalls'
          /\ ShellCalls' \subseteq Nat /\ ShellCalls \subseteq Nat
      BY <2>1, FirstLeaves
    <3>2. lost' = (lost \/ (~rxEnabled /\ 1 \in ShellCalls))
      BY <2>1 DEF RemoveFirst
    <3>3. \A k \in ShellCalls' : 1 \in Nat /\ k \in Nat \ {0}
      BY <3>1, PlacesOfShellCallsPrime
    <3>4. \A k \in ShellCalls' : k + 1 # 1
      BY <3>3
    <3> QED
      BY <3>1, <3>2, <3>4
  <2>2. CASE RemoveAll
    <3>1. pending' = <<>> /\ lost' = (lost \/ (~rxEnabled /\ ShellCalls # {}))
      BY <2>2 DEF RemoveAll, Queue!Clear
    <3>2. ShellCalls' = {}
      BY <3>1 DEF ShellCalls, Unserved
    <3>3. ShellCalls \subseteq Nat
      BY PlacesOfShellCalls
    <3> QED
      BY <3>1, <3>2, <3>3
  <2> QED
    BY <2>1, <2>2
<1>2. rxEnabled' \/ CommandWaits' \/ lost'
  BY <1>1 DEF CallsInv, CommandWaits
<1>3. ASSUME ~early' PROVE OneShellCall'
  <2>1. OneShellCall
    BY <1>3 DEF CallsInv
  <2>2. \A k, l \in ShellCalls' : k = l
    BY <1>1, <2>1 DEF OneShellCall
  <2>3. ShellCalls = {} => ShellCalls' = {}
    BY <1>1
  <2>4. lost' => ShellCalls' = {} /\ main' # "command"
    BY <1>1, <2>1, <2>3 DEF OneShellCall
  <2> QED
    BY <1>1, <2>1, <2>2, <2>3, <2>4 DEF OneShellCall
<1> QED
  BY <1>2, <1>3 DEF CallsInv

(***************************************************************************)
(* taskManager reads the first call, and it is no longer unserved.         *)
(***************************************************************************)
LEMMA DispatchKeepsCalls ==
  ASSUME CliTyped, CliTyped', CallsInv, Dispatch
  PROVE  CallsInv'
<1>1. /\ main = "poll" /\ pending # <<>> /\ ~cut'
      /\ main' = IF pending[1] = CommandCall THEN "command" ELSE "task"
      /\ UNCHANGED <<rxEnabled, pending, early, lost>>
  BY HeadTailProperties DEF Dispatch, CliTyped
<1>2. Serving' /\ ~Serving
  BY <1>1 DEF Serving
<1>3. ShellCalls' = ShellCalls \ {1}
  BY <1>1, <1>2 DEF ShellCalls, Unserved
<1>4. 1 \in ShellCalls <=> main' = "command"
  <2>1. 1 \in DOMAIN pending
    BY <1>1, PlacesOfShellCalls
  <2> QED
    BY <1>1, <1>2, <2>1 DEF ShellCalls, Unserved
<1>5. main # "command"
  BY <1>1
<1>6. CASE main' = "command"
  BY <1>1, <1>3, <1>4, <1>5, <1>6 DEF CallsInv, OneShellCall, CommandWaits
<1>7. CASE main' = "task"
  BY <1>1, <1>3, <1>4, <1>5, <1>7 DEF CallsInv, OneShellCall, CommandWaits
<1> QED
  BY <1>1, <1>6, <1>7

LEMMA CallsInductive ==
  ASSUME CliTyped, CliTyped', CallsInv, [CliNext]_cliVars
  PROVE  CallsInv'
<1>1. ASSUME NEW data \in Letter \cup {NUL}, ReceiveLetter(data)
      PROVE  CallsInv'
  BY <1>1, SameCallsKeep DEF ReceiveLetter
<1>2. CASE ReceiveBackspace
  BY <1>2, SameCallsKeep DEF ReceiveBackspace
<1>3. CASE ReceiveTerminator
  BY <1>3, TerminatorKeepsCalls
<1>4. CASE Tick
  BY <1>4, TickKeepsCalls
<1>5. CASE Cut
  BY <1>5, RemovalKeepsCalls DEF Cut
<1>6. CASE KernelInit
  BY <1>6, RemovalKeepsCalls DEF KernelInit, Serving
<1>7. CASE CliSetup
  <2>1. /\ main = "setup" /\ main' = "poll" /\ rxEnabled' /\ ~lost'
        /\ UNCHANGED <<pending, early, cut>>
    BY <1>7 DEF CliSetup
  <2>2. ShellCalls' = ShellCalls /\ ~Serving'
    BY <2>1 DEF ShellCalls, Unserved, Serving
  <2> QED
    BY <2>1, <2>2 DEF CallsInv, OneShellCall
<1>8. CASE Dispatch
  BY <1>8, DispatchKeepsCalls
<1>9. CASE TaskReturns
  BY <1>9, SameCallsKeep DEF TaskReturns
<1>10. CASE ProcessCommand
  <2>1. /\ main = "command" /\ main' = "served" /\ rxEnabled' /\ ~lost'
        /\ UNCHANGED <<pending, early, cut>>
    BY <1>10 DEF ProcessCommand, ClearRecvBuffer
  <2>2. ShellCalls' = ShellCalls /\ Serving
    BY <2>1 DEF ShellCalls, Unserved, Serving
  <2> QED
    BY <2>1, <2>2 DEF CallsInv, OneShellCall
<1>11. CASE Drop
  BY <1>11, RemovalKeepsCalls DEF Drop, Serving
<1>12. CASE UNCHANGED cliVars
  BY <1>12, SameCallsKeep DEF cliVars
<1> QED
  BY <1>1, <1>2, <1>3, <1>4, <1>5, <1>6, <1>7, <1>8, <1>9, <1>10, <1>11, <1>12
     DEF CliNext, MainStep

-----------------------------------------------------------------------------

LEMMA RoomIsNullPrime ==
  HasRoom' <=> \E k \in Cells : recvBuffer'[k] = NUL
<1> USE CliAssumption DEF HasRoom, Filled, Cells
<1>1. ASSUME NEW k \in Cells, recvBuffer'[k] = NUL PROVE HasRoom'
  BY <1>1
<1>2. ASSUME \A k \in Cells : recvBuffer'[k] # NUL PROVE ~HasRoom'
  BY <1>2
<1> QED
  BY <1>1, <1>2

(***************************************************************************)
(* The index is inside the buffer while there is room, and behind it, with *)
(* an overrun line, when there is none.                                    *)
(***************************************************************************)
LEMMA IndexOfTyping ==
  ASSUME Typing
  PROVE  /\ HasRoom => recvBuffer_i \in Cells
         /\ ~HasRoom => recvBuffer_i = RX0_BUFFER_SIZE /\ overrun
<1>1. RX0_BUFFER_SIZE \in Nat
  BY CliAssumption
<1>2. ASSUME HasRoom PROVE recvBuffer_i \in Cells
  <2>1. PICK k \in Cells : recvBuffer[k] = NUL
    BY <1>2, RoomIsNull
  <2>2. ~(k < recvBuffer_i)
    BY <2>1 DEF Typing, HoldsLine
  <2> QED
    BY <1>1, <2>2 DEF Typing, Cells
<1>3. ASSUME ~HasRoom PROVE recvBuffer_i = RX0_BUFFER_SIZE /\ overrun
  BY <1>1, <1>3 DEF Typing
<1> QED
  BY <1>2, <1>3

LEMMA TypingAfterLetter ==
  ASSUME CliTyped, Typing, NEW data \in Letter, ReceiveLetter(data)
  PROVE  Typing' /\ (stray' => stray)
<1>1. /\ RX0_BUFFER_SIZE \in Nat /\ UINT8 \in Nat /\ UINT8 > RX0_BUFFER_SIZE
      /\ data # NUL /\ data \in Character
  BY CliAssumption DEF Character
<1>2. /\ Len(line) \in Nat
      /\ Len(line') # RX0_BUFFER_SIZE =>
           /\ Len(line') = Len(line) + 1
           /\ line'[Len(line) + 1] = data
           /\ \A k \in 1 .. Len(line) : line'[k] = line[k]
  BY <1>1, LineAppended DEF ReceiveLetter, CliTyped
<1>3. ~overrun' => ~overrun /\ Len(line') # RX0_BUFFER_SIZE
  BY DEF ReceiveLetter
<1>4. recvBuffer_i \in 0 .. RX0_BUFFER_SIZE /\ (~overrun => recvBuffer_i < RX0_BUFFER_SIZE)
  BY DEF Typing
<1>5. CASE HasRoom
  <2>1. recvBuffer_i \in Cells
    BY <1>5, IndexOfTyping
  <2>2. recvBuffer_i' = recvBuffer_i + 1 /\ recvBuffer_i' \in 0 .. RX0_BUFFER_SIZE
    <3>1. recvBuffer_i' = (recvBuffer_i + 1) % UINT8
      BY <1>5 DEF ReceiveLetter
    <3> QED
      BY <1>1, <2>1, <3>1 DEF Cells
  <2>3. \A k \in Cells : recvBuffer'[k] = IF k = recvBuffer_i THEN data ELSE recvBuffer[k]
    BY <1>5 DEF ReceiveLetter, CliTyped
  <2>4. \A k \in Cells : k < recvBuffer_i => recvBuffer[k] # NUL
    BY DEF Typing, HoldsLine
  <2>5. \A k \in Cells : k < recvBuffer_i' => recvBuffer'[k] # NUL
    BY <1>1, <2>1, <2>2, <2>3, <2>4 DEF Cells
  <2>6. ASSUME ~overrun'
        PROVE  /\ Len(line') = recvBuffer_i' /\ recvBuffer_i' < RX0_BUFFER_SIZE
               /\ \A k \in 1 .. recvBuffer_i' : line'[k] = recvBuffer'[k - 1]
    <3>1. /\ Len(line) = recvBuffer_i
          /\ \A k \in 1 .. recvBuffer_i : line[k] = recvBuffer[k - 1]
      BY <1>3, <2>6 DEF Typing, HoldsLine
    <3>2. Len(line') = recvBuffer_i + 1 /\ line'[recvBuffer_i + 1] = data
      BY <1>2, <1>3, <2>6, <3>1
    <3>3. \A k \in 1 .. recvBuffer_i : line'[k] = recvBuffer[k - 1]
      BY <1>2, <1>3, <2>6, <3>1
    <3>4. ASSUME NEW k \in 1 .. recvBuffer_i + 1 PROVE line'[k] = recvBuffer'[k - 1]
      <4>1. CASE k = recvBuffer_i + 1
        <5>1. k - 1 = recvBuffer_i
          BY <2>1, <4>1 DEF Cells
        <5> QED
          BY <2>1, <2>3, <3>2, <4>1, <5>1
      <4>2. CASE k # recvBuffer_i + 1
        <5>1. k \in 1 .. recvBuffer_i /\ k - 1 \in Cells /\ k - 1 # recvBuffer_i
          BY <1>1, <2>1, <4>2 DEF Cells
        <5> QED
          BY <2>3, <3>3, <5>1
      <4> QED
        BY <4>1, <4>2
    <3>5. recvBuffer_i + 1 # RX0_BUFFER_SIZE
      BY <1>3, <2>6, <3>2
    <3> QED
      BY <1>1, <2>1, <2>2, <3>2, <3>4, <3>5 DEF Cells
  <2>7. \A k, l \in Cells : k < l /\ recvBuffer[k] = NUL => recvBuffer[l] = NUL
    BY DEF Typing
  <2>8. \A k, l \in Cells : k < l /\ recvBuffer'[k] = NUL => recvBuffer'[l] = NUL
    <3> SUFFICES ASSUME NEW k \in Cells, NEW l \in Cells, k < l, recvBuffer'[k] = NUL
                 PROVE  recvBuffer'[l] = NUL
      OBVIOUS
    <3>1. recvBuffer[k] = NUL /\ recvBuffer[l] = NUL
      BY <1>1, <2>3, <2>7
    <3>2. ~(k < recvBuffer_i)
      BY <2>4, <3>1
    <3>3. l # recvBuffer_i
      BY <2>1, <3>2 DEF Cells
    <3> QED
      BY <2>3, <3>1, <3>3
  <2>9. ASSUME ~HasRoom' PROVE recvBuffer_i' = RX0_BUFFER_SIZE
    <3>1. \A k \in Cells : recvBuffer'[k] # NUL
      BY <2>9, RoomIsNullPrime
    <3>2. PICK k \in Cells : recvBuffer[k] = NUL
      BY <1>5, RoomIsNull
    <3>3. k = recvBuffer_i
      BY <2>3, <3>1, <3>2
    <3>4. ASSUME recvBuffer_i + 1 \in Cells PROVE FALSE
      <4>1. k < recvBuffer_i + 1 /\ recvBuffer_i + 1 # recvBuffer_i
        BY <2>1, <3>3 DEF Cells
      <4>2. recvBuffer[recvBuffer_i + 1] = NUL
        BY <2>7, <3>2, <3>4, <4>1
      <4> QED
        BY <2>3, <3>1, <3>4, <4>1, <4>2
    <3> QED
      BY <1>1, <2>1, <2>2, <3>4 DEF Cells
  <2>10. stray' => stray
    BY <1>5, <2>1 DEF ReceiveLetter
  <2>11. HoldsLine(recvBuffer_i)'
    BY <2>5, <2>6 DEF HoldsLine
  <2> QED
    BY <2>2, <2>6, <2>8, <2>9, <2>10, <2>11 DEF Typing
<1>6. CASE ~HasRoom
  <2>1. overrun /\ overrun'
    BY <1>3, <1>6, IndexOfTyping
  <2>2. UNCHANGED <<recvBuffer, recvBuffer_i, stray>>
    BY <1>6 DEF ReceiveLetter
  <2>3. HasRoom' <=> HasRoom
    BY <2>2 DEF HasRoom, Filled
  <2> QED
    BY <2>1, <2>2, <2>3 DEF Typing, HoldsLine
<1> QED
  BY <1>5, <1>6

LEMMA TypingAfterBackspace ==
  ASSUME CliTyped, Typing, ReceiveBackspace
  PROVE  Typing'
<1>1. RX0_BUFFER_SIZE \in Nat
  BY CliAssumption
<1>2. /\ Len(line) \in Nat
      /\ Len(line') = IF Len(line) = 0 THEN 0 ELSE Len(line) - 1
      /\ \A k \in 1 .. Len(line') : line'[k] = line[k]
  BY LineShortened DEF ReceiveBackspace, CliTyped
<1>3. UNCHANGED <<recvBuffer, overrun>>
  BY DEF ReceiveBackspace
<1>4. HasRoom' <=> HasRoom
  BY <1>3 DEF HasRoom, Filled
<1>5. CASE HasRoom
  <2>1. recvBuffer_i \in Cells
    BY <1>5, IndexOfTyping
  <2>2. /\ recvBuffer_i' = IF recvBuffer_i = 0 THEN 0 ELSE recvBuffer_i - 1
        /\ recvBuffer_i' \in 0 .. RX0_BUFFER_SIZE
        /\ recvBuffer_i' <= recvBuffer_i /\ recvBuffer_i' < RX0_BUFFER_SIZE
    BY <1>1, <1>5, <2>1 DEF ReceiveBackspace, Cells
  <2>3. \A k \in Cells : k < recvBuffer_i' => recvBuffer'[k] # NUL
    BY <1>3, <2>1, <2>2 DEF Typing, HoldsLine, Cells
  <2>4. ASSUME ~overrun'
        PROVE  /\ Len(line') = recvBuffer_i'
               /\ \A k \in 1 .. recvBuffer_i' : line'[k] = recvBuffer'[k - 1]
    <3>1. /\ Len(line) = recvBuffer_i
          /\ \A k \in 1 .. recvBuffer_i : line[k] = recvBuffer[k - 1]
      BY <1>3, <2>4 DEF Typing, HoldsLine
    <3>2. Len(line') = recvBuffer_i'
      BY <1>2, <2>2, <3>1
    <3>3. \A k \in 1 .. recvBuffer_i' : k \in 1 .. recvBuffer_i
      BY <2>1, <2>2 DEF Cells
    <3> QED
      BY <1>2, <1>3, <3>1, <3>2, <3>3
  <2> QED
    BY <1>3, <1>4, <1>5, <2>2, <2>3, <2>4 DEF Typing, HoldsLine
<1>6. CASE ~HasRoom
  <2>1. overrun
    BY <1>6, IndexOfTyping
  <2>2. UNCHANGED recvBuffer_i
    BY <1>6 DEF ReceiveBackspace
  <2> QED
    BY <1>3, <1>4, <2>1, <2>2 DEF Typing, HoldsLine
<1> QED
  BY <1>5, <1>6

LEMMA EndedAfterTerminator ==
  ASSUME CliTyped, Typing, ReceiveTerminator
  PROVE  Ended' /\ (stray' => stray)
<1>1. /\ RX0_BUFFER_SIZE \in Nat \ {0} /\ UINT8 \in Nat /\ UINT8 > RX0_BUFFER_SIZE
  BY CliAssumption
<1>2. UNCHANGED <<line, overrun>>
  BY DEF ReceiveTerminator
<1>3. PICK end \in {IF HasRoom THEN recvBuffer_i + 1 ELSE recvBuffer_i} :
        /\ recvBuffer' =
             [k \in Cells |->
                IF k = EndCell(end) THEN NUL
                ELSE IF HasRoom /\ k = recvBuffer_i THEN TERMINATOR ELSE recvBuffer[k]]
        /\ recvBuffer_i' = end % UINT8
        /\ stray' = (stray \/ EndCell(end) \notin Cells)
  BY DEF ReceiveTerminator
<1>4. \A k \in Cells : k < recvBuffer_i => recvBuffer[k] # NUL
  BY DEF Typing, HoldsLine
<1>5. CASE HasRoom
  <2>1. recvBuffer_i \in Cells /\ end = recvBuffer_i + 1
    BY <1>5, <1>3, IndexOfTyping
  <2>2. EndCell(end) = recvBuffer_i /\ EndCell(end) \in Cells
    BY <2>1 DEF EndCell, Cells
  <2>3. recvBuffer_i' = recvBuffer_i + 1 /\ recvBuffer_i' \in 1 .. RX0_BUFFER_SIZE
    BY <1>1, <1>3, <2>1 DEF Cells
  <2>4. recvBuffer_i' - 1 = recvBuffer_i
    BY <2>1, <2>3 DEF Cells
  <2>5. \A k \in Cells : recvBuffer'[k] = IF k = recvBuffer_i THEN NUL ELSE recvBuffer[k]
    BY <1>3, <2>2
  <2>6. \A k \in Cells : k < recvBuffer_i' - 1 => recvBuffer'[k] # NUL
    BY <1>4, <2>1, <2>4, <2>5 DEF Cells
  <2>7. ASSUME ~overrun'
        PROVE  /\ Len(line') = recvBuffer_i' - 1
               /\ \A k \in 1 .. recvBuffer_i' - 1 : line'[k] = recvBuffer'[k - 1]
    <3>1. /\ Len(line) = recvBuffer_i
          /\ \A k \in 1 .. recvBuffer_i : line[k] = recvBuffer[k - 1]
      BY <1>2, <2>7 DEF Typing, HoldsLine
    <3>2. \A k \in 1 .. recvBuffer_i : k - 1 \in Cells /\ k - 1 # recvBuffer_i
      BY <1>1, <2>1 DEF Cells
    <3> QED
      BY <1>2, <2>4, <2>5, <3>1, <3>2
  <2>8. recvBuffer'[recvBuffer_i' - 1] = NUL
    BY <2>1, <2>4, <2>5
  <2>9. stray' => stray
    BY <1>3, <2>2
  <2> QED
    BY <2>3, <2>6, <2>7, <2>8, <2>9 DEF Ended, HoldsLine
<1>6. CASE ~HasRoom
  <2>1. recvBuffer_i = RX0_BUFFER_SIZE /\ overrun /\ end = RX0_BUFFER_SIZE
    BY <1>6, <1>3, IndexOfTyping
  <2>2. EndCell(end) = RX0_BUFFER_SIZE - 1 /\ EndCell(end) \in Cells
    BY <1>1, <2>1 DEF EndCell, Cells
  <2>3. recvBuffer_i' = RX0_BUFFER_SIZE
    BY <1>1, <1>3, <2>1
  <2>4. \A k \in Cells :
          recvBuffer'[k] = IF k = RX0_BUFFER_SIZE - 1 THEN NUL ELSE recvBuffer[k]
    BY <1>3, <1>6, <2>2
  <2>5. \A k \in Cells : k < RX0_BUFFER_SIZE - 1 => recvBuffer'[k] # NUL
    BY <1>1, <1>4, <2>1, <2>4 DEF Cells
  <2>6. recvBuffer'[RX0_BUFFER_SIZE - 1] = NUL
    BY <2>2, <2>4
  <2>7. overrun'
    BY <1>2, <2>1
  <2>8. stray' => stray
    BY <1>3, <2>2
  <2> QED
    BY <1>1, <2>3, <2>5, <2>6, <2>7, <2>8 DEF Ended, HoldsLine
<1> QED
  BY <1>5, <1>6

LEMMA TypingEmpty ==
  ASSUME recvBuffer' = EmptyBuffer, recvBuffer_i' = 0, line' = <<>>, overrun' = FALSE
  PROVE  Typing'
<1>1. RX0_BUFFER_SIZE \in Nat \ {0} /\ 0 \in Cells
  BY CliAssumption DEF Cells
<1>2. \A k \in Cells : recvBuffer'[k] = NUL
  BY DEF EmptyBuffer
<1>3. HasRoom'
  BY <1>1, <1>2, RoomIsNullPrime
<1>4. Len(line') = 0
  OBVIOUS
<1>5. HoldsLine(recvBuffer_i)'
  BY <1>4 DEF HoldsLine, Cells
<1> QED
  BY <1>1, <1>2, <1>3, <1>5 DEF Typing

LEMMA BufferInductive ==
  ASSUME CliTyped, CliTyped', CallsInv, BufferInv, [CliNext]_cliVars
  PROVE  BufferInv'
<1>1. ASSUME NEW data \in Letter \cup {NUL}, ReceiveLetter(data)
      PROVE  BufferInv'
  <2>1. CASE Undisturbed'
    <3>1. Undisturbed /\ data \in Letter /\ rxEnabled /\ rxEnabled'
      BY <1>1, <2>1 DEF ReceiveLetter, Undisturbed
    <3>2. Typing /\ ~stray
      BY <3>1 DEF BufferInv
    <3>3. Typing' /\ (stray' => stray)
      BY <1>1, <3>1, <3>2, TypingAfterLetter
    <3> QED
      BY <3>1, <3>2, <3>3 DEF BufferInv
  <2> QED
    BY <2>1 DEF BufferInv
<1>2. CASE ReceiveBackspace
  <2>1. rxEnabled /\ rxEnabled' /\ UNCHANGED <<stray, early, nulled>>
    BY <1>2 DEF ReceiveBackspace
  <2>2. CASE Undisturbed
    <3>1. Typing /\ ~stray
      BY <2>1, <2>2 DEF BufferInv
    <3>2. Typing'
      BY <1>2, <3>1, TypingAfterBackspace
    <3> QED
      BY <2>1, <3>1, <3>2 DEF BufferInv
  <2> QED
    BY <2>1, <2>2 DEF BufferInv, Undisturbed
<1>3. CASE ReceiveTerminator
  <2>1. CASE Undisturbed'
    <3>1. Undisturbed /\ rxEnabled /\ ~rxEnabled'
      BY <1>3, <2>1 DEF ReceiveTerminator, Undisturbed
    <3>2. Typing /\ ~stray
      BY <3>1 DEF BufferInv
    <3>3. Ended' /\ (stray' => stray)
      BY <1>3, <3>2, EndedAfterTerminator
    <3> QED
      BY <3>1, <3>2, <3>3 DEF BufferInv
  <2> QED
    BY <2>1 DEF BufferInv
<1>4. ASSUME UNCHANGED <<bufferVars, rxEnabled, early>>
      PROVE  BufferInv'
  BY <1>4 DEF bufferVars, BufferInv, Undisturbed, Typing, Ended, HoldsLine, HasRoom, Filled
<1>5. CASE Tick \/ KernelInit \/ Dispatch \/ Cut \/ TaskReturns \/ Drop \/ UNCHANGED cliVars
  BY <1>4, <1>5 DEF Tick, KernelInit, Dispatch, Cut, TaskReturns, Drop, cliVars
<1>6. CASE CliSetup
  <2>1. main = "setup" /\ rxEnabled' /\ UNCHANGED <<bufferVars, early>>
    BY <1>6 DEF CliSetup
  <2>2. CASE ~early
    <3>1. rxEnabled
      BY <2>1, <2>2 DEF CallsInv, OneShellCall
    <3> QED
      BY <1>4, <2>1, <3>1
  <2> QED
    BY <2>1, <2>2 DEF BufferInv, Undisturbed
<1>7. CASE ProcessCommand
  <2>1. /\ recvBuffer' = EmptyBuffer /\ recvBuffer_i' = 0 /\ line' = <<>> /\ overrun' = FALSE
        /\ rxEnabled' /\ UNCHANGED <<early, nulled, stray>>
    BY <1>7 DEF ProcessCommand, ClearRecvBuffer
  <2>2. Typing'
    BY <2>1, TypingEmpty
  <2> QED
    BY <2>1, <2>2 DEF BufferInv, Undisturbed
<1> QED
  BY <1>1, <1>2, <1>3, <1>5, <1>6, <1>7 DEF CliNext, MainStep

-----------------------------------------------------------------------------

LEMMA CliInvInitially == CliInit => CliInv
<1> SUFFICES ASSUME CliInit PROVE CliInv
  OBVIOUS
<1>1. RX0_BUFFER_SIZE \in Nat \ {0} /\ 0 \in Cells
  BY CliAssumption DEF Cells
<1>2. \A k \in Cells : recvBuffer[k] = NUL
  BY DEF CliInit, EmptyBuffer
<1>3. recvBuffer_i = 0 /\ Len(line) = 0 /\ rxEnabled /\ ~stray /\ main = "boot"
  BY DEF CliInit
<1>4. HasRoom
  BY <1>1, <1>2, RoomIsNull
<1>5. HoldsLine(recvBuffer_i)
  BY <1>3 DEF HoldsLine, Cells
<1>6. Typing
  BY <1>1, <1>2, <1>3, <1>4, <1>5 DEF Typing
<1>7. ShellCalls = {} /\ ~lost /\ ~Serving
  BY DEF CliInit, ShellCalls, Unserved, Serving
<1> QED
  BY <1>3, <1>6, <1>7, CliTypedInitially DEF CliInv, CallsInv, OneShellCall, BufferInv

LEMMA CliInvInductive == CliInv /\ [CliNext]_cliVars => CliInv'
BY CliTypedInductive, CallsInductive, BufferInductive DEF CliInv

(***************************************************************************)
(* What the buffer holds and who will look at it stay in step, whatever is *)
(* typed and whenever the command task runs.                               *)
(***************************************************************************)
THEOREM CliInvariant == CliSpec => []CliInv
BY CliInvInitially, CliInvInductive, PTL DEF CliSpec

-----------------------------------------------------------------------------

LEMMA InvGivesTypes == CliInv => CliTypeOK
<1> SUFFICES ASSUME CliInv PROVE CliTypeOK
  OBVIOUS
<1>1. RX0_BUFFER_SIZE \in Nat
  BY CliAssumption
<1>2. recvBuffer \in [Cells -> Letter \cup {TERMINATOR, NUL}]
  BY DEF CliInv, CliTyped, Character
<1>3. Undisturbed => recvBuffer_i <= RX0_BUFFER_SIZE
  BY <1>1 DEF CliInv, BufferInv, Typing, Ended
<1> QED
  BY <1>2, <1>3 DEF CliInv, CliTyped, CliTypeOK

LEMMA InvGivesDeaf == CliInv => DeafWhileCommandWaits
BY DEF CliInv, CallsInv, OneShellCall, DeafWhileCommandWaits, CommandWaits

LEMMA InvGivesLine == CliInv => CommandIsLine
<1> SUFFICES ASSUME CliInv, Undisturbed, main = "command", ~overrun
             PROVE  Command = line
  BY DEF CommandIsLine
<1>1. Ended
  BY DEF CliInv, CallsInv, OneShellCall, BufferInv, Undisturbed
<1>2. RX0_BUFFER_SIZE \in Nat
  BY CliAssumption
<1>3. PICK n \in Cells : n = recvBuffer_i - 1
  BY <1>1, <1>2 DEF Ended, Cells
<1>4. /\ \A k \in Cells : k < n => recvBuffer[k] # NUL
      /\ Len(line) = n /\ \A k \in 1 .. n : line[k] = recvBuffer[k - 1]
      /\ recvBuffer[n] = NUL
  BY <1>1, <1>3 DEF Ended, HoldsLine
<1>5. Filled = {n}
  <2>1. n \in Filled
    BY <1>2, <1>4 DEF Filled, Cells
  <2>2. ASSUME NEW m \in Filled PROVE m = n
    <3>1. /\ m \in 0 .. RX0_BUFFER_SIZE
          /\ \A k \in 0 .. m - 1 : recvBuffer[k] # NUL
          /\ m \in Cells => recvBuffer[m] = NUL
      BY DEF Filled
    <3>2. ~(m < n)
      BY <1>2, <1>4, <3>1 DEF Cells
    <3>3. ~(n < m)
      BY <1>2, <1>4, <3>1 DEF Cells
    <3> QED
      BY <1>2, <3>1, <3>2, <3>3 DEF Cells
  <2> QED
    BY <2>1, <2>2
<1> DEFINE Word == [1 .. n -> Letter \cup {TERMINATOR}]
<1>6. line \in Word
  <2>1. line \in [1 .. n -> Character]
    BY <1>4, LenProperties DEF CliInv, CliTyped
  <2>2. ASSUME NEW k \in 1 .. n PROVE line[k] # NUL
    <3>1. k - 1 \in Cells /\ k - 1 < n
      BY <1>2 DEF Cells
    <3> QED
      BY <1>4, <3>1
  <2>3. \A k \in 1 .. n : line[k] \in Letter \cup {TERMINATOR}
    BY <2>1, <2>2 DEF Character
  <2> QED
    BY <2>1, <2>3
<1>7. UNION {[1 .. m -> Letter \cup {TERMINATOR}] : m \in Filled} = Word
  BY <1>5
<1>8. \A k \in DOMAIN line : line[k] = recvBuffer[k - 1]
  BY <1>4, <1>6
<1>9. ASSUME NEW c \in Word, \A k \in DOMAIN c : c[k] = recvBuffer[k - 1]
      PROVE  c = line
  <2>1. DOMAIN c = 1 .. n /\ DOMAIN line = 1 .. n
    BY <1>6
  <2>2. ASSUME NEW k \in 1 .. n PROVE c[k] = line[k]
    <3>1. c[k] = recvBuffer[k - 1]
      BY <1>9, <2>1, Zenon
    <3>2. line[k] = recvBuffer[k - 1]
      BY <1>4, Zenon
    <3> QED
      BY <3>1, <3>2
  <2>3. c = [k \in 1 .. n |-> c[k]] /\ line = [k \in 1 .. n |-> line[k]]
    BY <1>6, Zenon
  <2> QED
    BY <2>2, <2>3
<1> HIDE DEF Word
<1>10. Command = CHOOSE c \in Word : \A k \in DOMAIN c : c[k] = recvBuffer[k - 1]
  BY <1>7 DEF Command
<1> QED
  BY <1>6, <1>8, <1>9, <1>10

(***************************************************************************)
(* Types; the index that the receive interrupt keeps goes at most one past *)
(* the buffer.                                                             *)
(***************************************************************************)
THEOREM CliTypeCorrect == CliSpec => []CliTypeOK
BY CliInvariant, InvGivesTypes, PTL

(***************************************************************************)
(* While the receive interrupt is disabled the shell's call waits in the   *)
(* kernel's queue, is being served, or was refused or cut, and unless a    *)
(* line ended too early it is disabled only then: whatever tasks, commands *)
(* and interrupts do to the queue.                                         *)
(***************************************************************************)
THEOREM ShellDeafWhileCommandWaits == CliSpec => []DeafWhileCommandWaits
BY CliInvariant, InvGivesDeaf, PTL

(***************************************************************************)
(* The command task reads the line that was typed and edited: no character *)
(* of an earlier line, none that a backspace took away, none of the next.  *)
(***************************************************************************)
THEOREM CommandReadsLine == CliSpec => []CommandIsLine
BY CliInvariant, InvGivesLine, PTL

(***************************************************************************)
(* Whatever is typed, the receive interrupt writes into recvBuffer only.   *)
(***************************************************************************)
THEOREM ReceiveStaysInBuffer == CliSpec => []StaysInBuffer
<1>1. CliInv => StaysInBuffer
  BY DEF CliInv, BufferInv, StaysInBuffer
<1> QED
  BY <1>1, CliInvariant, PTL
=============================================================================
