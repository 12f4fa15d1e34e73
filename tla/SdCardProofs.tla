---------------------------- MODULE SdCardProofs ----------------------------
(***************************************************************************)
(* What the logger promises of its two buffers and of the log, for every   *)
(* size of the buffers and of the log.                                     *)
(***************************************************************************)
EXTENDS SdCard, SequenceTheorems, TLAPS

Stored == Char \cup {NUL}

Block == {Blank, Torn} \cup [Cells0 -> Stored]

(***************************************************************************)
(* Of n characters, those that are in the second buffer.                   *)
(***************************************************************************)
Second(n) == IF n >= Buffer0Size THEN n - Buffer0Size ELSE 0

(***************************************************************************)
(* The second buffer is the string of its characters, as strlen sees it.   *)
(***************************************************************************)
BuffersOK(b0, b1, n) ==
  /\ b0 \in [Cells0 -> Stored] /\ b1 \in [Cells1 -> Stored]
  /\ n \in 0 .. Limit
  /\ \A k \in Cells1 : k < Second(n) => b1[k] # NUL
  /\ b1[Second(n)] = NUL

CharAt(b0, b1, k) == IF k < Buffer0Size THEN b0[k] ELSE b1[k - Buffer0Size]

(***************************************************************************)
(* The buffers hold what was accepted after its first s characters.        *)
(***************************************************************************)
InFlight(b0, b1, n, s, chars) ==
  /\ Len(chars) = s + n
  /\ \A k \in 0 .. n - 1 : CharAt(b0, b1, k) = chars[s + k + 1]

(***************************************************************************)
(* The characters that were sent.                                          *)
(***************************************************************************)
Sent == EndOf(Len(ends))

(***************************************************************************)
(* Block p holds the characters of flush i, and lies where they belong.    *)
(***************************************************************************)
Holds(p, i, chars) ==
  /\ \A k \in 1 .. EndOf(i) - EndOf(i - 1) : log[p][k - 1] = chars[EndOf(i - 1) + k]
  /\ StartsBlock(Position(i)) => p * Buffer0Size = Position(i)

Written(chars) == \A p \in Blocks : source[p] # 0 => Holds(p, source[p], chars)

(***************************************************************************)
(* Each flush sends characters that follow those of the one before, a      *)
(* whole block of them unless the program called it.                       *)
(***************************************************************************)
EndsOK ==
  /\ \A i \in 0 .. Len(ends) : EndOf(i) \in Nat /\ EndOf(i) <= Sent
  /\ \A i \in 1 .. Len(ends) : i \notin early => EndOf(i) = EndOf(i - 1) + Buffer0Size
  /\ sd_pointer = first + Len(ends) * Buffer0Size

SdTyped ==
  /\ log \in [Blocks -> Block] /\ source \in [Blocks -> 0 .. Len(ends)]
  /\ ends \in Seq(Nat)
  /\ sd_pointer \in Nat /\ first \in Nat
  /\ accepted \in Seq(Char)
  /\ {inPuts, unopened} \subseteq BOOLEAN

(***************************************************************************)
(* Characters go to the second buffer, and are dropped when it is full,    *)
(* only while the log cannot be opened (sdcard.c:54-61).                   *)
(***************************************************************************)
WaitsOnlyForLog == sd_index >= Buffer0Size => unopened

SdInv ==
  /\ SdTyped
  /\ EndsOK
  /\ BuffersOK(sd_buffer0, sd_buffer1, sd_index)
  /\ InFlight(sd_buffer0, sd_buffer1, sd_index, Sent, accepted)
  /\ Written(accepted)
  /\ WaitsOnlyForLog

-----------------------------------------------------------------------------

LEMMA Sizes ==
  /\ Buffer0Size \in Nat \ {0} /\ Buffer1Size \in Nat \ {0} /\ Buffer1Size <= Buffer0Size
  /\ Limit = Buffer0Size + Buffer1Size - 1 /\ Limit \in Nat
  /\ LogBlocks \in Nat /\ NUL \notin Char
  /\ 0 \in Cells0 /\ 0 \in Cells1
BY SdCardAssumption DEF Limit, Cells0, Cells1

LEMMA SecondInCells ==
  ASSUME NEW n \in 0 .. Limit
  PROVE  /\ Second(n) \in Cells1 /\ Second(n) \in Cells0 /\ Second(n) \in Nat
         /\ n < Buffer0Size => Second(n) = 0
         /\ n >= Buffer0Size => n = Buffer0Size + Second(n)
BY Sizes DEF Second, Cells0, Cells1

(***************************************************************************)
(* strlen finds the characters of the second buffer.                       *)
(***************************************************************************)
LEMMA StrLenOfSecond ==
  ASSUME NEW b0, NEW b1, NEW n, BuffersOK(b0, b1, n)
  PROVE  StrLen(b1) = Second(n)
<1>1. Second(n) \in Cells1 /\ Second(n) \in Nat
  BY SecondInCells DEF BuffersOK
<1> DEFINE Ends(m) == /\ \A k \in 0 .. m - 1 : b1[k] # NUL
                      /\ m \in Cells1 => b1[m] = NUL
<1>2. Ends(Second(n))
  BY <1>1, Sizes DEF BuffersOK, Cells1
<1>3. ASSUME NEW m \in Cells1 \cup {Buffer1Size}, Ends(m) PROVE m = Second(n)
  <2>1. ~(m < Second(n))
    BY <1>1, <1>3, Sizes DEF BuffersOK, Cells1
  <2>2. ~(Second(n) < m)
    BY <1>1, <1>3, Sizes DEF BuffersOK, Cells1
  <2> QED
    BY <1>1, <2>1, <2>2, Sizes DEF Cells1
<1>4. StrLen(b1) = CHOOSE m \in Cells1 \cup {Buffer1Size} : Ends(m)
  BY DEF StrLen
<1> HIDE DEF Ends
<1> QED
  BY <1>1, <1>2, <1>3, <1>4

LEMMA SentTyped ==
  ASSUME SdTyped, EndsOK
  PROVE  Sent \in Nat /\ Len(ends) \in Nat
<1>1. Len(ends) \in Nat
  BY LenProperties DEF SdTyped
<1>2. Len(ends) \in 0 .. Len(ends)
  BY <1>1
<1> QED
  BY <1>1, <1>2 DEF EndsOK, Sent

(***************************************************************************)
(* One flush more leaves what the others sent.                             *)
(***************************************************************************)
LEMMA EndsAppend ==
  ASSUME SdTyped, EndsOK, NEW n \in Nat,
         ends' = Append(ends, EndWith(n)), sd_pointer' = sd_pointer + Buffer0Size,
         first' = first, early \subseteq early',
         n >= Buffer0Size \/ Len(ends) + 1 \in early'
  PROVE  /\ ends' \in Seq(Nat) /\ Len(ends') = Len(ends) + 1
         /\ \A i \in 0 .. Len(ends) : EndOf(i)' = EndOf(i)
         /\ \A i \in Nat : i = Len(ends) + 1 => EndOf(i)' = EndWith(n)
         /\ Sent \in Nat
         /\ n < Buffer0Size => Sent' = Sent + n
         /\ n >= Buffer0Size => Sent' = Sent + Buffer0Size
         /\ EndsOK'
<1>1. Sent \in Nat /\ Len(ends) \in Nat /\ ends \in Seq(Nat)
  BY SentTyped DEF SdTyped
<1>2. EndWith(n) \in Nat /\ EndWith(n) >= Sent
      /\ (n < Buffer0Size => EndWith(n) = Sent + n)
      /\ (n >= Buffer0Size => EndWith(n) = Sent + Buffer0Size)
  BY <1>1, Sizes DEF EndWith, Sent
<1>3. /\ ends' \in Seq(Nat) /\ Len(ends') = Len(ends) + 1
      /\ \A i \in 1 .. Len(ends) : ends'[i] = ends[i]
      /\ ends'[Len(ends) + 1] = EndWith(n)
  BY <1>1, <1>2, AppendProperties
<1>4. \A i \in Nat : EndOf(i)' = IF i = 0 THEN 0 ELSE ends'[i]
  BY DEF EndOf
<1>5. \A i \in 0 .. Len(ends) : EndOf(i)' = EndOf(i)
  BY <1>1, <1>3, <1>4 DEF EndOf
<1>6. \A i \in Nat : i = Len(ends) + 1 => EndOf(i)' = EndWith(n)
  BY <1>1, <1>3, <1>4
<1>7. Sent' = EndWith(n)
  BY <1>1, <1>3, <1>4 DEF Sent, EndOf
<1>8. EndsOK'
  <2>1. \A i \in 0 .. Len(ends) + 1 : EndOf(i)' \in Nat /\ EndOf(i)' <= Sent'
    <3>1. ASSUME NEW i \in 0 .. Len(ends) PROVE EndOf(i)' \in Nat /\ EndOf(i)' <= Sent'
      BY <1>1, <1>2, <1>5, <1>7, <3>1 DEF EndsOK
    <3> QED
      BY <1>1, <1>2, <1>3, <1>4, <1>7, <3>1
  <2>2. ASSUME NEW i \in 1 .. Len(ends) + 1, i \notin early'
        PROVE  EndOf(i)' = EndOf(i - 1)' + Buffer0Size
    <3>1. CASE i = Len(ends) + 1
      <4>1. EndOf(i)' = Sent + Buffer0Size
        BY <1>1, <1>2, <1>3, <1>4, <2>2, <3>1, Sizes
      <4>2. EndOf(i - 1)' = Sent
        <5>1. i - 1 = Len(ends)
          BY <1>1, <3>1
        <5> QED
          BY <1>1, <1>5, <5>1 DEF Sent
      <4> QED
        BY <4>1, <4>2
    <3>2. CASE i # Len(ends) + 1
      <4>1. i \in 1 .. Len(ends) /\ i \in 0 .. Len(ends) /\ i - 1 \in 0 .. Len(ends)
        BY <1>1, <3>2
      <4>2. EndOf(i) = EndOf(i - 1) + Buffer0Size
        BY <2>2, <4>1 DEF EndsOK
      <4>3. EndOf(i)' = EndOf(i)
        BY <1>5, <4>1
      <4>4. PICK j : j = i - 1
        OBVIOUS
      <4>5. EndOf(j)' = EndOf(j)
        BY <1>5, <4>1, <4>4
      <4> QED
        BY <4>2, <4>3, <4>4, <4>5
    <3> QED
      BY <3>1, <3>2
  <2>3. sd_pointer' = first' + Len(ends') * Buffer0Size
    <3>1. sd_pointer = first + Len(ends) * Buffer0Size
      BY DEF EndsOK
    <3>2. (Len(ends) + 1) * Buffer0Size = Len(ends) * Buffer0Size + Buffer0Size
      BY <1>1, Sizes
    <3>3. Len(ends) * Buffer0Size \in Nat /\ first \in Nat
      BY <1>1, Sizes DEF SdTyped
    <3> QED
      BY <1>3, <3>1, <3>2, <3>3, Sizes
  <2> QED
    BY <1>3, <2>1, <2>2, <2>3 DEF EndsOK
<1> QED
  BY <1>1, <1>2, <1>3, <1>5, <1>6, <1>7, <1>8

-----------------------------------------------------------------------------

LEMMA FlushKeeps ==
  ASSUME SdTyped, EndsOK, NEW b0, NEW b1, NEW n, NEW chars \in Seq(Char),
         BuffersOK(b0, b1, n), InFlight(b0, b1, n, Sent, chars), Written(chars),
         Flush(b0, b1, n),
         accepted' = chars, first' = first, inPuts' \in BOOLEAN,
         early \subseteq early',
         \/ n >= Buffer0Size /\ early' = early
         \/ early' = IF unopened' THEN early ELSE early \cup {Len(ends) + 1}
  PROVE  SdInv'
<1>1. inPuts \in BOOLEAN /\ unopened \in BOOLEAN
  BY DEF SdTyped
<1>2. n \in 0 .. Limit /\ n \in Nat
  BY Sizes DEF BuffersOK
<1>4. CASE CannotOpen(b0, b1, n)
  <2>1. /\ unopened' = TRUE /\ early' = early
        /\ sd_buffer0' = b0 /\ sd_buffer1' = b1 /\ sd_index' = n
        /\ UNCHANGED <<sd_pointer, log, ends, source>>
    BY <1>4 DEF CannotOpen, Hold
  <2>2. {inPuts, unopened}' \subseteq BOOLEAN
    BY <2>1
  <2>3. SdTyped'
    BY <2>1, <2>2 DEF SdTyped
  <2>4. Sent' = Sent /\ \A i : EndOf(i)' = EndOf(i) /\ Position(i)' = Position(i)
    BY <2>1 DEF Sent, EndOf, Position
  <2>5. EndsOK'
    BY <2>1, <2>4 DEF EndsOK
  <2>6. BuffersOK(sd_buffer0, sd_buffer1, sd_index)'
    BY <2>1 DEF BuffersOK
  <2>7. InFlight(sd_buffer0, sd_buffer1, sd_index, Sent, accepted)'
    BY <2>1, <2>4 DEF InFlight
  <2>8. Written(accepted)'
    <3> SUFFICES ASSUME NEW p \in Blocks, source'[p] # 0
                 PROVE  Holds(p, source[p], chars)'
      BY <2>1 DEF Written
    <3> QED
      BY <2>1, <2>4 DEF Written, Holds, StartsBlock, EndOf, Position
  <2> QED
    BY <2>1, <2>3, <2>5, <2>6, <2>7, <2>8 DEF SdInv, WaitsOnlyForLog
<1>5. CASE ~CannotOpen(b0, b1, n)
  <2>10. PICK m \in Nat : m = Second(n)
    BY <1>2, SecondInCells
  <2>1. /\ m \in Cells0 /\ m \in Cells1
        /\ n >= Buffer0Size => n = Buffer0Size + m
        /\ n < Buffer0Size => m = 0
    BY <1>2, <2>10, SecondInCells
  <2>11. StrLen(b1) = m /\ m < Buffer0Size /\ m \in 0 .. Limit
    BY <2>1, <2>10, StrLenOfSecond, Sizes DEF Cells0
  <2>2. /\ unopened' = FALSE /\ WriteBlock(b0) /\ sd_index' = m
        /\ sd_buffer0' = [k \in Cells0 |-> IF k < m THEN b1[k]
                                           ELSE IF k = m THEN NUL ELSE b0[k]]
        /\ sd_buffer1' = [b1 EXCEPT ![0] = NUL]
        /\ sd_pointer' = sd_pointer + Buffer0Size
        /\ ends' = Append(ends, EndWith(n))
    BY <1>5, <2>11 DEF Flush
  <2>3. \A k \in Cells0 : k < m => k \in Cells1
    BY <2>1, Sizes DEF Cells0, Cells1
  <2>4. BuffersOK(sd_buffer0, sd_buffer1, sd_index)'
    <3>1. sd_buffer0' \in [Cells0 -> Stored]
      BY <2>2, <2>3 DEF BuffersOK, Stored
    <3>2. sd_buffer1' \in [Cells1 -> Stored] /\ sd_buffer1'[0] = NUL
      BY <2>2, Sizes DEF BuffersOK, Stored
    <3>3. Second(m) = 0
      BY <2>11, Sizes DEF Second
    <3>4. \A k \in Cells1 : ~(k < 0)
      BY DEF Cells1
    <3> QED
      BY <2>11, <2>2, <3>1, <3>2, <3>3, <3>4 DEF BuffersOK
  <2>5. /\ ends' \in Seq(Nat) /\ Len(ends') = Len(ends) + 1
        /\ \A i \in 0 .. Len(ends) : EndOf(i)' = EndOf(i)
        /\ \A i \in Nat : i = Len(ends) + 1 => EndOf(i)' = EndWith(n)
        /\ Sent \in Nat
        /\ n < Buffer0Size => Sent' = Sent + n
        /\ n >= Buffer0Size => Sent' = Sent + Buffer0Size
        /\ EndsOK'
    <3>1. n >= Buffer0Size \/ Len(ends) + 1 \in early'
      BY <2>2
    <3> QED
      BY <1>2, <2>2, <3>1, EndsAppend
  <2>6. InFlight(sd_buffer0, sd_buffer1, sd_index, Sent, accepted)'
    <3>1. Len(chars) = Sent' + m
      <4>1. Len(chars) = Sent + n
        BY DEF InFlight
      <4>2. PICK s \in Nat : s = Sent
        BY <2>5
      <4>3. CASE n < Buffer0Size
        BY <1>2, <2>1, <2>5, <4>1, <4>2, <4>3
      <4>4. CASE ~(n < Buffer0Size)
        <5>1. Sent' = s + Buffer0Size /\ n = Buffer0Size + m
          BY <1>2, <2>1, <2>5, <4>2, <4>4, Sizes
        <5> QED
          BY <4>1, <4>2, <5>1, Sizes
      <4> QED
        BY <4>3, <4>4
    <3>2. ASSUME NEW k \in 0 .. m - 1
          PROVE  CharAt(sd_buffer0', sd_buffer1', k) = chars[Sent' + k + 1]
      <4>1. k \in Cells0 /\ k < m /\ k < Buffer0Size /\ n = Buffer0Size + m
            /\ Sent' = Sent + Buffer0Size
        BY <1>2, <2>1, <2>5, <2>11, Sizes DEF Cells0
      <4>2. CharAt(sd_buffer0', sd_buffer1', k) = b1[k]
        BY <2>2, <4>1 DEF CharAt
      <4>3. PICK l \in 0 .. n - 1 : l = Buffer0Size + k
        BY <4>1, Sizes
      <4>4. CharAt(b0, b1, l) = chars[Sent + l + 1]
        BY <4>3 DEF InFlight
      <4>5. CharAt(b0, b1, l) = b1[k]
        <5>1. ~(l < Buffer0Size) /\ l - Buffer0Size = k
          BY <4>3, Sizes
        <5> QED
          BY <5>1 DEF CharAt
      <4>6. Sent + l + 1 = Sent' + k + 1
        BY <2>5, <4>1, <4>3, Sizes
      <4> QED
        BY <4>2, <4>4, <4>5, <4>6
    <3> QED
      BY <2>2, <3>1, <3>2 DEF InFlight
  <2>7. log' \in [Blocks -> Block] /\ source' \in [Blocks -> 0 .. Len(ends')]
    <3>1. b0 \in Block /\ Torn \in Block
      BY DEF BuffersOK, Block
    <3>2. log \in [Blocks -> Block] /\ source \in [Blocks -> 0 .. Len(ends) + 1]
      BY LenProperties DEF SdTyped
    <3>3. 0 \in 0 .. Len(ends) + 1 /\ Len(ends) + 1 \in 0 .. Len(ends) + 1
      BY LenProperties DEF SdTyped
    <3> QED
      BY <2>2, <2>5, <3>1, <3>2, <3>3 DEF WriteBlock
  <2>8. Written(accepted)'
    <3> SUFFICES ASSUME NEW p \in Blocks, NEW i, i = source'[p], i # 0
                 PROVE  Holds(p, i, chars)'
      BY <2>2 DEF Written
    <3>1. \A j : Position(j)' = Position(j)
      BY DEF Position
    <3>2. i \in 1 .. Len(ends) + 1 /\ i \in Nat /\ i - 1 \in 0 .. Len(ends)
          /\ Len(ends) \in Nat
      BY <2>5, <2>7, LenProperties DEF SdTyped
    <3>3. PICK j : j = i - 1
      OBVIOUS
    <3>4. EndOf(j)' = EndOf(j) /\ EndOf(j) = EndOf(i - 1)
      BY <2>5, <3>2, <3>3
    <3>5. source \in [Blocks -> 0 .. Len(ends)] /\ log \in [Blocks -> Block]
      BY DEF SdTyped
    <3>6. CASE i <= Len(ends)
      <4>1. source[p] = i /\ log'[p] = log[p]
        BY <2>2, <3>2, <3>5, <3>6 DEF WriteBlock
      <4>2. Holds(p, i, chars)
        BY <3>2, <4>1 DEF Written
      <4>3. EndOf(i)' = EndOf(i)
        BY <2>5, <3>2, <3>6
      <4> QED
        BY <3>1, <3>3, <3>4, <4>1, <4>2, <4>3 DEF Holds, StartsBlock
    <3>7. CASE i = Len(ends) + 1
      <4>1. Hits(sd_pointer % DWORD, p) /\ log'[p] = b0
        <5>1. ASSUME UNCHANGED <<log, source>> PROVE FALSE
          <6>1. source[p] \in 0 .. Len(ends)
            BY <3>5
          <6>2. source' = source
            BY <5>1
          <6>3. source[p] = Len(ends) + 1
            BY <3>7, <6>2
          <6> QED
            BY <3>2, <6>1, <6>3
        <5>2. PICK q \in Blocks :
                /\ Hits(sd_pointer % DWORD, q)
                /\ \/ /\ log' = [log EXCEPT ![q] = b0]
                      /\ source' = [source EXCEPT ![q] = Len(ends) + 1]
                   \/ /\ log' = [log EXCEPT ![q] = Torn]
                      /\ source' = [source EXCEPT ![q] = 0]
          BY <2>2, <5>1 DEF WriteBlock
        <5>3. source[p] # i
          BY <3>2, <3>5, <3>7
        <5>4. q = p /\ source' = [source EXCEPT ![q] = Len(ends) + 1]
          BY <3>2, <3>5, <5>2, <5>3
        <5>5. source'[p] # 0
          BY <3>2
        <5>6. log' = [log EXCEPT ![q] = b0]
          BY <3>5, <5>2, <5>4, <5>5
        <5> QED
          BY <3>5, <5>2, <5>4, <5>6
      <4>2. EndOf(i)' = EndWith(n) /\ EndOf(j) = Sent
        <5>1. j = Len(ends)
          BY <3>2, <3>3, <3>7
        <5> QED
          BY <2>5, <3>2, <3>7, <5>1 DEF Sent
      <4>3. ASSUME NEW k \in 1 .. EndWith(n) - Sent
            PROVE  b0[k - 1] = chars[Sent + k]
        <5>1. k - 1 \in 0 .. n - 1 /\ k - 1 < Buffer0Size
              /\ Sent + (k - 1) + 1 = Sent + k
          BY <1>2, <2>5, Sizes DEF EndWith, Sent
        <5>2. CharAt(b0, b1, k - 1) = chars[Sent + (k - 1) + 1]
          BY <5>1 DEF InFlight
        <5> QED
          BY <5>1, <5>2 DEF CharAt
      <4>4. Position(i) = sd_pointer % DWORD
        <5>1. i - 1 = Len(ends)
          BY <3>2, <3>7
        <5> QED
          BY <5>1 DEF Position, EndsOK
      <4>5. StartsBlock(Position(i)) => p * Buffer0Size = Position(i)
        BY <4>1, <4>4 DEF Hits
      <4>6. EndOf(i - 1)' = Sent
        BY <3>3, <3>4, <4>2
      <4> QED
        BY <3>1, <4>1, <4>2, <4>3, <4>5, <4>6 DEF Holds, StartsBlock
    <3> QED
      BY <3>2, <3>6, <3>7
  <2>9. SdTyped'
    <3>1. {inPuts, unopened}' \subseteq BOOLEAN
      BY <2>2
    <3>2. sd_pointer' \in Nat /\ first' \in Nat
      BY <2>2, Sizes DEF SdTyped
    <3> QED
      BY <2>5, <2>7, <3>1, <3>2 DEF SdTyped
  <2>12. WaitsOnlyForLog'
    BY <2>11, <2>2, Sizes DEF WaitsOnlyForLog
  <2> QED
    BY <2>4, <2>5, <2>6, <2>8, <2>9, <2>12 DEF SdInv
<1> QED
  BY <1>4, <1>5

LEMMA FlushIfFullKeeps ==
  ASSUME SdTyped, EndsOK, NEW b0, NEW b1, NEW n, NEW chars \in Seq(Char),
         BuffersOK(b0, b1, n), InFlight(b0, b1, n, Sent, chars), Written(chars),
         FlushIfFull(b0, b1, n),
         accepted' = chars, first' = first, inPuts' \in BOOLEAN, early' = early
  PROVE  SdInv'
<1>1. CASE n >= Buffer0Size
  BY <1>1, FlushKeeps DEF FlushIfFull
<1>2. CASE ~(n >= Buffer0Size)
  <2>1. /\ sd_buffer0' = b0 /\ sd_buffer1' = b1 /\ sd_index' = n
        /\ UNCHANGED <<sd_pointer, log, ends, source, unopened>>
    BY <1>2 DEF FlushIfFull, Hold
  <2>2. unopened \in BOOLEAN
    BY DEF SdTyped
  <2>3. {inPuts, unopened}' \subseteq BOOLEAN
    BY <2>1, <2>2
  <2>4. SdTyped'
    BY <2>1, <2>3 DEF SdTyped
  <2>5. Sent' = Sent /\ EndsOK'
    BY <2>1 DEF Sent, EndOf, EndsOK
  <2>6. BuffersOK(sd_buffer0, sd_buffer1, sd_index)'
    BY <2>1 DEF BuffersOK
  <2>7. InFlight(sd_buffer0, sd_buffer1, sd_index, Sent, accepted)'
    BY <2>1, <2>5 DEF InFlight
  <2>8. Written(accepted)'
    BY <2>1 DEF Written, Holds, StartsBlock, EndOf, Position
  <2>9. WaitsOnlyForLog'
    BY <1>2, <2>1 DEF WaitsOnlyForLog
  <2> QED
    BY <2>4, <2>5, <2>6, <2>7, <2>8, <2>9 DEF SdInv
<1> QED
  BY <1>1, <1>2

-----------------------------------------------------------------------------

(***************************************************************************)
(* A character more leaves what the blocks of the log are compared with.   *)
(***************************************************************************)
LEMMA WrittenAppend ==
  ASSUME SdInv, NEW data \in Char
  PROVE  /\ Append(accepted, data) \in Seq(Char)
         /\ Written(Append(accepted, data))
         /\ Len(accepted) = Sent + sd_index
         /\ Sent \in Nat /\ sd_index \in Nat
         /\ Len(Append(accepted, data)) = Sent + sd_index + 1
         /\ Append(accepted, data)[Sent + sd_index + 1] = data
         /\ \A k \in 0 .. sd_index - 1 :
              Append(accepted, data)[Sent + k + 1] = accepted[Sent + k + 1]
<1> DEFINE more == Append(accepted, data)
<1>1. /\ more \in Seq(Char) /\ Len(more) = Len(accepted) + 1 /\ Len(accepted) \in Nat
      /\ \A i \in 1 .. Len(accepted) : more[i] = accepted[i]
      /\ more[Len(accepted) + 1] = data
  BY AppendProperties, LenProperties DEF SdInv, SdTyped
<1> HIDE DEF more
<1>2. /\ Sent \in Nat /\ ends \in Seq(Nat) /\ Len(ends) \in Nat
      /\ \A i \in 0 .. Len(ends) : EndOf(i) \in Nat /\ EndOf(i) <= Sent
  BY SentTyped DEF SdInv, SdTyped, EndsOK
<1>3. sd_index \in Nat /\ Len(accepted) = Sent + sd_index
  BY Sizes DEF SdInv, BuffersOK, InFlight
<1>4. \A k \in 0 .. sd_index - 1 :
        more[Sent + k + 1] = accepted[Sent + k + 1]
  BY <1>1, <1>2, <1>3
<1>5. Written(more)
  <2> SUFFICES ASSUME NEW p \in Blocks, NEW i, i = source[p], i # 0
               PROVE  Holds(p, i, more)
    BY DEF Written
  <2>1. Holds(p, i, accepted)
    BY DEF SdInv, Written
  <2>2. i \in 0 .. Len(ends) /\ i - 1 \in 0 .. Len(ends)
    BY <1>2 DEF SdInv, SdTyped
  <2>3. ASSUME NEW k \in 1 .. EndOf(i) - EndOf(i - 1)
        PROVE  more[EndOf(i - 1) + k] = accepted[EndOf(i - 1) + k]
    <3>1. EndOf(i - 1) + k \in 1 .. Len(accepted)
      BY <1>2, <1>3, <2>2
    <3> QED
      BY <1>1, <3>1
  <2> QED
    BY <2>1, <2>3 DEF Holds
<1> QED
  BY <1>1, <1>2, <1>3, <1>4, <1>5 DEF more

LEMMA PutcKeeps ==
  ASSUME SdInv, NEW data \in Char, SdPutc(data)
  PROVE  SdInv'
<1>1. PICK more \in Seq(Char) : more = Append(accepted, data)
  BY WrittenAppend
<1>2. /\ Written(more)
      /\ Sent \in Nat /\ sd_index \in Nat
      /\ Len(more) = Sent + sd_index + 1
      /\ more[Sent + sd_index + 1] = data
      /\ \A k \in 0 .. sd_index - 1 :
           more[Sent + k + 1] = accepted[Sent + k + 1]
  BY <1>1, WrittenAppend
<1>3. /\ SdTyped /\ EndsOK /\ accepted \in Seq(Char) /\ Written(accepted)
      /\ BuffersOK(sd_buffer0, sd_buffer1, sd_index)
      /\ InFlight(sd_buffer0, sd_buffer1, sd_index, Sent, accepted)
  BY DEF SdInv, SdTyped
<1>4. first' = first /\ inPuts' \in BOOLEAN /\ early' = early
  <2>1. inPuts \in BOOLEAN
    BY <1>3 DEF SdTyped
  <2> QED
    BY <2>1 DEF SdPutc
<1>5. data \in Stored /\ data # NUL /\ NUL \in Stored
  BY Sizes DEF Stored
<1>6. CASE /\ sd_index < Buffer0Size
           /\ FlushIfFull([sd_buffer0 EXCEPT ![sd_index] = data], sd_buffer1, sd_index + 1)
           /\ accepted' = Append(accepted, data)
  <2>1. PICK b0 : b0 = [sd_buffer0 EXCEPT ![sd_index] = data]
    OBVIOUS
  <2>2. sd_index \in Cells0 /\ sd_index + 1 \in 0 .. Limit
    BY <1>2, <1>6, Sizes DEF Cells0
  <2>3. Second(sd_index) = 0 /\ Second(sd_index + 1) = 0
    BY <1>2, <1>6, Sizes DEF Second
  <2>4. b0 \in [Cells0 -> Stored] /\ \A k \in Cells0 :
          b0[k] = IF k = sd_index THEN data ELSE sd_buffer0[k]
    BY <1>3, <1>5, <2>1, <2>2 DEF BuffersOK
  <2>5. BuffersOK(b0, sd_buffer1, sd_index + 1)
    BY <1>3, <2>2, <2>3, <2>4 DEF BuffersOK
  <2>6. ASSUME NEW k \in 0 .. sd_index
        PROVE  CharAt(b0, sd_buffer1, k) = more[Sent + k + 1]
    <3>1. k \in Cells0 /\ k < Buffer0Size
      BY <1>2, <1>6, Sizes DEF Cells0
    <3>2. CASE k = sd_index
      BY <1>2, <2>4, <3>1, <3>2 DEF CharAt
    <3>3. CASE k # sd_index
      <4>1. k \in 0 .. sd_index - 1
        BY <1>2, <3>3
      <4>2. CharAt(sd_buffer0, sd_buffer1, k) = accepted[Sent + k + 1]
        BY <1>3, <4>1 DEF InFlight
      <4> QED
        BY <1>2, <2>4, <3>1, <3>3, <4>1, <4>2 DEF CharAt
    <3> QED
      BY <3>2, <3>3
  <2>7. InFlight(b0, sd_buffer1, sd_index + 1, Sent, more)
    <3>1. (sd_index + 1) - 1 = sd_index
      BY <1>2
    <3>2. Len(more) = Sent + (sd_index + 1)
      BY <1>2
    <3> QED
      BY <2>6, <3>1, <3>2 DEF InFlight
  <2> QED
    BY <1>1, <1>2, <1>3, <1>4, <1>6, <2>1, <2>5, <2>7, FlushIfFullKeeps
<1>7. CASE /\ FitsSecond(sd_index)
           /\ FlushIfFull(sd_buffer0,
                          [sd_buffer1 EXCEPT ![sd_index - Buffer0Size] = data,
                                             ![sd_index - Buffer0Size + 1] = NUL],
                          sd_index + 1)
           /\ accepted' = Append(accepted, data)
  <2>1. PICK j \in Nat : j = sd_index - Buffer0Size
    BY <1>2, <1>7, Sizes DEF FitsSecond
  <2>2. PICK b1 : b1 = [sd_buffer1 EXCEPT ![j] = data, ![j + 1] = NUL]
    OBVIOUS
  <2>3. /\ j \in Cells1 /\ j + 1 \in Cells1 /\ j + 1 # j
        /\ sd_index + 1 \in 0 .. Limit
        /\ Second(sd_index) = j /\ Second(sd_index + 1) = j + 1
        /\ sd_index = Buffer0Size + j
    BY <1>2, <1>7, <2>1, Sizes DEF FitsSecond, Cells1, Second
  <2>4. b1 \in [Cells1 -> Stored] /\ \A k \in Cells1 :
          b1[k] = IF k = j + 1 THEN NUL ELSE IF k = j THEN data ELSE sd_buffer1[k]
    BY <1>3, <1>5, <2>2, <2>3 DEF BuffersOK
  <2>5. BuffersOK(sd_buffer0, b1, sd_index + 1)
    <3>1. \A k \in Cells1 : k < j + 1 => k < j \/ k = j
      BY <2>1 DEF Cells1
    <3>2. \A k \in Cells1 : k < j => sd_buffer1[k] # NUL
      BY <1>3, <2>3 DEF BuffersOK
    <3>3. \A k \in Cells1 : k < j + 1 => k # j + 1
      BY <2>1 DEF Cells1
    <3>4. \A k \in Cells1 : k < j + 1 => b1[k] # NUL
      BY <1>5, <2>4, <3>1, <3>2, <3>3
    <3> QED
      BY <1>3, <2>3, <2>4, <3>4 DEF BuffersOK
  <2>6. ASSUME NEW k \in 0 .. sd_index
        PROVE  CharAt(sd_buffer0, b1, k) = more[Sent + k + 1]
    <3>1. CASE k = sd_index
      <4>1. ~(k < Buffer0Size) /\ k - Buffer0Size = j
        BY <2>1, <2>3, <3>1, Sizes
      <4> QED
        BY <1>2, <2>3, <2>4, <3>1, <4>1 DEF CharAt
    <3>2. CASE k # sd_index
      <4>1. k \in 0 .. sd_index - 1
        BY <1>2, <3>2
      <4>2. CharAt(sd_buffer0, sd_buffer1, k) = accepted[Sent + k + 1]
        BY <1>3, <4>1 DEF InFlight
      <4>3. CharAt(sd_buffer0, b1, k) = CharAt(sd_buffer0, sd_buffer1, k)
        <5>1. ~(k < Buffer0Size) =>
                /\ k - Buffer0Size \in Cells1
                /\ k - Buffer0Size # j /\ k - Buffer0Size # j + 1
          BY <1>2, <2>1, <2>3, <4>1, Sizes DEF Cells1
        <5> QED
          BY <2>4, <5>1 DEF CharAt
      <4> QED
        BY <1>2, <4>1, <4>2, <4>3
    <3> QED
      BY <3>1, <3>2
  <2>7. InFlight(sd_buffer0, b1, sd_index + 1, Sent, more)
    <3>1. (sd_index + 1) - 1 = sd_index
      BY <1>2
    <3>2. Len(more) = Sent + (sd_index + 1)
      BY <1>2
    <3> QED
      BY <2>6, <3>1, <3>2 DEF InFlight
  <2>8. FlushIfFull(sd_buffer0, b1, sd_index + 1)
    BY <1>7, <2>1, <2>2
  <2> QED
    BY <1>1, <1>2, <1>3, <1>4, <1>7, <2>5, <2>7, <2>8, FlushIfFullKeeps
<1>8. CASE /\ sd_index >= Buffer0Size /\ ~FitsSecond(sd_index)
           /\ Flush(sd_buffer0, sd_buffer1, sd_index)
           /\ UNCHANGED accepted
  BY <1>3, <1>4, <1>8, FlushKeeps
<1> QED
  BY <1>6, <1>7, <1>8 DEF SdPutc

(***************************************************************************)
(* The state after power-up, whatever the log holds.                       *)
(***************************************************************************)
LEMMA EmptyBuffers ==
  /\ BuffersOK(Empty(Cells0), Empty(Cells1), 0)
  /\ \A s \in Nat : InFlight(Empty(Cells0), Empty(Cells1), 0, s, <<>>) <=> s = 0
<1>1. Second(0) = 0
  BY Sizes DEF Second
<1>2. Empty(Cells0) \in [Cells0 -> Stored] /\ Empty(Cells1) \in [Cells1 -> Stored]
  BY DEF Empty, Stored
<1>3. Empty(Cells1)[0] = NUL /\ \A k \in Cells1 : ~(k < 0)
  BY Sizes DEF Empty, Cells1
<1>4. BuffersOK(Empty(Cells0), Empty(Cells1), 0)
  BY <1>1, <1>2, <1>3, Sizes DEF BuffersOK
<1>5. Len(<<>>) = 0
  OBVIOUS
<1> QED
  BY <1>4, <1>5 DEF InFlight

LEMMA EmptyEnds ==
  /\ <<>> \in Seq(Nat) /\ Len(<<>>) = 0
  /\ Nothing \in [Blocks -> 0 .. 0]
  /\ 0 * Buffer0Size = 0
BY Sizes DEF Nothing

LEMMA SdInitially == SdInit => SdInv
<1> SUFFICES ASSUME SdInit PROVE SdInv
  OBVIOUS
<1>1. {inPuts, unopened} \subseteq BOOLEAN
  BY DEF SdInit
<1>2. SdTyped
  BY <1>1, EmptySeq, EmptyEnds DEF SdInit, SdTyped, Block, Nothing
<1>3. Sent = 0 /\ EndsOK
  BY EmptyEnds, Sizes DEF SdInit, Sent, EndOf, EndsOK
<1>4. /\ BuffersOK(sd_buffer0, sd_buffer1, sd_index)
      /\ InFlight(sd_buffer0, sd_buffer1, sd_index, Sent, accepted)
  BY <1>3, EmptyBuffers DEF SdInit
<1>5. Written(accepted) /\ WaitsOnlyForLog
  BY Sizes DEF SdInit, Written, WaitsOnlyForLog, Nothing
<1> QED
  BY <1>2, <1>3, <1>4, <1>5 DEF SdInv

LEMMA RestartKeeps ==
  ASSUME SdInv, Restart
  PROVE  SdInv'
<1>1. /\ sd_buffer0' = Empty(Cells0) /\ sd_buffer1' = Empty(Cells1) /\ sd_index' = 0
      /\ sd_pointer' = 0 /\ first' = 0 /\ accepted' = <<>> /\ log' = log
      /\ ends' = <<>> /\ source' = Nothing
  BY DEF Restart, Hold
<1>2. {inPuts, unopened}' \subseteq BOOLEAN
  BY DEF Restart
<1>3. SdTyped'
  BY <1>1, <1>2, EmptySeq, EmptyEnds DEF SdInv, SdTyped
<1>4. Sent' = 0 /\ EndsOK'
  BY <1>1, EmptyEnds, Sizes DEF Sent, EndOf, EndsOK
<1>5. /\ BuffersOK(sd_buffer0, sd_buffer1, sd_index)'
      /\ InFlight(sd_buffer0, sd_buffer1, sd_index, Sent, accepted)'
  BY <1>1, <1>4, EmptyBuffers
<1>6. Written(accepted)' /\ WaitsOnlyForLog'
  BY <1>1, Sizes DEF Written, WaitsOnlyForLog, Nothing
<1> QED
  BY <1>3, <1>4, <1>5, <1>6 DEF SdInv

(***************************************************************************)
(* The characters that wait are the last ones accepted.                    *)
(***************************************************************************)
LEMMA WaitingAccepted ==
  ASSUME SdInv
  PROVE  /\ Waiting = SubSeq(accepted, Sent + 1, Len(accepted))
         /\ Waiting \in Seq(Char) /\ Len(Waiting) = sd_index
         /\ \A k \in 0 .. sd_index - 1 : Waiting[k + 1] = CharAt(sd_buffer0, sd_buffer1, k)
<1> DEFINE tail == SubSeq(accepted, Sent + 1, Len(accepted))
<1>1. /\ Sent \in Nat /\ sd_index \in Nat
      /\ Len(accepted) = Sent + sd_index
      /\ accepted \in Seq(Char)
  BY SentTyped, Sizes DEF SdInv, SdTyped, BuffersOK, InFlight
<1>2. \A i \in Sent + 1 .. Len(accepted) : accepted[i] \in Char
  BY <1>1, ElementOfSeq
<1>3. /\ tail \in Seq(Char)
      /\ Len(tail) = sd_index
      /\ \A i \in 1 .. sd_index : tail[i] = accepted[Sent + i]
  <2>1. PICK m \in Int : m = Sent + 1
    BY <1>1
  <2>2. PICK n \in Int : n = Len(accepted)
    BY <1>1
  <2>3. /\ SubSeq(accepted, m, n) \in Seq(Char)
        /\ Len(SubSeq(accepted, m, n)) = IF m <= n THEN n - m + 1 ELSE 0
        /\ \A i \in 1 .. n - m + 1 : SubSeq(accepted, m, n)[i] = accepted[m + i - 1]
    BY <1>2, <2>1, <2>2, SubSeqProperties
  <2>4. n - m + 1 = sd_index /\ (sd_index # 0 => m <= n)
    BY <1>1, <2>1, <2>2
  <2>5. \A i \in 1 .. sd_index : m + i - 1 = Sent + i
    BY <1>1, <2>1
  <2> QED
    BY <1>1, <2>1, <2>2, <2>3, <2>4, <2>5
<1>4. ASSUME NEW i \in 1 .. sd_index
      PROVE  Waiting[i] = tail[i] /\ Waiting[i] = CharAt(sd_buffer0, sd_buffer1, i - 1)
  <2>1. i - 1 \in 0 .. sd_index - 1 /\ Sent + (i - 1) + 1 = Sent + i
    BY <1>1
  <2>2. CharAt(sd_buffer0, sd_buffer1, i - 1) = accepted[Sent + (i - 1) + 1]
    BY <2>1 DEF SdInv, InFlight
  <2>3. i <= Buffer0Size <=> i - 1 < Buffer0Size
    BY <1>1, Sizes
  <2>4. Waiting[i] = CharAt(sd_buffer0, sd_buffer1, i - 1)
    BY <2>3 DEF Waiting, CharAt
  <2> QED
    BY <1>3, <2>1, <2>2, <2>4
<1>5. Waiting = [i \in 1 .. sd_index |-> Waiting[i]]
  BY DEF Waiting
<1>6. tail = [i \in 1 .. sd_index |-> tail[i]]
  BY <1>3, LenProperties
<1> HIDE DEF tail
<1>7. Waiting = tail
  BY <1>4, <1>5, <1>6
<1>8. ASSUME NEW k \in 0 .. sd_index - 1
      PROVE  Waiting[k + 1] = CharAt(sd_buffer0, sd_buffer1, k)
  <2>1. k + 1 \in 1 .. sd_index /\ (k + 1) - 1 = k
    BY <1>1
  <2> QED
    BY <1>4, <2>1
<1> QED
  BY <1>3, <1>7, <1>8 DEF tail

LEMMA ReadPtrKeeps ==
  ASSUME SdInv, SdReadPtr
  PROVE  SdInv'
<1>1. /\ first' = sd_pointer' /\ accepted' = Waiting
      /\ ends' = <<>> /\ source' = Nothing
      /\ UNCHANGED <<sd_buffer0, sd_buffer1, sd_index, inPuts, log, unopened>>
  BY DEF SdReadPtr, buffers
<1>2. {inPuts, unopened}' \subseteq BOOLEAN
  BY <1>1 DEF SdInv, SdTyped
<1>3. SdTyped'
  <2>1. accepted' \in Seq(Char)
    BY <1>1, WaitingAccepted
  <2>2. log' \in [Blocks -> Block]
    BY <1>1 DEF SdInv, SdTyped
  <2>3. sd_pointer' \in Nat
    <3>1. PICK stored \in StoredPointer : sd_pointer' = (sd_pointer \div DWORD) * DWORD + stored
      BY DEF SdReadPtr
    <3>2. DWORD \in Nat \ {0} /\ stored \in Nat /\ sd_pointer \in Nat
      BY SdCardAssumption DEF SdInv, SdTyped
    <3>3. PICK q \in Nat : q = sd_pointer \div DWORD
      BY <3>2
    <3>4. q * DWORD \in Nat
      BY <3>2
    <3> QED
      BY <3>1, <3>2, <3>3, <3>4
  <2> QED
    BY <1>1, <1>2, <2>1, <2>2, <2>3, EmptyEnds DEF SdTyped
<1>4. Sent' = 0 /\ EndsOK'
  <2>1. PICK f \in Nat : f = first'
    BY <1>3 DEF SdTyped
  <2>2. Sent' = 0
    BY <1>1, EmptyEnds DEF Sent, EndOf
  <2>3. \A i \in 0 .. Len(ends') : EndOf(i)' = 0
    BY <1>1, EmptyEnds DEF EndOf
  <2>4. \A i \in 1 .. Len(ends') : FALSE
    BY <1>1, EmptyEnds
  <2>5. sd_pointer' = first' + Len(ends') * Buffer0Size
    <3>1. Len(ends') = 0
      BY <1>1, EmptyEnds
    <3>2. f = f + 0
      OBVIOUS
    <3> QED
      BY <1>1, <2>1, <3>1, <3>2, EmptyEnds
  <2> QED
    BY <2>2, <2>3, <2>4, <2>5 DEF EndsOK
<1>5. InFlight(sd_buffer0, sd_buffer1, sd_index, Sent, accepted)'
  <2>1. Len(Waiting) = 0 + sd_index /\ \A k \in 0 .. sd_index - 1 :
          CharAt(sd_buffer0, sd_buffer1, k) = Waiting[0 + k + 1]
    BY WaitingAccepted, Sizes DEF SdInv, BuffersOK
  <2> QED
    BY <1>1, <1>4, <2>1 DEF InFlight
<1>6. BuffersOK(sd_buffer0, sd_buffer1, sd_index)'
  BY <1>1 DEF SdInv
<1>7. Written(accepted)' /\ WaitsOnlyForLog'
  BY <1>1 DEF SdInv, Written, Nothing, WaitsOnlyForLog
<1> QED
  BY <1>3, <1>4, <1>5, <1>6, <1>7 DEF SdInv

LEMMA SdInvInductive == SdInv /\ [SdNext]_sdVars => SdInv'
<1> SUFFICES ASSUME SdInv, [SdNext]_sdVars PROVE SdInv'
  OBVIOUS
<1>1. ASSUME NEW data \in Char, SdPutc(data) PROVE SdInv'
  BY <1>1, PutcKeeps
<1>2. CASE BeginPuts \/ UNCHANGED sdVars
  <2>1. UNCHANGED <<sd_buffer0, sd_buffer1, sd_index, sd_pointer, log, accepted, first, ends,
                    early, source, unopened>>
    BY <1>2 DEF BeginPuts, sdVars, buffers
  <2>2. inPuts' \in BOOLEAN /\ unopened' \in BOOLEAN
    <3>1. inPuts \in BOOLEAN /\ unopened \in BOOLEAN
      BY DEF SdInv, SdTyped
    <3>2. inPuts' = TRUE \/ inPuts' = inPuts
      BY <1>2 DEF BeginPuts, sdVars
    <3> QED
      BY <2>1, <3>1, <3>2
  <2>3. {inPuts, unopened}' \subseteq BOOLEAN
    BY <2>2
  <2>4. SdTyped'
    BY <2>1, <2>3 DEF SdInv, SdTyped
  <2>5. EndsOK' /\ Sent' = Sent
    BY <2>1 DEF SdInv, EndsOK, Sent, EndOf
  <2>6. BuffersOK(sd_buffer0, sd_buffer1, sd_index)'
    BY <2>1 DEF SdInv, BuffersOK
  <2>7. InFlight(sd_buffer0, sd_buffer1, sd_index, Sent, accepted)'
    BY <2>1, <2>5 DEF SdInv, InFlight
  <2>8. Written(accepted)'
    BY <2>1 DEF SdInv, Written, Holds, StartsBlock, EndOf, Position
  <2>9. WaitsOnlyForLog'
    BY <2>1 DEF SdInv, WaitsOnlyForLog
  <2> QED
    BY <2>4, <2>5, <2>6, <2>7, <2>8, <2>9 DEF SdInv
<1>3. CASE EndPuts
  <2>1. /\ FlushIfFull(sd_buffer0, sd_buffer1, sd_index)
        /\ accepted' = accepted /\ first' = first /\ early' = early /\ inPuts' \in BOOLEAN
    BY <1>3 DEF EndPuts
  <2> QED
    BY <2>1, FlushIfFullKeeps DEF SdInv, SdTyped
<1>4. CASE FlushDirectly
  <2>1. /\ Flush(sd_buffer0, sd_buffer1, sd_index)
        /\ accepted' = accepted /\ first' = first /\ inPuts' = inPuts
        /\ early' = IF unopened' THEN early ELSE early \cup {Len(ends) + 1}
    BY <1>4 DEF FlushDirectly
  <2>2. early \subseteq early' /\ inPuts' \in BOOLEAN
    BY <2>1 DEF SdInv, SdTyped
  <2> QED
    BY <2>1, <2>2, FlushKeeps DEF SdInv, SdTyped
<1>5. CASE SdReadPtr
  BY <1>5, ReadPtrKeeps
<1>6. CASE Restart
  BY <1>6, RestartKeeps
<1> QED
  BY <1>1, <1>2, <1>3, <1>4, <1>5, <1>6 DEF SdNext

LEMMA SdInvariant == SdSpec => []SdInv
BY SdInitially, SdInvInductive, PTL DEF SdSpec

-----------------------------------------------------------------------------

(***************************************************************************)
(* The characters that collect never leave the two buffers, and the second *)
(* one always ends in a null character, as strlen and sprintf expect.      *)
(***************************************************************************)
THEOREM SdTypeCorrect == SdSpec => []SdTypeOK
<1>1. ASSUME SdInv PROVE SdTypeOK
  <2>1. Second(sd_index) \in Cells1 /\ sd_buffer1[Second(sd_index)] = NUL
    BY <1>1, SecondInCells DEF SdInv, BuffersOK
  <2>2. \E k \in Cells1 : sd_buffer1[k] = NUL
    BY <2>1
  <2> QED
    BY <1>1, <2>2 DEF SdInv, SdTyped, EndsOK, BuffersOK, Stored, SdTypeOK
<1> QED
  BY <1>1, SdInvariant, PTL

(***************************************************************************)
(* The blocks that were written hold the accepted characters in order, and *)
(* the rest waits in the buffers: nothing is lost between two flushes and  *)
(* nothing is written twice, whatever write or opening of the log failed.  *)
(***************************************************************************)
THEOREM LogKeepsOrder == SdSpec => []LogInOrder
<1>1. ASSUME SdInv PROVE LogInOrder
  <2>1. Waiting = SubSeq(accepted, Sent + 1, Len(accepted))
    BY <1>1, WaitingAccepted
  <2>2. ASSUME NEW p \in Blocks, NEW i, i = source[p], i # 0
        PROVE  /\ Holds(p, i, accepted)
               /\ i \notin early => EndOf(i) = EndOf(i - 1) + Buffer0Size
    <3>1. i \in 1 .. Len(ends)
      BY <1>1, <2>2, LenProperties DEF SdInv, SdTyped
    <3>2. Holds(p, i, accepted)
      BY <1>1, <2>2 DEF SdInv, Written
    <3> QED
      BY <1>1, <3>1, <3>2 DEF SdInv, EndsOK
  <2> QED
    BY <2>1, <2>2 DEF Holds, Sent, LogInOrder
<1> QED
  BY <1>1, SdInvariant, PTL

(***************************************************************************)
(* The second buffer is used only while the log cannot be opened.          *)
(***************************************************************************)
THEOREM SecondBufferOnlyUnopened == SdSpec => []WaitsOnlyForLog
<1>1. SdInv => WaitsOnlyForLog
  BY DEF SdInv
<1> QED
  BY <1>1, SdInvariant, PTL
=============================================================================
