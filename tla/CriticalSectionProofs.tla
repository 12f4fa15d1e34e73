------------------------ MODULE CriticalSectionProofs ------------------------
(***************************************************************************)
(* However deep sections are nested, in the main program and in a handler, *)
(* none of them is ever interrupted.                                       *)
(***************************************************************************)
EXTENDS CriticalSection, SequenceTheorems, TLAPS

(***************************************************************************)
(* What holds of the frames of the stack: a handler only runs above        *)
(* sections that have done nothing but save SREG; only the innermost frame *)
(* is at work; and what a section saved is whether interrupts were enabled *)
(* around it.                                                              *)
(***************************************************************************)
Quiet(n) == \A k \in 1 .. n : stack[k].step = "saved"

HandlerAboveQuiet == \A j \in 1 .. Depth : IsHandler(j) => Quiet(j - 1)

OnlyTopWorks ==
  \A i \in 1 .. Depth - 1 : stack[i].step \in {"handler", "saved", "closed"}

SavedIsQuiet == \A i \in 1 .. Depth : ~IsHandler(i) => (stack[i].sreg <=> Quiet(i - 1))

(***************************************************************************)
(* The flag is set outside handlers and working sections, and for the one  *)
(* instruction after sei.                                                  *)
(***************************************************************************)
FlagIsQuiet ==
  /\ iflag <=> (Quiet(Depth) \/ At = "opened")
  /\ At = "opened" => shadow

CopyIsFresh == At = "loaded" => Top.copy = kv1flags

StackInv ==
  /\ iflag \in BOOLEAN /\ shadow \in BOOLEAN
  /\ stack \in Seq(Frame)
  /\ kv1flags \in SUBSET Flag

SectionInv ==
  /\ StackInv
  /\ HandlerAboveQuiet
  /\ OnlyTopWorks
  /\ SavedIsQuiet
  /\ FlagIsQuiet
  /\ CopyIsFresh
  /\ NoWriteUndone

-----------------------------------------------------------------------------

(***************************************************************************)
(* The three ways the stack changes, frame by frame.                       *)
(***************************************************************************)
LEMMA Pushed ==
  ASSUME stack \in Seq(Frame), NEW frame \in Frame, stack' = Append(stack, frame)
  PROVE  /\ stack' \in Seq(Frame)
         /\ Depth \in Nat /\ Depth' = Depth + 1
         /\ \A k \in 1 .. Depth : stack'[k] = stack[k]
         /\ stack'[Depth'] = frame
         /\ At' = frame.step /\ Top' = frame
<1>1. stack' # <<>>
  BY AppendProperties
<1> QED
  BY <1>1, AppendProperties, LenProperties DEF Depth, At, Top

LEMMA Replaced ==
  ASSUME stack \in Seq(Frame), stack # <<>>, NEW frame \in Frame, Replace(frame)
  PROVE  /\ stack' \in Seq(Frame)
         /\ Depth \in Nat /\ Depth > 0 /\ Depth' = Depth
         /\ \A k \in 1 .. Depth - 1 : stack'[k] = stack[k]
         /\ stack'[Depth'] = frame
         /\ At' = frame.step /\ Top' = frame
<1>1. Depth \in Nat /\ Depth > 0 /\ Depth \in DOMAIN stack
  BY EmptySeq, LenProperties DEF Depth
<1>2. stack' \in Seq(Frame) /\ Len(stack') = Len(stack)
  BY <1>1, ExceptSeq DEF Replace
<1>3. stack' # <<>>
  BY <1>1, <1>2, EmptySeq DEF Depth
<1>4. Depth' = Depth
  BY <1>2 DEF Depth
<1>5. \A k \in 1 .. Depth : stack'[k] = IF k = Depth THEN frame ELSE stack[k]
  BY <1>1, LenProperties DEF Replace, Depth
<1>6. stack'[Depth'] = frame
  BY <1>1, <1>4, <1>5
<1> QED
  BY <1>1, <1>2, <1>3, <1>4, <1>5, <1>6 DEF At, Top

LEMMA Popped ==
  ASSUME stack \in Seq(Frame), stack # <<>>, Pop
  PROVE  /\ stack' \in Seq(Frame)
         /\ Depth \in Nat /\ Depth > 0 /\ Depth' = Depth - 1
         /\ \A k \in 1 .. Depth - 1 : stack'[k] = stack[k]
         /\ At' = IF Depth = 1 THEN "main" ELSE stack[Depth - 1].step
         /\ Depth # 1 => Top' = stack[Depth - 1]
<1>1. Depth \in Nat /\ Depth > 0
  BY EmptySeq, LenProperties DEF Depth
<1>2. stack' \in Seq(Frame) /\ Len(stack') = Depth - 1
      /\ \A k \in 1 .. Depth - 1 : stack'[k] = stack[k]
  <2>1. \A i \in 1 .. Depth - 1 : stack[i] \in Frame
    BY <1>1, LenProperties DEF Depth
  <2>2. 1 \in Int /\ Depth - 1 \in Int
    BY <1>1
  <2> HIDE DEF Depth
  <2>3. /\ SubSeq(stack, 1, Depth - 1) \in Seq(Frame)
        /\ Len(SubSeq(stack, 1, Depth - 1)) = IF 1 <= Depth - 1 THEN Depth - 1 - 1 + 1 ELSE 0
        /\ \A i \in 1 .. Depth - 1 - 1 + 1 :
             SubSeq(stack, 1, Depth - 1)[i] = stack[1 + i - 1]
    BY <2>1, <2>2, SubSeqProperties
  <2> QED
    BY <1>1, <2>3 DEF Pop
<1>3. stack' = <<>> <=> Depth = 1
  BY <1>1, <1>2, EmptySeq
<1> QED
  BY <1>1, <1>2, <1>3 DEF Depth, At, Top

(***************************************************************************)
(* What each of them keeps of the invariant.                               *)
(***************************************************************************)
FramesInv == HandlerAboveQuiet /\ OnlyTopWorks /\ SavedIsQuiet

LEMMA PushKeeps ==
  ASSUME SectionInv, NEW frame \in Frame,
         Depth \in Nat, Depth' = Depth + 1,
         \A k \in 1 .. Depth : stack'[k] = stack[k],
         stack'[Depth + 1] = frame,
         At \in {"main", "handler", "saved", "closed"},
         frame.step = "handler" => Quiet(Depth),
         frame.step # "handler" => (frame.sreg <=> Quiet(Depth))
  PROVE  /\ FramesInv'
         /\ Quiet(Depth)' <=> Quiet(Depth) /\ frame.step = "saved"
<1> USE DEF SectionInv, StackInv
<1>1. Depth \in Nat /\ Depth' = Depth + 1
  OBVIOUS
<1>2. \A n \in 0 .. Depth : Quiet(n)' <=> Quiet(n)
  BY <1>1 DEF Quiet
<1>3. Depth # 0 => stack[Depth].step \in {"handler", "saved", "closed"}
  <2>1. Depth # 0 => stack # <<>>
    BY EmptySeq DEF Depth
  <2>2. Depth # 0 => stack[Depth] \in Frame
    BY LenProperties DEF Depth
  <2> QED
    BY <2>1, <2>2 DEF At, Top, Frame
<1>4. HandlerAboveQuiet'
  BY <1>1, <1>2 DEF HandlerAboveQuiet, IsHandler
<1>5. OnlyTopWorks'
  BY <1>1, <1>3 DEF OnlyTopWorks
<1>6. SavedIsQuiet'
  BY <1>1, <1>2 DEF SavedIsQuiet, IsHandler
<1>7. Quiet(Depth)' <=> Quiet(Depth) /\ frame.step = "saved"
  BY <1>1 DEF Quiet
<1> QED
  BY <1>1, <1>4, <1>5, <1>6, <1>7 DEF FramesInv

LEMMA ReplaceKeeps ==
  ASSUME SectionInv, stack # <<>>, NEW frame \in Frame, Replace(frame),
         At # "handler", frame.step \notin {"handler", "saved"}, frame.sreg = Top.sreg
  PROVE  /\ FramesInv'
         /\ ~Quiet(Depth)'
<1> USE DEF SectionInv, StackInv
<1>1. /\ Depth \in Nat /\ Depth > 0 /\ Depth' = Depth
      /\ \A k \in 1 .. Depth - 1 : stack'[k] = stack[k]
      /\ stack'[Depth] = frame
  BY Replaced
<1>2. \A n \in 0 .. Depth - 1 : Quiet(n)' <=> Quiet(n)
  BY <1>1 DEF Quiet
<1>3. ~IsHandler(Depth) /\ Top = stack[Depth]
  BY <1>1 DEF At, Top, IsHandler
<1>4. HandlerAboveQuiet'
  BY <1>1, <1>2 DEF HandlerAboveQuiet, IsHandler
<1>5. OnlyTopWorks'
  BY <1>1 DEF OnlyTopWorks
<1>6. SavedIsQuiet'
  BY <1>1, <1>2, <1>3 DEF SavedIsQuiet, IsHandler
<1>7. ~Quiet(Depth)'
  BY <1>1 DEF Quiet
<1> QED
  BY <1>4, <1>5, <1>6, <1>7 DEF FramesInv

LEMMA PopKeeps ==
  ASSUME SectionInv, stack # <<>>, Pop
  PROVE  /\ FramesInv'
         /\ Depth \in Nat /\ Depth > 0
         /\ Quiet(Depth)' <=> Quiet(Depth - 1)
         /\ At' \in {"main", "handler", "saved", "closed"}
<1> USE DEF SectionInv, StackInv
<1>1. /\ Depth \in Nat /\ Depth > 0 /\ Depth' = Depth - 1
      /\ \A k \in 1 .. Depth - 1 : stack'[k] = stack[k]
      /\ At' = IF Depth = 1 THEN "main" ELSE stack[Depth - 1].step
  BY Popped
<1>2. \A n \in 0 .. Depth - 1 : Quiet(n)' <=> Quiet(n)
  BY <1>1 DEF Quiet
<1>3. HandlerAboveQuiet'
  <2>1. \A j \in 1 .. Depth - 1 : j \in 1 .. Depth /\ j - 1 \in 0 .. Depth - 1
    BY <1>1
  <2> QED
    BY <1>1, <1>2, <2>1 DEF HandlerAboveQuiet, IsHandler
<1>4. OnlyTopWorks'
  BY <1>1 DEF OnlyTopWorks
<1>5. SavedIsQuiet'
  BY <1>1, <1>2 DEF SavedIsQuiet, IsHandler
<1>6. At' \in {"main", "handler", "saved", "closed"}
  BY <1>1 DEF OnlyTopWorks
<1>7. Quiet(Depth)' <=> Quiet(Depth - 1)
  BY <1>1, <1>2
<1> QED
  BY <1>1, <1>3, <1>4, <1>5, <1>6, <1>7 DEF FramesInv

-----------------------------------------------------------------------------

LEMMA SectionInvInitially == SectionInit => SectionInv
<1> SUFFICES ASSUME SectionInit PROVE SectionInv
  OBVIOUS
<1>1. stack \in Seq(Frame) /\ Depth = 0 /\ At = "main"
  BY EmptySeq DEF SectionInit, Depth, At
<1>2. HandlerAboveQuiet /\ OnlyTopWorks /\ SavedIsQuiet
  BY <1>1 DEF HandlerAboveQuiet, OnlyTopWorks, SavedIsQuiet
<1>3. iflag = TRUE /\ Quiet(Depth)
  BY <1>1 DEF SectionInit, Quiet
<1>4. FlagIsQuiet
  BY <1>1, <1>3 DEF FlagIsQuiet
<1> QED
  BY <1>1, <1>2, <1>4 DEF SectionInit, SectionInv, StackInv, CopyIsFresh, NoWriteUndone

(***************************************************************************)
(* The frame at work is a section whose SREG was saved with interrupts     *)
(* enabled exactly if everything around it is quiet.                       *)
(***************************************************************************)
LEMMA AtWork ==
  ASSUME SectionInv, At \in {"saved", "closed", "loaded", "opened"}
  PROVE  /\ stack # <<>> /\ Depth \in Nat /\ Depth > 0
         /\ Top \in Frame /\ Top.step = At /\ ~IsHandler(Depth)
         /\ Top.sreg <=> Quiet(Depth - 1)
         /\ Quiet(Depth) <=> Quiet(Depth - 1) /\ At = "saved"
<1>1. stack # <<>>
  BY DEF At
<1>2. Depth \in Nat /\ Depth > 0 /\ stack[Depth] \in Frame
  BY <1>1, EmptySeq, LenProperties DEF Depth, SectionInv, StackInv
<1>3. Top = stack[Depth] /\ Top.step = At
  BY <1>1 DEF At, Top
<1>4. ~IsHandler(Depth)
  BY <1>3 DEF IsHandler
<1>5. Top.sreg <=> Quiet(Depth - 1)
  BY <1>2, <1>3, <1>4 DEF SectionInv, SavedIsQuiet
<1>6. Quiet(Depth) <=> Quiet(Depth - 1) /\ At = "saved"
  BY <1>2, <1>3 DEF Quiet
<1> QED
  BY <1>1, <1>2, <1>3, <1>4, <1>5, <1>6

LEMMA SectionInvInductive == SectionInv /\ [SectionNext]_sectionVars => SectionInv'
<1> SUFFICES ASSUME SectionInv, [SectionNext]_sectionVars PROVE SectionInv'
  OBVIOUS
<1>1. CASE Save
  <2> DEFINE frame == [step |-> "saved", sreg |-> iflag, copy |-> {}]
  <2>1. frame \in Frame /\ frame.step = "saved" /\ frame.sreg = iflag
    BY DEF Frame, SectionInv, StackInv
  <2>2. stack' = Append(stack, frame) /\ At \in {"main", "handler", "closed"}
    BY <1>1 DEF Save
  <2>3. iflag <=> Quiet(Depth)
    BY <2>2 DEF SectionInv, FlagIsQuiet
  <2> HIDE DEF frame
  <2>4. /\ stack' \in Seq(Frame) /\ Depth \in Nat /\ Depth' = Depth + 1
        /\ \A k \in 1 .. Depth : stack'[k] = stack[k]
        /\ stack'[Depth + 1] = frame
        /\ At' = "saved"
    BY <2>1, <2>2, Pushed DEF SectionInv, StackInv
  <2>5. FramesInv' /\ (Quiet(Depth)' <=> Quiet(Depth))
    BY <2>1, <2>2, <2>3, <2>4, PushKeeps
  <2>6. UNCHANGED <<iflag, kv1flags, asked>> /\ shadow' = FALSE
    BY <1>1 DEF Save
  <2>7. FlagIsQuiet'
    BY <2>3, <2>4, <2>5, <2>6 DEF FlagIsQuiet
  <2> QED
    BY <2>4, <2>5, <2>6, <2>7 DEF SectionInv, StackInv, FramesInv, CopyIsFresh, NoWriteUndone
<1>2. ASSUME NEW frame \in Frame, Replace(frame), At \in {"saved", "closed", "loaded"},
             frame.sreg = Top.sreg, frame.step \in {"closed", "loaded", "opened"},
             iflag' = (frame.step = "opened"), shadow' = (frame.step = "opened"),
             frame.step = "loaded" => frame.copy = kv1flags',
             kv1flags' \in SUBSET Flag, kv1flags' = asked'
      PROVE  SectionInv'
  <2>1. stack # <<>>
    BY <1>2, AtWork
  <2>2. stack' \in Seq(Frame) /\ At' = frame.step /\ Top' = frame
    BY <1>2, <2>1, Replaced DEF SectionInv, StackInv
  <2>3. FramesInv' /\ ~Quiet(Depth)'
    BY <1>2, <2>1, ReplaceKeeps
  <2>4. FlagIsQuiet'
    BY <1>2, <2>2, <2>3 DEF FlagIsQuiet
  <2>5. StackInv'
    BY <1>2, <2>2 DEF StackInv
  <2>6. CopyIsFresh' /\ NoWriteUndone'
    BY <1>2, <2>2 DEF CopyIsFresh, NoWriteUndone
  <2> QED
    BY <2>3, <2>4, <2>5, <2>6 DEF SectionInv, FramesInv
<1>3. CASE Disable
  <2> DEFINE frame == [Top EXCEPT !.step = "closed"]
  <2>1. At = "saved" /\ Top \in Frame
    BY <1>3, AtWork DEF Disable
  <2>2. frame \in Frame /\ frame.step = "closed" /\ frame.sreg = Top.sreg
    BY <2>1 DEF Frame
  <2>3. Replace(frame) /\ iflag' = FALSE /\ shadow' = FALSE /\ UNCHANGED <<kv1flags, asked>>
    BY <1>3 DEF Disable
  <2> HIDE DEF frame
  <2> QED
    BY <1>2, <2>1, <2>2, <2>3 DEF SectionInv, StackInv, NoWriteUndone
<1>4. CASE Load
  <2> DEFINE frame == [Top EXCEPT !.step = "loaded", !.copy = kv1flags]
  <2>1. At = "closed" /\ Top \in Frame /\ iflag = FALSE
    BY <1>4, AtWork DEF Load, SectionInv, FlagIsQuiet, StackInv
  <2>2. /\ frame \in Frame /\ frame.step = "loaded" /\ frame.sreg = Top.sreg
        /\ frame.copy = kv1flags
    BY <2>1 DEF Frame, SectionInv, StackInv
  <2>3. Replace(frame) /\ iflag' = FALSE /\ shadow' = FALSE /\ UNCHANGED <<kv1flags, asked>>
    BY <1>4, <2>1 DEF Load
  <2> HIDE DEF frame
  <2> QED
    BY <1>2, <2>1, <2>2, <2>3 DEF SectionInv, StackInv, NoWriteUndone
<1>5. ASSUME NEW flag \in Flag, NEW value \in BOOLEAN, SetFlag(flag, value)
      PROVE  SectionInv'
  <2> DEFINE frame == [Top EXCEPT !.step = "closed", !.copy = {}]
  <2>1. At = "loaded" /\ Top \in Frame /\ iflag = FALSE
    BY <1>5, AtWork DEF SetFlag, SectionInv, FlagIsQuiet, StackInv
  <2>2. frame \in Frame /\ frame.step = "closed" /\ frame.sreg = Top.sreg
    BY <2>1 DEF Frame
  <2>3. Replace(frame) /\ iflag' = FALSE /\ shadow' = FALSE
    BY <1>5, <2>1 DEF SetFlag
  <2>4. kv1flags' \in SUBSET Flag /\ kv1flags' = asked'
    BY <1>5, <2>1 DEF SetFlag, Written, SectionInv, StackInv, CopyIsFresh, NoWriteUndone
  <2> HIDE DEF frame
  <2> QED
    BY <1>2, <2>1, <2>2, <2>3, <2>4
<1>6. CASE Enable
  <2> DEFINE frame == [Top EXCEPT !.step = "opened"]
  <2>1. At = "closed" /\ Top \in Frame
    BY <1>6, AtWork DEF Enable
  <2>2. frame \in Frame /\ frame.step = "opened" /\ frame.sreg = Top.sreg
    BY <2>1 DEF Frame
  <2>3. Replace(frame) /\ iflag' = TRUE /\ shadow' = TRUE /\ UNCHANGED <<kv1flags, asked>>
    BY <1>6 DEF Enable
  <2> HIDE DEF frame
  <2> QED
    BY <1>2, <2>1, <2>2, <2>3 DEF SectionInv, StackInv, NoWriteUndone
<1>7. ASSUME Pop, stack # <<>>, iflag' \in BOOLEAN, iflag' <=> Quiet(Depth - 1),
             shadow' \in BOOLEAN, UNCHANGED <<kv1flags, asked>>
      PROVE  SectionInv'
  <2>1. stack' \in Seq(Frame)
    BY <1>7, Popped DEF SectionInv, StackInv
  <2>2. /\ FramesInv' /\ (Quiet(Depth)' <=> Quiet(Depth - 1))
        /\ At' \in {"main", "handler", "saved", "closed"}
    BY <1>7, PopKeeps
  <2>3. FlagIsQuiet'
    BY <1>7, <2>2 DEF FlagIsQuiet
  <2> QED
    BY <1>7, <2>1, <2>2, <2>3 DEF SectionInv, StackInv, FramesInv, CopyIsFresh, NoWriteUndone
<1>8. CASE Restore
  <2>1. At = "opened"
    BY <1>8 DEF Restore
  <2>2. Top \in Frame /\ (Top.sreg <=> Quiet(Depth - 1)) /\ stack # <<>>
    BY <2>1, AtWork
  <2> QED
    BY <1>7, <1>8, <2>2 DEF Restore, Frame
<1>9. CASE ReturnFromInterrupt
  <2>1. stack # <<>>
    BY <1>9 DEF ReturnFromInterrupt, At
  <2>2. Depth \in Nat /\ Depth > 0 /\ IsHandler(Depth)
    BY <1>9, <2>1, EmptySeq DEF ReturnFromInterrupt, At, Top, Depth, IsHandler, SectionInv, StackInv
  <2>3. Quiet(Depth - 1)
    BY <2>2 DEF SectionInv, HandlerAboveQuiet
  <2> QED
    BY <1>7, <1>9, <2>1, <2>3 DEF ReturnFromInterrupt
<1>10. CASE TakeInterrupt
  <2>1. Handler \in Frame /\ Handler.step = "handler"
    BY DEF Handler, Frame
  <2>2. Quiet(Depth) /\ stack' = Append(stack, Handler)
    BY <1>10 DEF TakeInterrupt, SectionInv, FlagIsQuiet, StackInv
  <2>3. /\ stack' \in Seq(Frame) /\ Depth \in Nat /\ Depth' = Depth + 1
        /\ \A k \in 1 .. Depth : stack'[k] = stack[k]
        /\ stack'[Depth + 1] = Handler
        /\ At' = "handler"
    BY <2>1, <2>2, Pushed DEF SectionInv, StackInv
  <2>4. At \in {"main", "saved"}
    BY <2>2, <2>3 DEF At, Top, Quiet, Depth
  <2>5. FramesInv' /\ ~Quiet(Depth)'
    BY <2>1, <2>2, <2>3, <2>4, PushKeeps
  <2>6. UNCHANGED <<shadow, kv1flags, asked>> /\ iflag' = FALSE
    BY <1>10 DEF TakeInterrupt
  <2>7. FlagIsQuiet'
    BY <2>3, <2>5, <2>6 DEF FlagIsQuiet
  <2> QED
    BY <2>3, <2>5, <2>6, <2>7 DEF SectionInv, StackInv, FramesInv, CopyIsFresh, NoWriteUndone
<1>11. CASE Compute
  <2>1. UNCHANGED <<iflag, stack, kv1flags, asked>> /\ shadow' = FALSE
        /\ At \in {"main", "handler"}
    BY <1>11 DEF Compute
  <2> QED
    BY <2>1 DEF SectionInv, StackInv, HandlerAboveQuiet, OnlyTopWorks, SavedIsQuiet, FlagIsQuiet,
                CopyIsFresh, NoWriteUndone, Quiet, IsHandler, Depth, At, Top
<1>12. CASE UNCHANGED sectionVars
  BY <1>12 DEF sectionVars, SectionInv, StackInv, HandlerAboveQuiet, OnlyTopWorks, SavedIsQuiet,
               FlagIsQuiet, CopyIsFresh, NoWriteUndone, Quiet, IsHandler, Depth, At, Top
<1> QED
  BY <1>1, <1>3, <1>4, <1>5, <1>6, <1>8, <1>9, <1>10, <1>11, <1>12 DEF SectionNext

LEMMA SectionInvAlways == SectionSpec => []SectionInv
BY SectionInvInitially, SectionInvInductive, PTL DEF SectionSpec

(***************************************************************************)
(* Sections exclude handlers: no function of the API is interrupted while  *)
(* it works, however deep the sections in it are nested.                   *)
(***************************************************************************)
THEOREM SectionsAreAtomic == SectionSpec => []SectionsExclude
<1>1. SectionInv => SectionsExclude
  BY LenProperties DEF SectionInv, StackInv, HandlerAboveQuiet, SectionsExclude, Quiet, IsHandler,
                       Depth
<1> QED
  BY <1>1, SectionInvAlways, PTL

(***************************************************************************)
(* Handlers that use the API run one after the other.                      *)
(***************************************************************************)
THEOREM HandlersRunAlone == SectionSpec => []HandlersDoNotNest
<1>1. SectionInv => HandlersDoNotNest
  <2> SUFFICES ASSUME SectionInv, NEW i \in 1 .. Depth, NEW j \in 1 .. Depth,
                      IsHandler(i), IsHandler(j), i < j
               PROVE  FALSE
    BY LenProperties DEF HandlersDoNotNest, SectionInv, StackInv, Depth
  <2> QED
    BY LenProperties DEF SectionInv, StackInv, HandlerAboveQuiet, Quiet, IsHandler, Depth
<1> QED
  BY <1>1, SectionInvAlways, PTL

(***************************************************************************)
(* Interrupts come back after every nest of sections, and none is taken    *)
(* inside one.                                                             *)
(***************************************************************************)
THEOREM InterruptsComeBack == SectionSpec => []EnabledOutside
<1>1. SectionInv => EnabledOutside
  BY DEF SectionInv, FlagIsQuiet, EnabledOutside, Outside, Quiet, IsHandler
<1> QED
  BY <1>1, SectionInvAlways, PTL

(***************************************************************************)
(* Writes of flags are never lost to each other.                           *)
(***************************************************************************)
THEOREM FlagsAreKept == SectionSpec => []NoWriteUndone
<1>1. SectionInv => NoWriteUndone
  BY DEF SectionInv
<1> QED
  BY <1>1, SectionInvAlways, PTL
=============================================================================
