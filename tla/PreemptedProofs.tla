-------------------------- MODULE PreemptedProofs ---------------------------
(***************************************************************************)
(* What a tick may cost the main program where it takes no critical        *)
(* section: for every set of pins, for messages of every length, and for   *)
(* every width of the uptime and every order of reading its bytes.         *)
(***************************************************************************)
EXTENDS Preempted, SequenceTheorems, FiniteSetTheorems, WellFoundedInduction, TLAPS

(***************************************************************************)
(* The pins.                                                               *)
(***************************************************************************)
Bits == SUBSET (0 .. 7)

Hows == {"write", "set", "clear", "switch"}

Gots == UNION {[operands -> Bits] : operands \in SUBSET {"left", "right"}}

AccessRecord ==
  [how : Hows, reg : Register, mask : Bits, bit : 0 .. 7, value : BOOLEAN,
   got : Gots, crossing : Bits, pullup : SUBSET Pin]

PinsTyped ==
  /\ bits \in [Register -> Bits]
  /\ asked \in [Register -> Bits]
  /\ crossed \in [Register -> Bits]
  /\ access \in {NoAccess} \cup AccessRecord

(***************************************************************************)
(* An access aims at the bit it was asked for, outside the directions of   *)
(* port C, and the bits it has read are those of the register but for the  *)
(* ones that callbacks have written since.                                 *)
(***************************************************************************)
Aims ==
  access # NoAccess =>
    /\ access.reg # DDR(3) => access.mask = {access.bit}
    /\ access.how = "set" => access.value
    /\ access.how = "clear" => ~access.value

ReadsAreFresh ==
  access # NoAccess =>
    /\ DOMAIN access.got \subseteq Reads
    /\ \A operand \in DOMAIN access.got :
         SymDiff(access.got[operand], bits[access.reg]) \subseteq access.crossing

WrongAreCrossed == \A reg \in Register : reg # DDR(3) => Wrong(reg) \subseteq crossed[reg]

PinsInv == PinsTyped /\ Aims /\ ReadsAreFresh /\ WrongAreCrossed

-----------------------------------------------------------------------------

(***************************************************************************)
(* The chain of comparisons finds the bit of the pin.                      *)
(***************************************************************************)
LEMMA RightBit ==
  ASSUME NEW pin \in Pin, NEW k \in PortsOf(pin)
  PROVE  /\ k \in 1 .. 7
         /\ BitOf(pin) \in 0 .. 7
         /\ Mask(pin - LevelOffset[k]) = {BitOf(pin)}
         /\ k # 3 => Mask(pin - DirectionOffset[k]) = {BitOf(pin)}
         /\ Mask(pin - DirectionOffset[k]) \in Bits
<1>1. pin \in 0 .. 255
  BY PinsAssumption
<1>2. k \in 1 .. 7 /\ pin < Limit[k] /\ \A j \in 1 .. k - 1 : pin >= Limit[j]
  BY DEF PortsOf, Limit
<1>3. BitOf(pin) \in 0 .. 7
  BY <1>1 DEF BitOf
<1>4. Mask(pin - DirectionOffset[k]) \in Bits
  BY DEF Mask, Bits
<1>5. pin - LevelOffset[k] = BitOf(pin) /\ (k # 3 => pin - DirectionOffset[k] = BitOf(pin))
  <2>1. CASE k = 1
    BY <1>1, <1>2, <2>1 DEF Limit, LevelOffset, DirectionOffset, BitOf
  <2>2. CASE k = 2
    BY <1>1, <1>2, <2>2 DEF Limit, LevelOffset, DirectionOffset, BitOf
  <2>3. CASE k = 3
    BY <1>1, <1>2, <2>3 DEF Limit, LevelOffset, DirectionOffset, BitOf
  <2>4. CASE k = 4
    BY <1>1, <1>2, <2>4 DEF Limit, LevelOffset, DirectionOffset, BitOf
  <2>5. CASE k = 5
    BY <1>1, <1>2, <2>5 DEF Limit, LevelOffset, DirectionOffset, BitOf
  <2>6. CASE k = 6
    BY <1>1, <1>2, <2>6 DEF Limit, LevelOffset, DirectionOffset, BitOf
  <2>7. CASE k = 7
    BY <1>1, <1>2, <2>7 DEF Limit, LevelOffset, DirectionOffset, BitOf
  <2> QED
    BY <1>2, <2>1, <2>2, <2>3, <2>4, <2>5, <2>6, <2>7
<1> QED
  BY <1>2, <1>3, <1>4, <1>5 DEF Mask

LEMMA NothingRead == Nothing \in Gots /\ DOMAIN Nothing = {}
<1>1. Nothing \in [{} -> Bits]
  BY DEF Nothing
<1> QED
  BY <1>1 DEF Gots, Nothing

LEMMA PortsAreRegisters ==
  ASSUME NEW k \in 1 .. 7
  PROVE  DDR(k) \in Register /\ PORT(k) \in Register /\ (DDR(k) = DDR(3) => k = 3)
                                                 /\ PORT(k) # DDR(3)
<1>1. DOMAIN Limit = 1 .. 7
  BY DEF Limit
<1> QED
  BY <1>1 DEF DDR, PORT, Register

(***************************************************************************)
(* The accesses that the functions begin.                                  *)
(***************************************************************************)
Begun(a) ==
  /\ a \in AccessRecord
  /\ a.got = Nothing
  /\ a.reg # DDR(3) => a.mask = {a.bit}
  /\ a.how = "set" => a.value
  /\ a.how = "clear" => ~a.value

LEMMA AccessBegins ==
  ASSUME NEW how \in Hows, NEW reg \in Register, NEW mask \in Bits, NEW bit \in 0 .. 7,
         NEW value \in BOOLEAN, NEW pullup \in SUBSET Pin,
         reg # DDR(3) => mask = {bit}, how = "set" => value, how = "clear" => ~value
  PROVE  Begun(Access(how, reg, mask, bit, value, pullup))
<1>1. {} \in Bits
  BY DEF Bits
<1>2. Access(how, reg, mask, bit, value, pullup) \in AccessRecord
  BY <1>1, NothingRead DEF Access, AccessRecord
<1> QED
  BY <1>2 DEF Begun, Access

LEMMA LevelsBegin ==
  ASSUME NEW pin \in Pin, NEW value, NEW a \in Levels(pin, value)
  PROVE  Begun(a)
<1>1. PICK k \in PortsOf(pin) :
        a = Access("write", PORT(k), Mask(pin - LevelOffset[k]), BitOf(pin), value = HIGH, {})
  BY DEF Levels
<1>2. k \in 1 .. 7 /\ BitOf(pin) \in 0 .. 7 /\ Mask(pin - LevelOffset[k]) = {BitOf(pin)}
  BY RightBit
<1>3. PORT(k) \in Register
  BY <1>2, PortsAreRegisters
<1>4. Mask(pin - LevelOffset[k]) \in Bits
  BY <1>2 DEF Bits
<1>5. "write" \in Hows /\ (value = HIGH) \in BOOLEAN /\ {} \in SUBSET Pin
  BY DEF Hows
<1> QED
  BY <1>1, <1>2, <1>3, <1>4, <1>5, AccessBegins

LEMMA DirectionsBegin ==
  ASSUME NEW pin \in Pin, NEW mode, NEW a \in Directions(pin, mode)
  PROVE  Begun(a)
<1> DEFINE pullup == IF mode = INPUT_PULLUP THEN {pin} ELSE {}
<1>1. PICK k \in PortsOf(pin) :
        a = Access("write", DDR(k), Mask(pin - DirectionOffset[k]), BitOf(pin),
                   mode = OUTPUT, pullup)
  BY DEF Directions
<1>2. /\ k \in 1 .. 7 /\ BitOf(pin) \in 0 .. 7
      /\ k # 3 => Mask(pin - DirectionOffset[k]) = {BitOf(pin)}
      /\ Mask(pin - DirectionOffset[k]) \in Bits
  BY RightBit
<1>3. DDR(k) \in Register
  BY <1>2, PortsAreRegisters
<1>4. "write" \in Hows /\ (mode = OUTPUT) \in BOOLEAN /\ pullup \in SUBSET Pin
  BY DEF Hows
<1> HIDE DEF pullup
<1> QED
  BY <1>1, <1>2, <1>3, <1>4, AccessBegins

LEMMA BeginKeepsInv ==
  ASSUME PinsInv, Begun(access'), UNCHANGED <<bits, asked, crossed>>
  PROVE  PinsInv'
<1>1. PinsTyped'
  BY DEF PinsInv, PinsTyped, Begun
<1>2. Aims'
  BY DEF Aims, Begun, DDR
<1>3. ReadsAreFresh'
  BY NothingRead DEF ReadsAreFresh, Begun
<1>4. WrongAreCrossed'
  BY DEF PinsInv, WrongAreCrossed, Wrong, SymDiff, DDR, Register
<1> QED
  BY <1>1, <1>2, <1>3, <1>4 DEF PinsInv

-----------------------------------------------------------------------------

LEMMA ReadKeepsInv ==
  ASSUME PinsInv, ReadRegister
  PROVE  PinsInv'
<1>1. PICK operand \in Reads \ DOMAIN access.got :
        access' = [access EXCEPT !.got = [o \in DOMAIN @ \cup {operand} |->
                                            IF o = operand THEN bits[access.reg] ELSE @[o]]]
  BY DEF ReadRegister
<1> DEFINE got == [o \in DOMAIN access.got \cup {operand} |->
                    IF o = operand THEN bits[access.reg] ELSE access.got[o]]
<1>2. access # NoAccess /\ access \in AccessRecord /\ UNCHANGED <<bits, asked, crossed>>
  BY DEF ReadRegister, PinsInv, PinsTyped
<1>3. PICK operands \in SUBSET {"left", "right"} : access.got \in [operands -> Bits]
  BY <1>2 DEF AccessRecord, Gots
<1>4. operand \in {"left", "right"} /\ bits[access.reg] \in Bits
  BY <1>2 DEF Reads, PinsInv, PinsTyped, AccessRecord
<1>5. got \in [operands \cup {operand} -> Bits]
  BY <1>3, <1>4
<1>6. operands \cup {operand} \in SUBSET {"left", "right"}
  BY <1>4
<1>7. got \in Gots
  BY <1>5, <1>6 DEF Gots
<1>8. /\ access' \in AccessRecord /\ access'.got = got
      /\ access'.how = access.how /\ access'.reg = access.reg /\ access'.mask = access.mask
      /\ access'.bit = access.bit /\ access'.value = access.value
      /\ access'.crossing = access.crossing
  <2> HIDE DEF got
  <2>1. access' = [access EXCEPT !.got = got]
    BY <1>1 DEF got
  <2> QED
    BY <1>2, <1>7, <2>1 DEF AccessRecord
<1>9. PinsTyped'
  BY <1>2, <1>8 DEF PinsInv, PinsTyped
<1>10. Aims'
  BY <1>2, <1>8 DEF PinsInv, Aims, DDR
<1>11. ReadsAreFresh'
  <2>1. Reads' = Reads
    BY <1>8 DEF Reads
  <2>2. DOMAIN got = DOMAIN access.got \cup {operand}
    OBVIOUS
  <2>3. DOMAIN got \subseteq Reads
    BY <1>2, <2>2 DEF PinsInv, ReadsAreFresh
  <2>4. ASSUME NEW o \in DOMAIN got
        PROVE  SymDiff(got[o], bits[access.reg]) \subseteq access.crossing
    <3>1. CASE o = operand
      BY <3>1 DEF SymDiff
    <3>2. CASE o # operand
      BY <1>2, <2>2, <3>2 DEF PinsInv, ReadsAreFresh
    <3> QED
      BY <3>1, <3>2
  <2> HIDE DEF got
  <2> QED
    BY <1>2, <1>8, <2>1, <2>3, <2>4 DEF ReadsAreFresh, SymDiff
<1>12. WrongAreCrossed'
  BY <1>2 DEF PinsInv, WrongAreCrossed, Wrong, SymDiff, DDR, Register
<1> QED
  BY <1>9, <1>10, <1>11, <1>12 DEF PinsInv

(***************************************************************************)
(* What is written back is, but for the bits crossing the access, what the *)
(* register holds with the bit of the access changed as asked.             *)
(***************************************************************************)
LEMMA ChangedAsAsked ==
  ASSUME PinsInv, access # NoAccess, DOMAIN access.got = Reads
  PROVE  /\ Changed \in Bits
         /\ access.reg # DDR(3) =>
              \A b \in 0 .. 7 \ access.crossing :
                b \in Changed <=>
                  IF b # access.bit THEN b \in bits[access.reg]
                  ELSE IF access.how = "switch" THEN b \notin bits[access.reg] ELSE access.value
<1> DEFINE left == access.got["left"]
           right == access.got["right"]
           now == bits[access.reg]
<1>1. access \in AccessRecord /\ now \in Bits
  BY DEF PinsInv, PinsTyped, AccessRecord
<1>2. "left" \in DOMAIN access.got
  BY DEF Reads
<1>3. left \in Bits /\ SymDiff(left, now) \subseteq access.crossing
  BY <1>1, <1>2 DEF PinsInv, ReadsAreFresh, AccessRecord, Gots
<1>4. access.how = "write" => right \in Bits /\ SymDiff(right, now) \subseteq access.crossing
  <2> SUFFICES ASSUME access.how = "write"
               PROVE  right \in Bits /\ SymDiff(right, now) \subseteq access.crossing
    OBVIOUS
  <2>1. "right" \in DOMAIN access.got
    BY DEF Reads
  <2> QED
    BY <1>1, <2>1 DEF PinsInv, ReadsAreFresh, AccessRecord, Gots
<1>5. access.how \in Hows /\ access.mask \in Bits /\ access.bit \in 0 .. 7
      /\ access.value \in BOOLEAN
  BY <1>1 DEF AccessRecord
<1>6. access.reg # DDR(3) => access.mask = {access.bit}
  BY DEF PinsInv, Aims
<1>7. CASE access.how = "write"
  <2>1. Changed = SymDiff(left, SymDiff(Negated(access.value), right) \cap access.mask)
    BY <1>7 DEF Changed
  <2>2. Changed \in Bits
    BY <1>3, <1>5, <2>1 DEF SymDiff, Bits
  <2>3. ASSUME access.reg # DDR(3), NEW b \in 0 .. 7 \ access.crossing
        PROVE  b \in Changed <=> IF b # access.bit THEN b \in now ELSE access.value
    <3>1. (b \in left <=> b \in now) /\ (b \in right <=> b \in now)
      BY <1>3, <1>4, <1>7, <2>3 DEF SymDiff
    <3>2. b \in Negated(access.value) <=> access.value
      BY <1>5, <2>3 DEF Negated
    <3> QED
      BY <1>5, <1>6, <2>1, <2>3, <3>1, <3>2 DEF SymDiff
  <2> QED
    BY <1>7, <2>2, <2>3
<1>8. CASE access.how = "set"
  <2>1. Changed = left \cup access.mask
    BY <1>8 DEF Changed
  <2>2. access.value
    BY <1>8 DEF PinsInv, Aims
  <2> QED
    BY <1>3, <1>5, <1>6, <1>8, <2>1, <2>2 DEF SymDiff, Bits
<1>9. CASE access.how = "clear"
  <2>1. Changed = left \ access.mask
    BY <1>9 DEF Changed
  <2>2. ~access.value
    BY <1>9 DEF PinsInv, Aims
  <2> QED
    BY <1>3, <1>5, <1>6, <1>9, <2>1, <2>2 DEF SymDiff, Bits
<1>10. CASE access.how = "switch"
  <2>1. Changed = SymDiff(left, access.mask)
    BY <1>10 DEF Changed
  <2> QED
    BY <1>3, <1>5, <1>6, <1>10, <2>1 DEF SymDiff, Bits
<1> QED
  BY <1>5, <1>7, <1>8, <1>9, <1>10 DEF Hows

LEMMA WriteKeepsInv ==
  ASSUME PinsInv, WriteRegister
  PROVE  PinsInv'
<1> DEFINE reg == access.reg
           asks == IF access.how = "switch" THEN access.bit \notin asked[reg] ELSE access.value
           kept == IF access.how = "switch" THEN crossed[reg] ELSE crossed[reg] \ {access.bit}
<1>1. access # NoAccess /\ access \in AccessRecord /\ DOMAIN access.got = Reads
  BY DEF WriteRegister, PinsInv, PinsTyped
<1>2. /\ reg \in Register /\ access.bit \in 0 .. 7 /\ access.crossing \in Bits
      /\ access.value \in BOOLEAN /\ access.pullup \in SUBSET Pin
  BY <1>1 DEF AccessRecord
<1>3. Changed \in Bits
  BY <1>1, ChangedAsAsked
<1>4. /\ bits' = [bits EXCEPT ![reg] = Changed]
      /\ asked' = [asked EXCEPT ![reg] = IF asks THEN @ \cup {access.bit} ELSE @ \ {access.bit}]
      /\ crossed' = [crossed EXCEPT ![reg] = access.crossing \cup kept]
  BY DEF WriteRegister, Ask
<1>5. access' = NoAccess \/ Begun(access')
  <2>1. CASE access.pullup = {}
    BY <2>1 DEF WriteRegister
  <2>2. CASE access.pullup # {}
    <3>1. PICK pin \in access.pullup : access' \in Levels(pin, HIGH)
      BY <2>2 DEF WriteRegister
    <3> QED
      BY <1>2, <3>1, LevelsBegin
  <2> QED
    BY <2>1, <2>2
<1>6. bits \in [Register -> Bits] /\ asked \in [Register -> Bits] /\ crossed \in [Register -> Bits]
  BY DEF PinsInv, PinsTyped
<1>7. bits' \in [Register -> Bits]
  BY <1>2, <1>3, <1>4, <1>6
<1>8. asked' \in [Register -> Bits]
  <2>1. asked[reg] \cup {access.bit} \in Bits /\ asked[reg] \ {access.bit} \in Bits
    BY <1>2, <1>6 DEF Bits
  <2> HIDE DEF reg, asks
  <2> QED
    BY <1>2, <1>4, <1>6, <2>1
<1>9. crossed' \in [Register -> Bits]
  <2>1. access.crossing \cup kept \in Bits
    BY <1>2, <1>6 DEF Bits
  <2> HIDE DEF reg, kept
  <2> QED
    BY <1>2, <1>4, <1>6, <2>1
<1>10. PinsTyped'
  BY <1>5, <1>7, <1>8, <1>9 DEF PinsTyped, Begun
<1>11. Aims'
  BY <1>5 DEF Aims, Begun, DDR
<1>12. ReadsAreFresh'
  BY <1>5, NothingRead DEF ReadsAreFresh, Begun
<1>13. WrongAreCrossed'
  <2> SUFFICES ASSUME NEW r \in Register, r # DDR(3), NEW b \in SymDiff(bits'[r], asked'[r])
               PROVE  b \in crossed'[r]
    BY DEF WrongAreCrossed, Wrong, SymDiff, DDR, Register
  <2>1. CASE r # reg
    <3>1. bits'[r] = bits[r] /\ asked'[r] = asked[r] /\ crossed'[r] = crossed[r]
      BY <1>4, <1>6, <2>1
    <3> QED
      BY <3>1 DEF PinsInv, WrongAreCrossed, Wrong
  <2>2. CASE r = reg /\ b \notin access.crossing
    <3>1. /\ bits'[r] = Changed
          /\ asked'[r] = IF asks THEN asked[reg] \cup {access.bit} ELSE asked[reg] \ {access.bit}
          /\ crossed'[r] = access.crossing \cup kept
      <4> HIDE DEF asks, kept, reg
      <4> QED
        BY <1>2, <1>4, <1>6, <2>2
    <3>2. b \in 0 .. 7 \ access.crossing
      BY <1>7, <1>8, <2>2 DEF SymDiff, Bits
    <3>3. b \in Changed <=>
            IF b # access.bit THEN b \in bits[reg]
            ELSE IF access.how = "switch" THEN b \notin bits[reg] ELSE access.value
      BY <1>1, <2>2, <3>2, ChangedAsAsked
    <3>4. SymDiff(bits[reg], asked[reg]) \subseteq crossed[reg]
      BY <2>2 DEF PinsInv, WrongAreCrossed, Wrong
    <3>5. CASE b # access.bit
      <4>1. b \in SymDiff(bits[reg], asked[reg])
        BY <3>1, <3>3, <3>5 DEF SymDiff
      <4> QED
        BY <3>1, <3>4, <3>5, <4>1
    <3>6. CASE b = access.bit /\ access.how = "switch"
      <4>1. b \in asked'[r] <=> b \notin asked[reg]
        BY <3>1, <3>6
      <4>2. b \in SymDiff(bits[reg], asked[reg])
        BY <3>1, <3>3, <3>6, <4>1 DEF SymDiff
      <4> QED
        BY <3>1, <3>4, <3>6, <4>2
    <3>7. CASE b = access.bit /\ access.how # "switch"
      <4>1. b \in asked'[r] <=> access.value
        BY <1>2, <3>1, <3>7
      <4> QED
        BY <3>1, <3>3, <3>7, <4>1 DEF SymDiff
    <3> QED
      BY <3>5, <3>6, <3>7
  <2>3. CASE r = reg /\ b \in access.crossing
    <3> HIDE DEF kept, reg
    <3> QED
      BY <1>4, <1>6, <2>3
  <2> QED
    BY <2>1, <2>2, <2>3
<1> QED
  BY <1>10, <1>11, <1>12, <1>13 DEF PinsInv

LEMMA CallbackKeepsInv ==
  ASSUME PinsInv, NEW pin \in Pin, NEW value, CallbackWrites(pin, value)
  PROVE  PinsInv'
<1> DEFINE bit == BitOf(pin)
<1>1. PICK k \in PortsOf(pin) : \E mask \in {Mask(pin - LevelOffset[k])}, reg \in {PORT(k)} :
        /\ bits' = [bits EXCEPT ![reg] = IF value = HIGH THEN @ \cup mask ELSE @ \ mask]
        /\ Ask(reg, bit, value = HIGH)
        /\ crossed' = [crossed EXCEPT ![reg] = @ \ {bit}]
        /\ access' = IF access # NoAccess /\ access.reg = reg /\ access.got # Nothing
                       THEN [access EXCEPT !.crossing = @ \cup {bit}]
                       ELSE access
  BY DEF CallbackWrites
<1> DEFINE reg == PORT(k)
<1>2. k \in 1 .. 7 /\ bit \in 0 .. 7 /\ Mask(pin - LevelOffset[k]) = {bit}
  BY RightBit
<1>3. reg \in Register
  BY <1>2, PortsAreRegisters
<1>4. /\ bits' = [bits EXCEPT ![reg] = IF value = HIGH THEN @ \cup {bit} ELSE @ \ {bit}]
      /\ asked' = [asked EXCEPT ![reg] = IF value = HIGH THEN @ \cup {bit} ELSE @ \ {bit}]
      /\ crossed' = [crossed EXCEPT ![reg] = @ \ {bit}]
      /\ access' = IF access # NoAccess /\ access.reg = reg /\ access.got # Nothing
                     THEN [access EXCEPT !.crossing = @ \cup {bit}]
                     ELSE access
  BY <1>1, <1>2 DEF Ask
<1> HIDE DEF bit, reg
<1>5. bits \in [Register -> Bits] /\ asked \in [Register -> Bits] /\ crossed \in [Register -> Bits]
  BY DEF PinsInv, PinsTyped
<1>6. ASSUME NEW s \in Bits
      PROVE  s \cup {bit} \in Bits /\ s \ {bit} \in Bits
  BY <1>2 DEF Bits
<1>7. bits' \in [Register -> Bits] /\ asked' \in [Register -> Bits] /\ crossed' \in [Register -> Bits]
  <2>1. /\ bits[reg] \cup {bit} \in Bits /\ bits[reg] \ {bit} \in Bits
        /\ asked[reg] \cup {bit} \in Bits /\ asked[reg] \ {bit} \in Bits
        /\ crossed[reg] \ {bit} \in Bits
    BY <1>3, <1>5, <1>6
  <2> QED
    BY <1>3, <1>4, <1>5, <2>1
<1>8. access' = NoAccess \/ (access' \in AccessRecord /\ access # NoAccess)
  <2>1. CASE access # NoAccess /\ access.reg = reg /\ access.got # Nothing
    <3>1. access \in AccessRecord
      BY <2>1 DEF PinsInv, PinsTyped
    <3>2. access.crossing \cup {bit} \in Bits
      BY <1>6, <3>1 DEF AccessRecord
    <3> QED
      BY <1>4, <2>1, <3>1, <3>2 DEF AccessRecord
  <2>2. CASE ~(access # NoAccess /\ access.reg = reg /\ access.got # Nothing)
    BY <1>4, <2>2 DEF PinsInv, PinsTyped
  <2> QED
    BY <2>1, <2>2
<1>9. access # NoAccess =>
        /\ access'.how = access.how /\ access'.reg = access.reg /\ access'.mask = access.mask
        /\ access'.bit = access.bit /\ access'.value = access.value /\ access'.got = access.got
        /\ access'.crossing = IF access.reg = reg /\ access.got # Nothing
                                THEN access.crossing \cup {bit} ELSE access.crossing
  <2> SUFFICES ASSUME access # NoAccess
               PROVE  /\ access'.how = access.how /\ access'.reg = access.reg
                      /\ access'.mask = access.mask /\ access'.bit = access.bit
                      /\ access'.value = access.value /\ access'.got = access.got
                      /\ access'.crossing = IF access.reg = reg /\ access.got # Nothing
                                              THEN access.crossing \cup {bit}
                                              ELSE access.crossing
    OBVIOUS
  <2>1. access \in AccessRecord
    BY DEF PinsInv, PinsTyped
  <2> QED
    BY <1>4, <2>1 DEF AccessRecord
<1>10. PinsTyped'
  BY <1>7, <1>8 DEF PinsTyped
<1>11. Aims'
  BY <1>8, <1>9 DEF PinsInv, Aims, DDR, NoAccess
<1>12. ReadsAreFresh'
  <2> SUFFICES ASSUME access' # NoAccess
               PROVE  /\ DOMAIN access'.got \subseteq Reads'
                      /\ \A o \in DOMAIN access'.got :
                           SymDiff(access'.got[o], bits'[access'.reg]) \subseteq access'.crossing
    BY DEF ReadsAreFresh, SymDiff, NoAccess
  <2>1. access # NoAccess
    BY <1>8
  <2>2. DOMAIN access'.got \subseteq Reads'
    BY <1>9, <2>1 DEF PinsInv, ReadsAreFresh, Reads
  <2>3. ASSUME NEW o \in DOMAIN access'.got
        PROVE  SymDiff(access'.got[o], bits'[access'.reg]) \subseteq access'.crossing
    <3>1. SymDiff(access.got[o], bits[access.reg]) \subseteq access.crossing
      BY <1>9, <2>1, <2>3 DEF PinsInv, ReadsAreFresh
    <3>2. access.reg \in Register
      BY <2>1 DEF PinsInv, PinsTyped, AccessRecord
    <3>3. access.got # Nothing
      BY <1>9, <2>1, <2>3, NothingRead
    <3>4. CASE access.reg = reg
      <4>1. bits'[reg] = bits[reg] \cup {bit} \/ bits'[reg] = bits[reg] \ {bit}
        BY <1>3, <1>4, <1>5
      <4> QED
        BY <1>9, <2>1, <3>1, <3>3, <3>4, <4>1 DEF SymDiff
    <3>5. CASE access.reg # reg
      <4>1. bits'[access.reg] = bits[access.reg]
        BY <1>4, <1>5, <3>2, <3>5
      <4> QED
        BY <1>9, <2>1, <3>1, <3>5, <4>1
    <3> QED
      BY <3>4, <3>5
  <2> QED
    BY <2>2, <2>3
<1>13. WrongAreCrossed'
  <2> SUFFICES ASSUME NEW r \in Register, r # DDR(3), NEW b \in SymDiff(bits'[r], asked'[r])
               PROVE  b \in crossed'[r]
    BY DEF WrongAreCrossed, Wrong, SymDiff, DDR, Register
  <2>1. SymDiff(bits[r], asked[r]) \subseteq crossed[r]
    BY DEF PinsInv, WrongAreCrossed, Wrong
  <2>2. CASE r # reg
    BY <1>4, <1>5, <2>1, <2>2
  <2>3. CASE r = reg
    <3>1. /\ bits'[r] = IF value = HIGH THEN bits[r] \cup {bit} ELSE bits[r] \ {bit}
          /\ asked'[r] = IF value = HIGH THEN asked[r] \cup {bit} ELSE asked[r] \ {bit}
          /\ crossed'[r] = crossed[r] \ {bit}
      BY <1>3, <1>4, <1>5, <2>3
    <3> QED
      BY <2>1, <3>1 DEF SymDiff
  <2> QED
    BY <2>2, <2>3
<1> QED
  BY <1>10, <1>11, <1>12, <1>13 DEF PinsInv

LEMMA BitsKeepInv ==
  ASSUME PinsInv, BeginBit
  PROVE  PinsInv'
<1>1. PICK pin \in Pin : \E k \in PortsOf(pin) :
        \/ \E how \in {"set", "clear", "switch"} :
             access' = Access(how, PORT(k), {BitOf(pin)}, BitOf(pin), how = "set", {})
        \/ \E reg \in {PORT(k), DDR(k)}, value \in BOOLEAN :
             access' = Access("write", reg, {BitOf(pin)}, BitOf(pin), value, {})
  BY DEF BeginBit
<1>2. PICK k \in PortsOf(pin) :
        \/ \E how \in {"set", "clear", "switch"} :
             access' = Access(how, PORT(k), {BitOf(pin)}, BitOf(pin), how = "set", {})
        \/ \E reg \in {PORT(k), DDR(k)}, value \in BOOLEAN :
             access' = Access("write", reg, {BitOf(pin)}, BitOf(pin), value, {})
  BY <1>1
<1>3. k \in 1 .. 7 /\ BitOf(pin) \in 0 .. 7
  BY RightBit
<1>4. {BitOf(pin)} \in Bits /\ {} \in SUBSET Pin
  BY <1>3 DEF Bits
<1>5. PORT(k) \in Register /\ DDR(k) \in Register
  BY <1>3, PortsAreRegisters
<1>6. CASE \E how \in {"set", "clear", "switch"} :
             access' = Access(how, PORT(k), {BitOf(pin)}, BitOf(pin), how = "set", {})
  <2>1. PICK how \in {"set", "clear", "switch"} :
          access' = Access(how, PORT(k), {BitOf(pin)}, BitOf(pin), how = "set", {})
    BY <1>6
  <2>2. how \in Hows /\ (how = "set") \in BOOLEAN /\ (how = "clear" => ~(how = "set"))
    BY DEF Hows
  <2>3. Begun(access')
    BY <1>3, <1>4, <1>5, <2>1, <2>2, AccessBegins
  <2> QED
    BY <2>3, BeginKeepsInv DEF BeginBit
<1>7. CASE \E reg \in {PORT(k), DDR(k)}, value \in BOOLEAN :
             access' = Access("write", reg, {BitOf(pin)}, BitOf(pin), value, {})
  <2>1. PICK reg \in {PORT(k), DDR(k)}, value \in BOOLEAN :
          access' = Access("write", reg, {BitOf(pin)}, BitOf(pin), value, {})
    BY <1>7
  <2>2. reg \in Register /\ "write" \in Hows
    BY <1>5 DEF Hows
  <2>3. Begun(access')
    BY <1>3, <1>4, <2>1, <2>2, AccessBegins
  <2> QED
    BY <2>3, BeginKeepsInv DEF BeginBit
<1> QED
  BY <1>2, <1>6, <1>7

LEMMA PinsInitInv == PinsInit => PinsInv
<1> SUFFICES ASSUME PinsInit PROVE PinsInv
  OBVIOUS
<1>1. {} \in Bits
  BY DEF Bits
<1>2. PinsTyped
  BY <1>1 DEF PinsInit, PinsTyped
<1>3. Aims /\ ReadsAreFresh
  BY DEF PinsInit, Aims, ReadsAreFresh
<1>4. WrongAreCrossed
  BY DEF PinsInit, WrongAreCrossed, Wrong, SymDiff
<1> QED
  BY <1>2, <1>3, <1>4 DEF PinsInv

LEMMA PinsStepInv == PinsInv /\ [PinsNext]_pinVars => PinsInv'
<1> SUFFICES ASSUME PinsInv, [PinsNext]_pinVars PROVE PinsInv'
  OBVIOUS
<1>1. CASE BeginDigitalWrite
  <2>1. Begun(access')
    BY <1>1, LevelsBegin DEF BeginDigitalWrite
  <2> QED
    BY <1>1, <2>1, BeginKeepsInv DEF BeginDigitalWrite
<1>2. CASE BeginPinMode
  <2>1. Begun(access')
    BY <1>2, DirectionsBegin DEF BeginPinMode
  <2> QED
    BY <1>2, <2>1, BeginKeepsInv DEF BeginPinMode
<1>3. CASE BeginBit
  BY <1>3, BitsKeepInv
<1>4. CASE ReadRegister
  BY <1>4, ReadKeepsInv
<1>5. CASE WriteRegister
  BY <1>5, WriteKeepsInv
<1>6. CASE \E pin \in CallbackPin, value \in {LOW, HIGH} : CallbackWrites(pin, value)
  BY <1>6, CallbackKeepsInv, PinsAssumption
<1>7. CASE UNCHANGED pinVars
  BY <1>7 DEF pinVars, PinsInv, PinsTyped, Aims, ReadsAreFresh, Reads, WrongAreCrossed, Wrong,
              SymDiff, DDR, Register
<1> QED
  BY <1>1, <1>2, <1>3, <1>4, <1>5, <1>6, <1>7 DEF PinsNext, PinStep

(***************************************************************************)
(* To the pins a step of the whole is one of theirs, or none.              *)
(***************************************************************************)
LEMMA PreemptedStepOfPins == [PreemptedNext]_preemptedVars => [PinsNext]_pinVars
<1> SUFFICES ASSUME [PreemptedNext]_preemptedVars PROVE [PinsNext]_pinVars
  OBVIOUS
<1>1. CASE MainWritesPin
  BY <1>1 DEF MainWritesPin, PinsNext, PinStep
<1>2. CASE TickComes
  BY <1>2 DEF TickComes, PinsNext
<1>3. CASE \/ MainReadsUptime \/ MainLogs \/ MainControlsTimer \/ TickLogs \/ Transmit
           \/ UNCHANGED preemptedVars
  BY <1>3 DEF MainReadsUptime, MainLogs, MainControlsTimer, TickLogs, Transmit, preemptedVars
<1> QED
  BY <1>1, <1>2, <1>3 DEF PreemptedNext

(***************************************************************************)
(* What was asked of the pins, and what may be wrong of it, stays as it    *)
(* should be.                                                              *)
(***************************************************************************)
THEOREM PinsInvariant == PreemptedSpec => []PinsInv
<1>1. PreemptedInit => PinsInv
  BY PinsInitInv DEF PreemptedInit
<1>2. PinsInv /\ [PreemptedNext]_preemptedVars => PinsInv'
  BY PinsStepInv, PreemptedStepOfPins
<1> QED
  BY <1>1, <1>2, PTL DEF PreemptedSpec

(***************************************************************************)
(* Whatever pins the main program and the callbacks of the tick write, and *)
(* between whichever reads and writes the tick comes: a pin is as it was   *)
(* last asked to be unless a callback wrote that pin in the middle of an   *)
(* access of the main program to its register.                             *)
(***************************************************************************)
THEOREM OnlyCrossedAreLost == PreemptedSpec => []OnlyCrossedWritesLost
<1>1. PinsInv => OnlyCrossedWritesLost
  <2>1. PortOf(16) = 3
    BY DEF PortOf
  <2> QED
    BY <2>1 DEF PinsInv, WrongAreCrossed, OnlyCrossedWritesLost
<1> QED
  BY <1>1, PinsInvariant, PTL

-----------------------------------------------------------------------------

(***************************************************************************)
(* The messages: what a tick that speaks in the middle of one may cost.    *)
(***************************************************************************)
Message == [length : Nat, put : Nat, waits : BOOLEAN]

UartTyped ==
  /\ udr \in Seq(Char) /\ Len(udr) <= 1
  /\ wire \in Seq(Char)
  /\ saying \in [Speaker -> Message]

(***************************************************************************)
(* The data register is empty whenever the main program is about to write  *)
(* it, and whenever the tick is but for its first character, which can     *)
(* only come upon one of the main program.                                 *)
(***************************************************************************)
RegisterIsEmpty ==
  /\ saying["tick"].put = 0 /\ ~saying["main"].waits => udr = <<>>
  /\ saying["tick"].put > 0 /\ ~saying["tick"].waits => udr = <<>>
  /\ saying["tick"].put = 0 /\ udr # <<>> => udr[1].who = "main"

Progress ==
  \A who \in Speaker :
    /\ saying[who].put <= saying[who].length
    /\ saying[who].waits => saying[who].put > 0

(***************************************************************************)
(* What was sent last: the last character of a message of the tick, or one *)
(* of the main program; while the tick speaks, its last one, or the one of *)
(* the main program that its first one came upon.                          *)
(***************************************************************************)
LastSent(seq) ==
  /\ saying["tick"].put = 0 /\ seq # <<>> =>
       seq[Len(seq)].who = "main" \/ seq[Len(seq)].last
  /\ saying["tick"].put > 0 =>
       /\ seq # <<>>
       /\ \/ seq[Len(seq)] = Character("tick", saying["tick"].put)
          \/ saying["tick"].put = 1 /\ seq[Len(seq)].who = "main"

UartInv ==
  UartTyped /\ RegisterIsEmpty /\ Progress /\ LastSent(Sent) /\ MainTextWhole /\ TickTextWhole

-----------------------------------------------------------------------------

LEMMA UartInitInv == UartInit => UartInv
<1> SUFFICES ASSUME UartInit PROVE UartInv
  OBVIOUS
<1>1. Silent \in Message
  BY DEF Silent, Message
<1>2. UartTyped
  BY <1>1 DEF UartInit, UartTyped
<1>3. saying["main"] = Silent /\ saying["tick"] = Silent
  BY DEF UartInit, Speaker
<1>4. Sent = <<>>
  BY DEF UartInit, Sent
<1>5. RegisterIsEmpty /\ Progress /\ LastSent(Sent)
  BY <1>3, <1>4 DEF UartInit, RegisterIsEmpty, Progress, LastSent, Silent, Speaks, Speaker
<1>6. MainTextWhole /\ TickTextWhole
  <2>1. Of("main") = {} /\ Of("tick") = {}
    BY <1>4 DEF Of
  <2>2. 1 .. saying["main"].put = {}
    BY <1>3 DEF Silent
  <2> QED
    BY <2>1, <2>2 DEF MainTextWhole, TickTextWhole
<1> QED
  BY <1>2, <1>5, <1>6 DEF UartInv

(***************************************************************************)
(* The properties depend on what was sent and on the two messages only.    *)
(***************************************************************************)
LEMMA SameSent ==
  ASSUME UartInv, Sent' = Sent, saying'["main"].put = saying["main"].put,
         saying'["tick"].put = saying["tick"].put,
         saying["tick"].put = 0 \/ saying'["tick"].length = saying["tick"].length
  PROVE  LastSent(Sent)' /\ MainTextWhole' /\ TickTextWhole'
<1>1. Of("main")' = Of("main") /\ Of("tick")' = Of("tick")
  BY DEF Of
<1>2. MainTextWhole' /\ TickTextWhole'
  BY <1>1 DEF UartInv, MainTextWhole, TickTextWhole
<1>3. LastSent(Sent)'
  BY DEF UartInv, UartTyped, Message, Speaker, LastSent, Character
<1> QED
  BY <1>2, <1>3

(***************************************************************************)
(* Who speaks and has put no character yet is going to; who does not, has  *)
(* put none.                                                               *)
(***************************************************************************)
LEMMA SpeakingOrSilent ==
  ASSUME UartInv, NEW who \in Speaker
  PROVE  /\ saying[who] \in Message
         /\ ~Speaks(who) => saying[who].put = 0 /\ ~saying[who].waits
         /\ Speaks(who) /\ ~saying[who].waits /\ saying[who].put = saying[who].length
              => saying[who].put > 0
<1>1. saying[who] \in Message
  BY DEF UartInv, UartTyped
<1>2. ~Speaks(who) => saying[who].put = 0 /\ ~saying[who].waits
  BY DEF Speaks, Silent
<1>3. ASSUME ~saying[who].waits, saying[who].put = saying[who].length, saying[who].put = 0
      PROVE  saying[who] = Silent
  BY <1>1, <1>3 DEF Message, Silent
<1> QED
  BY <1>1, <1>2, <1>3 DEF Speaks, Message

LEMMA LogKeepsInv ==
  ASSUME UartInv, NEW who \in Speaker, LogMessage(who)
  PROVE  UartInv'
<1>1. PICK pgm \in PGM_OFF .. PGM_PUTS + 1, level \in Level :
        saying' = [saying EXCEPT ![who].length = MessageLength(pgm, level)]
  BY DEF LogMessage
<1>2. MessageLength(pgm, level) \in Nat
  BY UartAssumption DEF MessageLength
<1>3. saying[who].put = 0 /\ ~saying[who].waits /\ saying[who] \in Message
  BY SpeakingOrSilent DEF LogMessage
<1>4. /\ saying' \in [Speaker -> Message]
      /\ \A other \in Speaker :
           /\ saying'[other].put = saying[other].put
           /\ saying'[other].waits = saying[other].waits
           /\ other # who => saying'[other].length = saying[other].length
  BY <1>1, <1>2 DEF UartInv, UartTyped, Message
<1>5. UNCHANGED <<udr, wire>> /\ Sent' = Sent
  BY DEF LogMessage, Sent
<1>6. UartTyped' /\ RegisterIsEmpty'
  BY <1>4, <1>5 DEF UartInv, UartTyped, RegisterIsEmpty, Speaker
<1>7. Progress'
  BY <1>3, <1>4 DEF UartInv, Progress, Message
<1>8. LastSent(Sent)' /\ MainTextWhole' /\ TickTextWhole'
  BY <1>3, <1>4, <1>5, SameSent DEF Speaker
<1> QED
  BY <1>6, <1>7, <1>8 DEF UartInv

LEMMA WaitKeepsInv ==
  ASSUME UartInv, NEW who \in Speaker, Wait(who)
  PROVE  UartInv'
<1>1. /\ saying' \in [Speaker -> Message]
      /\ \A other \in Speaker :
           /\ saying'[other].put = saying[other].put
           /\ saying'[other].length = saying[other].length
           /\ saying'[other].waits => saying[other].waits
  BY DEF Wait, UartInv, UartTyped, Message
<1>2. udr = <<>> /\ UNCHANGED <<udr, wire>> /\ Sent' = Sent
  BY DEF Wait, Sent
<1>3. UartTyped' /\ RegisterIsEmpty' /\ Progress'
  BY <1>1, <1>2 DEF UartInv, UartTyped, RegisterIsEmpty, Progress, Speaker
<1>4. LastSent(Sent)' /\ MainTextWhole' /\ TickTextWhole'
  BY <1>1, <1>2, SameSent DEF Speaker
<1> QED
  BY <1>3, <1>4 DEF UartInv

LEMMA ShiftKeepsInv ==
  ASSUME UartInv, Shift
  PROVE  UartInv'
<1>1. udr' = <<>> /\ wire' = Sent /\ UNCHANGED saying
  BY DEF Shift, Sent
<1>2. Sent \in Seq(Char)
  BY DEF UartInv, UartTyped, Sent
<1>3. Sent' = Sent
  BY <1>1, <1>2, ConcatEmptySeq DEF Sent
<1>4. UartTyped' /\ RegisterIsEmpty' /\ Progress'
  BY <1>1, <1>2 DEF UartInv, UartTyped, RegisterIsEmpty, Progress
<1>5. LastSent(Sent)' /\ MainTextWhole' /\ TickTextWhole'
  BY <1>1, <1>3, SameSent
<1> QED
  BY <1>4, <1>5 DEF UartInv

LEMMA EndKeepsInv ==
  ASSUME UartInv, NEW who \in Speaker, EndMessage(who)
  PROVE  UartInv'
<1>1. /\ saying[who].put > 0 /\ saying[who].put = saying[who].length
      /\ ~saying[who].waits /\ saying[who] \in Message
  BY SpeakingOrSilent DEF EndMessage
<1>2. udr = <<>> /\ udr' = <<>>
  <2>1. CASE who = "tick"
    BY <1>1, <2>1 DEF UartInv, RegisterIsEmpty, EndMessage
  <2>2. CASE who = "main"
    <3>1. saying["tick"].put = 0
      BY <2>2, SpeakingOrSilent DEF EndMessage, Runs, Speaker
    <3> QED
      BY <1>1, <2>2, <3>1 DEF UartInv, RegisterIsEmpty, EndMessage
  <2> QED
    BY <2>1, <2>2 DEF EndMessage, Speaker
<1>3. Silent \in Message
  BY DEF Silent, Message
<1>4. /\ saying' \in [Speaker -> Message] /\ saying'[who] = Silent
      /\ \A other \in Speaker \ {who} : saying'[other] = saying[other]
  BY <1>3 DEF EndMessage, UartInv, UartTyped
<1>5. Silent.put = 0 /\ Silent.length = 0 /\ Silent.waits = FALSE
  BY DEF Silent
<1>6. wire' \in Seq(Char) /\ (Sent' = Sent \/ Sent' = <<>>)
  BY <1>2 DEF EndMessage, UartInv, UartTyped, Sent
<1>7. UartTyped' /\ RegisterIsEmpty' /\ Progress'
  BY <1>2, <1>4, <1>5, <1>6 DEF UartInv, UartTyped, RegisterIsEmpty, Progress
<1>8. LastSent(Sent)' /\ MainTextWhole' /\ TickTextWhole'
  <2>1. CASE \A other \in Speaker \ {who} : ~Speaks(other)
    <3>1. Sent' = <<>>
      BY <1>2, <2>1 DEF EndMessage, Sent
    <3>2. \A other \in Speaker : saying'[other].put = 0
      BY <1>4, <1>5, <2>1, SpeakingOrSilent
    <3>3. Of("main")' = {} /\ Of("tick")' = {} /\ 1 .. saying'["main"].put = {}
      BY <3>1, <3>2 DEF Of, Speaker
    <3>4. MainTextWhole' /\ TickTextWhole'
      BY <3>3 DEF MainTextWhole, TickTextWhole
    <3> QED
      BY <3>1, <3>2, <3>4 DEF LastSent, Speaker
  <2>2. CASE ~ \A other \in Speaker \ {who} : ~Speaks(other)
    <3>1. who = "tick"
      BY <2>2 DEF EndMessage, Runs, Speaker
    <3>2. Sent' = Sent
      BY <2>2 DEF EndMessage, Sent
    <3>3. Of("main")' = Of("main") /\ Of("tick")' = Of("tick")
      BY <3>2 DEF Of
    <3>4. MainTextWhole' /\ TickTextWhole'
      BY <1>4, <3>1, <3>2, <3>3 DEF UartInv, MainTextWhole, TickTextWhole, Speaker
    <3>5. Sent # <<>> => Sent[Len(Sent)].who = "main" \/ Sent[Len(Sent)].last
      <4>1. Character("tick", saying["tick"].put).last
        BY <1>1, <3>1 DEF Character
      <4>2. \/ Sent[Len(Sent)] = Character("tick", saying["tick"].put)
            \/ Sent[Len(Sent)].who = "main"
        BY <1>1, <3>1 DEF UartInv, LastSent
      <4> QED
        BY <4>1, <4>2
    <3> QED
      BY <1>4, <1>5, <3>1, <3>2, <3>4, <3>5 DEF LastSent
  <2> QED
    BY <2>1, <2>2
<1> QED
  BY <1>7, <1>8 DEF UartInv

(***************************************************************************)
(* A character into an empty register is one more that was sent.           *)
(***************************************************************************)
LEMMA AppendedIs ==
  ASSUME UartInv, NEW who \in Speaker, PutChar(who), udr = <<>>
  PROVE  /\ Sent' \in Seq(Char) /\ Len(Sent') = Len(Sent) + 1
         /\ \A k \in 1 .. Len(Sent) : Sent'[k] = Sent[k]
         /\ Sent'[Len(Sent) + 1] = Character(who, saying[who].put + 1)
<1> DEFINE char == Character(who, saying[who].put + 1)
<1>1. char \in Char
  <2>1. saying[who].put + 1 \in Nat \ {0}
    BY SpeakingOrSilent DEF Message
  <2> QED
    BY <2>1 DEF Character, Char
<1>2. Sent = wire /\ wire \in Seq(Char)
  BY ConcatEmptySeq DEF UartInv, UartTyped, Sent
<1>3. Sent' = wire \o <<char>>
  BY DEF PutChar, Sent
<1> HIDE DEF char
<1>4. Sent' = Append(wire, char)
  BY <1>1, <1>2, <1>3, AppendIsConcat
<1>5. /\ Append(wire, char) \in Seq(Char) /\ Len(Append(wire, char)) = Len(wire) + 1
      /\ \A k \in 1 .. Len(wire) : Append(wire, char)[k] = wire[k]
      /\ Append(wire, char)[Len(wire) + 1] = char
  BY <1>1, <1>2, AppendProperties
<1> QED
  BY <1>2, <1>4, <1>5 DEF char

LEMMA PutAdvances ==
  ASSUME UartInv, NEW who \in Speaker, PutChar(who)
  PROVE  /\ saying' \in [Speaker -> Message]
         /\ saying'[who].put = saying[who].put + 1
         /\ saying'[who].length = saying[who].length
         /\ saying'[who].waits
         /\ \A other \in Speaker \ {who} : saying'[other] = saying[other]
         /\ Progress'
<1>1. /\ saying \in [Speaker -> Message] /\ ~saying[who].waits
      /\ saying[who].put < saying[who].length
      /\ saying' = [saying EXCEPT ![who].put = @ + 1, ![who].waits = TRUE]
  BY DEF PutChar, UartInv, UartTyped
<1>2. /\ saying' \in [Speaker -> Message]
      /\ saying'[who].put = saying[who].put + 1
      /\ saying'[who].length = saying[who].length
      /\ saying'[who].waits
      /\ \A other \in Speaker \ {who} : saying'[other] = saying[other]
  BY <1>1 DEF Message
<1>3. Progress'
  BY <1>1, <1>2 DEF UartInv, Progress, Message
<1> QED
  BY <1>2, <1>3

LEMMA MainPutKeepsInv ==
  ASSUME UartInv, PutChar("main")
  PROVE  UartInv'
<1> DEFINE put == saying["main"].put
           n == Len(Sent)
<1>1. "main" \in Speaker /\ "tick" \in Speaker
  BY DEF Speaker
<1>2. saying["tick"].put = 0 /\ ~saying["main"].waits
  BY <1>1, SpeakingOrSilent DEF PutChar, Runs
<1>3. udr = <<>>
  BY <1>2 DEF UartInv, RegisterIsEmpty
<1>4. /\ Sent' \in Seq(Char) /\ Len(Sent') = n + 1
      /\ \A k \in 1 .. n : Sent'[k] = Sent[k]
      /\ Sent'[n + 1] = Character("main", put + 1)
  BY <1>1, <1>3, AppendedIs
<1>5. /\ saying' \in [Speaker -> Message] /\ saying'["main"].put = put + 1
      /\ saying'["main"].waits /\ saying'["tick"] = saying["tick"] /\ Progress'
  BY <1>1, PutAdvances
<1>6. Sent \in Seq(Char) /\ n \in Nat /\ put \in Nat
  BY <1>1, SpeakingOrSilent DEF UartInv, UartTyped, Sent, Message
<1>7. Character("main", put + 1).who = "main" /\ Character("main", put + 1).place = put + 1
  BY DEF Character
<1>8. /\ UNCHANGED wire /\ udr' = <<Character("main", put + 1)>>
      /\ udr' \in Seq(Char) /\ Len(udr') = 1
  <2>1. put + 1 \in Nat \ {0}
    BY <1>6
  <2>2. Character("main", put + 1) \in Char
    BY <1>1, <2>1 DEF Character, Char
  <2> QED
    BY <1>3, <2>2 DEF PutChar
<1>9. UartTyped' /\ RegisterIsEmpty'
  BY <1>2, <1>5, <1>7, <1>8 DEF UartInv, UartTyped, RegisterIsEmpty
<1>10. Of("main")' = Of("main") \cup {n + 1} /\ Of("tick")' = Of("tick")
       /\ Of("main") \subseteq 1 .. n /\ Of("tick") \subseteq 1 .. n
  <2> HIDE DEF put
  <2> QED
    BY <1>4, <1>6, <1>7 DEF Of
<1>11. LastSent(Sent)'
  <2> HIDE DEF put
  <2> QED
    BY <1>2, <1>4, <1>5, <1>6, <1>7 DEF LastSent
<1>12. MainTextWhole'
  <2> HIDE DEF put, n
  <2>1. {Sent'[k].place : k \in Of("main")} = 1 .. put
    BY <1>4, <1>10 DEF UartInv, MainTextWhole, put
  <2>2. {Sent'[k].place : k \in Of("main")'} = 1 .. put + 1
    <3>1. {Sent'[k].place : k \in Of("main")'} =
            {Sent'[k].place : k \in Of("main")} \cup {Sent'[n + 1].place}
      BY <1>10
    <3>2. Sent'[n + 1].place = put + 1
      BY <1>4, <1>7
    <3>3. (1 .. put) \cup {put + 1} = 1 .. put + 1
      BY <1>6
    <3> QED
      BY <2>1, <3>1, <3>2, <3>3
  <2>3. \A k \in Of("main") : Sent[k].place \in 1 .. put
    BY DEF UartInv, MainTextWhole, put
  <2>4. \A j, k \in Of("main")' : j < k => Sent'[j].place < Sent'[k].place
    BY <1>4, <1>6, <1>7, <1>10, <2>3 DEF UartInv, MainTextWhole
  <2> QED
    BY <1>5, <2>2, <2>4 DEF MainTextWhole
<1>13. TickTextWhole'
  <2>1. n > 0 => Sent[n].who = "main" \/ Sent[n].last
    BY <1>2, <1>6 DEF UartInv, LastSent
  <2> HIDE DEF put, n
  <2>2. ASSUME NEW k \in Of("tick"), ~Sent[k].last, k < n + 1
        PROVE  k < n
    BY <1>6, <1>10, <2>1, <2>2 DEF Of
  <2>3. ASSUME NEW k \in Of("tick")
        PROVE  /\ ~Sent'[k].last /\ k < n + 1 =>
                    Sent'[k + 1].who = "tick" /\ Sent'[k + 1].place = Sent'[k].place + 1
               /\ Sent'[k].place > 1 =>
                    /\ k > 1
                    /\ IF Sent'[k - 1].who = "tick" THEN Sent'[k - 1].place = Sent'[k].place - 1
                       ELSE Sent'[k].place = 2
    BY <1>4, <1>6, <1>10, <2>2, SMTT(20) DEF UartInv, TickTextWhole, n
  <2> QED
    BY <1>4, <1>10, <2>3 DEF TickTextWhole
<1> QED
  BY <1>5, <1>9, <1>11, <1>12, <1>13 DEF UartInv

(***************************************************************************)
(* The first character of the tick is lost to one of the main program.     *)
(***************************************************************************)
LEMMA LostPutKeepsInv ==
  ASSUME UartInv, PutChar("tick"), udr # <<>>
  PROVE  UartInv'
<1>1. "main" \in Speaker /\ "tick" \in Speaker
  BY DEF Speaker
<1>2. saying["tick"].put = 0
  <2>1. saying["tick"].put \in Nat /\ ~saying["tick"].waits
    BY <1>1, SpeakingOrSilent DEF PutChar, Message
  <2> QED
    BY <2>1 DEF UartInv, RegisterIsEmpty
<1>3. /\ saying' \in [Speaker -> Message] /\ saying'["tick"].put = 1
      /\ saying'["tick"].waits /\ saying'["main"] = saying["main"] /\ Progress'
  BY <1>1, <1>2, PutAdvances
<1>4. UNCHANGED <<udr, wire>> /\ Sent' = Sent
  BY DEF PutChar, Sent
<1>5. UartTyped' /\ RegisterIsEmpty'
  BY <1>3, <1>4 DEF UartInv, UartTyped, RegisterIsEmpty
<1>6. Of("main")' = Of("main") /\ Of("tick")' = Of("tick")
  BY <1>4 DEF Of
<1>7. MainTextWhole' /\ TickTextWhole'
  BY <1>3, <1>4, <1>6 DEF UartInv, MainTextWhole, TickTextWhole
<1>8. Sent # <<>> /\ Sent[Len(Sent)].who = "main"
  <2>1. udr[1].who = "main"
    BY <1>2 DEF UartInv, RegisterIsEmpty
  <2>2. udr \in Seq(Char) /\ wire \in Seq(Char)
    BY DEF UartInv, UartTyped
  <2>3. Len(udr) <= 1
    BY DEF UartInv, UartTyped
  <2>4. Len(udr) \in Nat \ {0}
    BY <2>2, EmptySeq
  <2>5. Len(udr) = 1
    <3>1. \A m \in Nat \ {0} : m <= 1 => m = 1
      OBVIOUS
    <3> QED
      BY <2>3, <2>4, <3>1, Zenon
  <2>6. Len(Sent) = Len(wire) + 1 /\ Sent[Len(wire) + 1] = udr[1]
    BY <2>2, <2>5, ConcatProperties DEF Sent
  <2>7. Len(wire) \in Nat
    BY <2>2
  <2> QED
    BY <2>1, <2>6, <2>7
<1>9. LastSent(Sent)'
  BY <1>3, <1>4, <1>8 DEF LastSent
<1> QED
  BY <1>3, <1>5, <1>7, <1>9 DEF UartInv

LEMMA TickPutKeepsInv ==
  ASSUME UartInv, PutChar("tick"), udr = <<>>
  PROVE  UartInv'
<1> DEFINE put == saying["tick"].put
           n == Len(Sent)
           char == Character("tick", put + 1)
<1>1. "main" \in Speaker /\ "tick" \in Speaker
  BY DEF Speaker
<1>2. /\ Sent' \in Seq(Char) /\ Len(Sent') = n + 1
      /\ \A k \in 1 .. n : Sent'[k] = Sent[k]
      /\ Sent'[n + 1] = char
  BY <1>1, AppendedIs
<1>3. /\ saying' \in [Speaker -> Message] /\ saying'["tick"].put = put + 1
      /\ saying'["tick"].length = saying["tick"].length
      /\ saying'["tick"].waits /\ saying'["main"] = saying["main"] /\ Progress'
  BY <1>1, PutAdvances
<1>4. Sent \in Seq(Char) /\ n \in Nat /\ put \in Nat /\ put < saying["tick"].length
      /\ saying["tick"].length \in Nat
  BY <1>1, SpeakingOrSilent DEF PutChar, UartInv, UartTyped, Sent, Message
<1>5. char.who = "tick" /\ char.place = put + 1
  BY DEF Character
<1>6. UNCHANGED wire /\ udr' = <<char>> /\ udr' \in Seq(Char) /\ Len(udr') = 1
  <2>1. put + 1 \in Nat \ {0}
    BY <1>4
  <2>2. char \in Char
    BY <1>1, <2>1 DEF Character, Char
  <2> QED
    BY <2>2 DEF PutChar
<1>7. UartTyped' /\ RegisterIsEmpty'
  BY <1>3, <1>4, <1>6 DEF UartInv, UartTyped, RegisterIsEmpty
<1>8. Of("tick")' = Of("tick") \cup {n + 1} /\ Of("main")' = Of("main")
       /\ Of("main") \subseteq 1 .. n /\ Of("tick") \subseteq 1 .. n
  <2> HIDE DEF put, char
  <2> QED
    BY <1>2, <1>4, <1>5 DEF Of
<1>9. LastSent(Sent)'
  <2>1. char = [who |-> "tick", place |-> saying'["tick"].put,
                last |-> saying'["tick"].put = saying'["tick"].length]
    BY <1>3 DEF Character
  <2> HIDE DEF put, char
  <2>2. saying'["tick"].put > 0 /\ Sent' # <<>> /\ Sent'[Len(Sent')] = char
    BY <1>2, <1>3, <1>4
  <2> QED
    BY <2>1, <2>2 DEF LastSent, Character
<1>10. MainTextWhole'
  BY <1>2, <1>3, <1>8 DEF UartInv, MainTextWhole
<1>11. TickTextWhole'
  <2>1. put = 0 /\ n > 0 => Sent[n].who = "main" \/ Sent[n].last
    BY <1>4 DEF UartInv, LastSent
  <2>2. put > 0 => n > 0
    BY <1>4 DEF UartInv, LastSent
  <2>3. put > 0 => \/ Sent[n] = Character("tick", put)
                   \/ put = 1 /\ Sent[n].who = "main"
    <3>1. LastSent(Sent)
      BY DEF UartInv
    <3> QED
      BY <3>1, Zenon DEF LastSent
  <2>4. Character("tick", put).who = "tick" /\ Character("tick", put).place = put
    BY DEF Character
  <2> HIDE DEF put, n, char
  <2>5. ASSUME NEW k \in Of("tick"), k < n
        PROVE  /\ ~Sent'[k].last =>
                    Sent'[k + 1].who = "tick" /\ Sent'[k + 1].place = Sent'[k].place + 1
    BY <1>2, <1>4, <1>8, <2>5 DEF UartInv, TickTextWhole, n
  <2>6. ASSUME n \in Of("tick"), ~Sent[n].last
        PROVE  char.place = Sent[n].place + 1
    BY <1>4, <1>5, <2>1, <2>3, <2>4, <2>6 DEF Of
  <2>7. ASSUME NEW k \in Of("tick"), Sent'[k].place > 1
        PROVE  /\ k > 1
               /\ IF Sent'[k - 1].who = "tick" THEN Sent'[k - 1].place = Sent'[k].place - 1
                  ELSE Sent'[k].place = 2
    BY <1>2, <1>4, <1>8, <2>7 DEF UartInv, TickTextWhole
  <2>8. ASSUME char.place > 1
        PROVE  /\ n + 1 > 1
               /\ IF Sent'[n].who = "tick" THEN Sent'[n].place = char.place - 1
                  ELSE char.place = 2
    BY <1>2, <1>4, <1>5, <2>2, <2>3, <2>4, <2>8
  <2>9. ASSUME NEW k \in Of("tick")'
        PROVE  /\ ~Sent'[k].last /\ k < Len(Sent') =>
                    Sent'[k + 1].who = "tick" /\ Sent'[k + 1].place = Sent'[k].place + 1
               /\ Sent'[k].place > 1 =>
                    /\ k > 1
                    /\ IF Sent'[k - 1].who = "tick" THEN Sent'[k - 1].place = Sent'[k].place - 1
                       ELSE Sent'[k].place = 2
    <3>1. CASE k = n + 1
      BY <1>2, <1>4, <2>8, <3>1
    <3>2. CASE k = n /\ n \in Of("tick")
      BY <1>2, <1>4, <1>5, <2>6, <2>7, <1>8, <3>2
    <3>3. CASE k < n /\ k \in Of("tick")
      BY <1>2, <1>4, <2>5, <2>7, <3>3
    <3> QED
      BY <1>4, <1>8, <2>9, <3>1, <3>2, <3>3
  <2> QED
    BY <2>9 DEF TickTextWhole
<1> QED
  BY <1>3, <1>7, <1>9, <1>10, <1>11 DEF UartInv

-----------------------------------------------------------------------------

LEMMA UartNextKeepsInv == UartInv /\ [UartNext]_uartVars => UartInv'
<1> SUFFICES ASSUME UartInv, [UartNext]_uartVars PROVE UartInv'
  OBVIOUS
<1>1. CASE Shift
  BY <1>1, ShiftKeepsInv
<1>2. CASE \E who \in Speaker : LogMessage(who)
  BY <1>2, LogKeepsInv
<1>3. ASSUME NEW who \in Speaker, PutChar(who)
      PROVE  UartInv'
  BY <1>3, MainPutKeepsInv, TickPutKeepsInv, LostPutKeepsInv DEF Speaker
<1>4. CASE \E who \in Speaker : Wait(who)
  BY <1>4, WaitKeepsInv
<1>5. CASE \E who \in Speaker : EndMessage(who)
  BY <1>5, EndKeepsInv
<1>6. CASE UNCHANGED uartVars
  <2>1. UartTyped' /\ RegisterIsEmpty' /\ Progress' /\ Sent' = Sent
    BY <1>6 DEF uartVars, UartInv, UartTyped, RegisterIsEmpty, Progress, Sent
  <2>2. LastSent(Sent)' /\ MainTextWhole' /\ TickTextWhole'
    BY <1>6, <2>1, SameSent DEF uartVars
  <2> QED
    BY <2>1, <2>2 DEF UartInv
<1> QED
  BY <1>1, <1>2, <1>3, <1>4, <1>5, <1>6 DEF UartNext, Say

(***************************************************************************)
(* The main program and the tick take no other step of the UART.           *)
(***************************************************************************)
LEMMA OnlyUartSteps == [PreemptedNext]_preemptedVars => [UartNext]_uartVars
<1>1. "main" \in Speaker /\ "tick" \in Speaker
  BY DEF Speaker
<1>2. MainLogs => UartNext
  BY <1>1 DEF MainLogs, UartNext
<1>3. TickComes => UartNext \/ UNCHANGED uartVars
  BY <1>1 DEF TickComes, UartNext
<1>4. TickLogs => UartNext
  BY <1>1 DEF TickLogs, UartNext
<1>5. Transmit => UartNext
  BY DEF Transmit, UartNext
<1>6. MainReadsUptime \/ MainWritesPin \/ MainControlsTimer => UNCHANGED uartVars
  BY DEF MainReadsUptime, MainWritesPin, MainControlsTimer
<1>7. UNCHANGED preemptedVars => UNCHANGED uartVars
  BY DEF preemptedVars
<1> QED
  BY <1>2, <1>3, <1>4, <1>5, <1>6, <1>7 DEF PreemptedNext

(***************************************************************************)
(* What the UART has been told to send stays as it should be.              *)
(***************************************************************************)
THEOREM UartInvariant == PreemptedSpec => []UartInv
<1>1. PreemptedInit => UartInv
  BY UartInitInv DEF PreemptedInit
<1>2. UartInv /\ [PreemptedNext]_preemptedVars => UartInv'
  BY UartNextKeepsInv, OnlyUartSteps
<1> QED
  BY <1>1, <1>2, PTL DEF PreemptedSpec

(***************************************************************************)
(* debug_logMessage, though a callback of the tick may log at any point of *)
(* it: no character of the main program's message is lost or moved.        *)
(***************************************************************************)
THEOREM MainMessagesWhole == PreemptedSpec => []MainTextWhole
<1>1. UartInv => MainTextWhole
  BY DEF UartInv
<1> QED
  BY <1>1, UartInvariant, PTL

(***************************************************************************)
(* hal_uart_putc, which writes before it waits: of the message of a        *)
(* callback the first character may be lost, and no other.                 *)
(***************************************************************************)
THEOREM TickMessagesWhole == PreemptedSpec => []TickTextWhole
<1>1. UartInv => TickTextWhole
  BY DEF UartInv
<1> QED
  BY <1>1, UartInvariant, PTL

-----------------------------------------------------------------------------

(***************************************************************************)
(* The uptime: how far one that is read byte by byte may be torn.          *)
(***************************************************************************)
(***************************************************************************)
(* A time with the bytes below b set to zero.                              *)
(***************************************************************************)
Floor(time, b) == (time \div Weight[b]) * Weight[b]

Read == {reading.order[k] : k \in 1 .. reading.read}

Call == [order : ReadOrders, read : 0 .. ByteCount, value : Nat, started : Nat]

UptimeTyped ==
  /\ e_time \in 0 .. MaxTime
  /\ reading \in {NotReading} \cup Call
  /\ reading.started <= e_time

LowFirstNotBefore ==
  reading.order = LowFirst /\ reading # NotReading =>
    reading.value + Floor(e_time, reading.read) >= reading.started

HighFirstNotAfter ==
  reading.order = HighFirst /\ reading # NotReading =>
    reading.value <= Floor(e_time, ByteCount - reading.read)

(***************************************************************************)
(* The numbers below time, laid out by bytes: byte b accounts for those    *)
(* that setting the bytes below it to zero leaves, and setting it to zero  *)
(* as well does not.                                                       *)
(***************************************************************************)
Share(time, b) == {x \in 0 .. time - 1 : Floor(time, b + 1) <= x /\ x < Floor(time, b)}

Shares(time, B) == {x \in 0 .. time - 1 : \E b \in B : x \in Share(time, b)}

Late == IF 0 \in Read THEN e_time - reading.started ELSE 0

CountsWhatIsRead ==
  reading # NotReading /\ reading.started \div Base = e_time \div Base =>
    /\ Cardinality(Shares(reading.started, Read)) <= reading.value
    /\ reading.value <= Cardinality(Shares(reading.started, Read)) + Late

UptimeInv == UptimeTyped /\ LowFirstNotBefore /\ HighFirstNotAfter /\ CountsWhatIsRead

-----------------------------------------------------------------------------

LEMMA DivBounds ==
  ASSUME NEW time \in Nat, NEW w \in Nat \ {0}
  PROVE  /\ time \div w \in Nat
         /\ (time \div w) * w \in Nat
         /\ (time \div w) * w <= time
         /\ time < (time \div w) * w + w
OBVIOUS

LEMMA DivOfDiv ==
  ASSUME NEW time \in Nat, NEW w \in Nat \ {0}, NEW v \in Nat \ {0}
  PROVE  time \div (w * v) = (time \div w) \div v
OBVIOUS

LEMMA RemainderOf ==
  ASSUME NEW time \in Nat, NEW w \in Nat \ {0}
  PROVE  time % w = time - (time \div w) * w /\ time % w \in Nat
OBVIOUS

LEMMA DivMonotone ==
  ASSUME NEW s \in Nat, NEW t \in Nat, NEW w \in Nat \ {0}, s <= t
  PROVE  s \div w <= t \div w /\ (s \div w) * w <= (t \div w) * w
<1>1. s \div w <= t \div w
  OBVIOUS
<1>2. s \div w \in Nat /\ t \div w \in Nat
  BY DivBounds
<1>3. \A p, q \in Nat : p <= q => p * w <= q * w
  OBVIOUS
<1> QED
  BY <1>1, <1>2, <1>3

LEMMA WeightsAreNumbers ==
  /\ \A b \in 0 .. ByteCount : Weight[b] \in Nat \ {0}
  /\ \A b \in Bytes : b \in 0 .. ByteCount /\ b + 1 \in 0 .. ByteCount
                      /\ Weight[b + 1] = Base * Weight[b]
  /\ Base \in Nat \ {0} /\ ByteCount \in Nat \ {0}
  /\ Weight[0] = 1
BY UptimeAssumption DEF Bytes

LEMMA FloorIs ==
  ASSUME NEW time \in Nat, NEW b \in 0 .. ByteCount
  PROVE  Floor(time, b) \in Nat /\ Floor(time, b) <= time
<1>1. Weight[b] \in Nat \ {0}
  BY WeightsAreNumbers
<1> QED
  BY <1>1, DivBounds DEF Floor

(***************************************************************************)
(* What a byte amounts to is what setting it to zero takes away.           *)
(***************************************************************************)
LEMMA ByteAmountsTo ==
  ASSUME NEW time \in Nat, NEW b \in Bytes
  PROVE  /\ Floor(time, b + 1) + Byte(time, b) * Weight[b] = Floor(time, b)
         /\ Byte(time, b) * Weight[b] \in Nat
<1>1. PICK w \in Nat \ {0} : w = Weight[b]
  BY WeightsAreNumbers
<1>2. Weight[b + 1] = Base * w /\ Base \in Nat \ {0}
  BY <1>1, WeightsAreNumbers
<1>3. PICK q \in Nat : q = time \div w
  BY <1>1, DivBounds
<1>4. PICK p \in Nat : p = q \div Base
  BY <1>2, <1>3, DivBounds
<1>5. time \div (w * Base) = p
  BY <1>1, <1>2, <1>3, <1>4, DivOfDiv
<1>6. w * Base = Base * w
  BY <1>1, <1>2
<1>7. q % Base = q - p * Base /\ q % Base \in Nat
  BY <1>2, <1>3, <1>4, RemainderOf
<1>8. PICK r \in Nat : r = q % Base
  BY <1>7
<1>9. p * (Base * w) + r * w = q * w
  <2>1. q = p * Base + r
    BY <1>2, <1>7, <1>8
  <2>2. (p * Base + r) * w = p * (Base * w) + r * w
    BY <1>1, <1>2
  <2> QED
    BY <2>1, <2>2
<1>10. r * w \in Nat
  BY <1>1
<1>11. Byte(time, b) * Weight[b] = r * w /\ Floor(time, b) = q * w
       /\ Floor(time, b + 1) = p * (Base * w)
  BY <1>1, <1>2, <1>3, <1>5, <1>6, <1>8 DEF Byte, Floor
<1> QED
  BY <1>9, <1>10, <1>11

LEMMA FloorEnds ==
  ASSUME NEW time \in 0 .. MaxTime
  PROVE  Floor(time, 0) = time /\ Floor(time, ByteCount) = 0
<1>1. time \in Nat /\ Weight[0] = 1
  BY UptimeAssumption
<1>2. Floor(time, 0) = time
  <2>1. (time \div 1) * 1 = time
    BY <1>1
  <2> QED
    BY <1>1, <2>1 DEF Floor
<1>3. PICK w \in Nat \ {0} : w = Weight[ByteCount]
  BY WeightsAreNumbers
<1>4. time < w
  BY <1>3, UptimeAssumption
<1>5. time \div w = 0
  BY <1>1, <1>3, <1>4
<1>6. Floor(time, ByteCount) = 0
  BY <1>3, <1>5 DEF Floor
<1> QED
  BY <1>2, <1>6

LEMMA FloorLater ==
  ASSUME NEW s \in Nat, NEW t \in Nat, s <= t, NEW b \in 0 .. ByteCount
  PROVE  Floor(s, b) <= Floor(t, b)
<1>1. Weight[b] \in Nat \ {0}
  BY WeightsAreNumbers
<1> QED
  BY <1>1, DivMonotone DEF Floor

LEMMA FloorOfHigher ==
  ASSUME NEW time \in Nat, NEW b \in Bytes
  PROVE  Floor(time, b + 1) <= Floor(time, b)
<1>1. b \in 0 .. ByteCount /\ b + 1 \in 0 .. ByteCount
  BY WeightsAreNumbers
<1>2. PICK n \in Nat : n = Byte(time, b) * Weight[b]
  BY ByteAmountsTo
<1>3. Floor(time, b) \in Nat /\ Floor(time, b + 1) \in Nat
  BY <1>1, FloorIs
<1> QED
  BY <1>2, <1>3, ByteAmountsTo

(***************************************************************************)
(* Without a carry out of the low byte the others stay.                    *)
(***************************************************************************)
LEMMA FloorWithoutCarry ==
  ASSUME NEW s \in Nat, NEW t \in Nat, s \div Base = t \div Base,
         NEW b \in 0 .. ByteCount, b # 0
  PROVE  Floor(s, b) = Floor(t, b)
<1>1. PICK c \in Bytes : c + 1 = b
  <2>1. b - 1 \in Bytes /\ (b - 1) + 1 = b
    BY WeightsAreNumbers DEF Bytes
  <2> QED
    BY <2>1
<1>2. PICK w \in Nat \ {0} : w = Weight[c]
  BY WeightsAreNumbers
<1>3. Weight[b] = Base * w /\ Base \in Nat \ {0}
  BY <1>1, <1>2, WeightsAreNumbers
<1>4. s \div (Base * w) = (s \div Base) \div w /\ t \div (Base * w) = (t \div Base) \div w
  BY <1>2, <1>3, DivOfDiv
<1> QED
  BY <1>3, <1>4 DEF Floor

-----------------------------------------------------------------------------

LEMMA LessIsWellFounded ==
  IsWellFoundedOn({ss \in Nat \X Nat : ss[1] < ss[2]}, Nat)
BY NatLessThanWellFounded DEF OpToRel

LEMMA HasLeast ==
  ASSUME NEW T, T \subseteq Nat, T # {}
  PROVE  \E k \in T : \A j \in T : k <= j
<1>1. PICK k \in T : \A j \in T : ~(<<j, k>> \in {ss \in Nat \X Nat : ss[1] < ss[2]})
  BY LessIsWellFounded, WFMin
<1>2. ASSUME NEW j \in T PROVE k <= j
  <2>1. j \in Nat /\ k \in Nat
    OBVIOUS
  <2>2. j < k => <<j, k>> \in {ss \in Nat \X Nat : ss[1] < ss[2]}
    BY <2>1
  <2> QED
    BY <1>1, <2>1, <2>2
<1> QED
  BY <1>2

LEMMA FloorFalls ==
  ASSUME NEW time \in Nat, NEW b \in 0 .. ByteCount, NEW c \in 0 .. ByteCount, b <= c
  PROVE  Floor(time, c) <= Floor(time, b)
<1> DEFINE Wrongs == {j \in b .. ByteCount : Floor(time, j) > Floor(time, b)}
<1>1. ByteCount \in Nat
  BY WeightsAreNumbers
<1>2. \A j \in 0 .. ByteCount : Floor(time, j) \in Nat
  BY FloorIs
<1>3. SUFFICES ASSUME Wrongs # {} PROVE FALSE
  <2>1. c \notin Wrongs
    BY <1>3
  <2>2. c \in b .. ByteCount /\ ~(Floor(time, c) > Floor(time, b))
    BY <1>1, <2>1
  <2> QED
    BY <1>2, <2>2
<1>4. Wrongs \subseteq Nat
  BY <1>1
<1>5. PICK k \in Wrongs : \A j \in Wrongs : k <= j
  <2> HIDE DEF Wrongs
  <2> QED
    BY <1>3, <1>4, HasLeast
<1>6. k \in b .. ByteCount /\ Floor(time, k) > Floor(time, b)
  OBVIOUS
<1>7. k # b
  BY <1>2, <1>6
<1>8. PICK m \in 0 .. ByteCount : m + 1 = k /\ m \in b .. ByteCount /\ m \in Bytes
  <2>1. k - 1 \in b .. ByteCount /\ k - 1 \in Bytes /\ (k - 1) + 1 = k
    BY <1>1, <1>6, <1>7 DEF Bytes
  <2> QED
    BY <1>1, <2>1
<1>9. m \notin Wrongs
  <2>1. m < k
    BY <1>8
  <2> HIDE DEF Wrongs
  <2> QED
    BY <1>4, <1>5, <1>8, <2>1
<1>10. ~(Floor(time, m) > Floor(time, b))
  BY <1>8, <1>9
<1>11. Floor(time, k) <= Floor(time, m)
  BY <1>8, FloorOfHigher
<1> QED
  BY <1>2, <1>6, <1>8, <1>10, <1>11

LEMMA ShareIs ==
  ASSUME NEW time \in 0 .. MaxTime, NEW b \in Bytes
  PROVE  /\ IsFiniteSet(Share(time, b))
         /\ Cardinality(Share(time, b)) = Floor(time, b) - Floor(time, b + 1)
<1>1. time \in Nat /\ b \in 0 .. ByteCount /\ b + 1 \in 0 .. ByteCount
  BY WeightsAreNumbers, UptimeAssumption
<1>2. PICK low \in Nat : low = Floor(time, b + 1)
  BY <1>1, FloorIs
<1>3. PICK high \in Nat : high = Floor(time, b) /\ high <= time
  BY <1>1, FloorIs
<1>4. low <= high
  BY <1>1, <1>2, <1>3, FloorOfHigher
<1>5. Share(time, b) = low .. high - 1
  BY <1>1, <1>2, <1>3 DEF Share
<1>6. /\ IsFiniteSet(low .. high - 1)
      /\ Cardinality(low .. high - 1) = IF low > high - 1 THEN 0 ELSE high - 1 - low + 1
  BY FS_Interval
<1> QED
  BY <1>2, <1>3, <1>4, <1>5, <1>6

LEMMA SharesAreFinite ==
  ASSUME NEW time \in 0 .. MaxTime, NEW B
  PROVE  IsFiniteSet(Shares(time, B)) /\ Cardinality(Shares(time, B)) \in Nat
<1>1. IsFiniteSet(0 .. time - 1)
  BY FS_Interval, UptimeAssumption
<1>2. Shares(time, B) \in SUBSET (0 .. time - 1)
  BY DEF Shares
<1> QED
  BY <1>1, <1>2, FS_Subset, FS_CardinalityType

(***************************************************************************)
(* The shares of different bytes have nothing in common, ...               *)
(***************************************************************************)
LEMMA SharesAdd ==
  ASSUME NEW time \in 0 .. MaxTime, NEW B, B \subseteq Bytes, NEW b \in Bytes, b \notin B
  PROVE  Cardinality(Shares(time, B \cup {b})) =
           Cardinality(Shares(time, B)) + Floor(time, b) - Floor(time, b + 1)
<1>1. Shares(time, B \cup {b}) = Shares(time, B) \cup Share(time, b)
  BY DEF Shares, Share
<1>2. Shares(time, B) \cap Share(time, b) = {}
  <2> SUFFICES ASSUME NEW x \in 0 .. time - 1, NEW c \in B,
                      x \in Share(time, c), x \in Share(time, b)
               PROVE  FALSE
    BY DEF Shares, Share
  <2>1. time \in Nat /\ x \in Nat
    BY UptimeAssumption
  <2>2. /\ b \in 0 .. ByteCount /\ b + 1 \in 0 .. ByteCount
        /\ c \in 0 .. ByteCount /\ c + 1 \in 0 .. ByteCount
    BY WeightsAreNumbers
  <2>3. /\ Floor(time, b) \in Nat /\ Floor(time, b + 1) \in Nat
        /\ Floor(time, c) \in Nat /\ Floor(time, c + 1) \in Nat
    BY <2>1, <2>2, FloorIs
  <2>4. /\ Floor(time, b + 1) <= x /\ x < Floor(time, b)
        /\ Floor(time, c + 1) <= x /\ x < Floor(time, c)
    BY DEF Share
  <2>5. CASE b < c
    <3>1. Floor(time, c) <= Floor(time, b + 1)
      BY <2>1, <2>2, <2>5, FloorFalls
    <3> QED
      BY <2>1, <2>3, <2>4, <3>1
  <2>6. CASE c < b
    <3>1. Floor(time, b) <= Floor(time, c + 1)
      BY <2>1, <2>2, <2>6, FloorFalls
    <3> QED
      BY <2>1, <2>3, <2>4, <3>1
  <2> QED
    BY <2>2, <2>5, <2>6
<1>3. Cardinality(Shares(time, B) \cup Share(time, b)) =
        Cardinality(Shares(time, B)) + Cardinality(Share(time, b)) - Cardinality({})
  BY <1>2, SharesAreFinite, ShareIs, FS_Union
<1>4. PICK n \in Nat : n = Cardinality(Shares(time, B))
  BY SharesAreFinite
<1>5. Cardinality(Share(time, b)) = Floor(time, b) - Floor(time, b + 1)
  BY ShareIs
<1>6. time \in Nat /\ b \in 0 .. ByteCount /\ b + 1 \in 0 .. ByteCount
  BY WeightsAreNumbers, UptimeAssumption
<1>7. PICK high \in Nat, low \in Nat : high = Floor(time, b) /\ low = Floor(time, b + 1)
  BY <1>6, FloorIs
<1>8. Cardinality({}) = 0
  BY FS_EmptySet
<1>9. Cardinality(Shares(time, B \cup {b})) = n + (high - low) - 0
  BY <1>1, <1>3, <1>4, <1>5, <1>7, <1>8
<1> QED
  BY <1>4, <1>7, <1>9

(***************************************************************************)
(* ... and those of all bytes are all the numbers below the time.          *)
(***************************************************************************)
LEMMA SharesOfAll ==
  ASSUME NEW time \in 0 .. MaxTime
  PROVE  Cardinality(Shares(time, Bytes)) = time
<1>1. ASSUME NEW x \in 0 .. time - 1
      PROVE  \E b \in Bytes : x \in Share(time, b)
  <2> DEFINE Passed == {j \in 0 .. ByteCount : Floor(time, j) <= x}
  <2>1. time \in Nat /\ x \in Nat /\ x < time /\ ByteCount \in Nat
    BY WeightsAreNumbers, UptimeAssumption
  <2>2. Floor(time, 0) = time /\ Floor(time, ByteCount) = 0
    BY FloorEnds
  <2>3. ByteCount \in Passed /\ Passed \subseteq Nat
    BY <2>1, <2>2
  <2>4. PICK k \in Passed : \A j \in Passed : k <= j
    <3> HIDE DEF Passed
    <3> QED
      BY <2>3, HasLeast
  <2>5. k \in 0 .. ByteCount /\ Floor(time, k) <= x
    OBVIOUS
  <2>6. k # 0
    BY <2>1, <2>2, <2>5
  <2>7. PICK b \in Bytes : b + 1 = k /\ b \in 0 .. ByteCount
    <3>1. k - 1 \in Bytes /\ (k - 1) + 1 = k
      BY <2>1, <2>5, <2>6 DEF Bytes
    <3> QED
      BY <3>1, WeightsAreNumbers
  <2>8. b \notin Passed
    <3>1. b < k
      BY <2>7
    <3> HIDE DEF Passed
    <3> QED
      BY <2>4, <2>7, <2>5, <3>1
  <2>9. Floor(time, b) \in Nat
    BY <2>1, <2>7, FloorIs
  <2>10. x < Floor(time, b)
    BY <2>1, <2>7, <2>8, <2>9
  <2> QED
    BY <2>5, <2>7, <2>10 DEF Share
<1>2. Shares(time, Bytes) = 0 .. time - 1
  BY <1>1 DEF Shares
<1>3. time \in Nat
  BY UptimeAssumption
<1>4. Cardinality(0 .. time - 1) = IF 0 > time - 1 THEN 0 ELSE time - 1 - 0 + 1
  BY <1>3, FS_Interval
<1> QED
  BY <1>2, <1>3, <1>4

-----------------------------------------------------------------------------

LEMMA OrderReads ==
  ASSUME NEW order \in ReadOrders
  PROVE  /\ order \in [1 .. ByteCount -> Bytes] /\ Len(order) = ByteCount
         /\ \A b \in Bytes : \E k \in 1 .. ByteCount : order[k] = b
         /\ \A j, k \in 1 .. ByteCount : order[j] = order[k] => j = k
         /\ order # <<>>
<1>1. order \in [1 .. ByteCount -> Bytes] /\ ByteCount \in Nat \ {0}
  BY UptimeAssumption
<1>2. Len(order) = ByteCount
  BY <1>1
<1>3. order # <<>>
  BY <1>1, <1>2
<1> QED
  BY <1>1, <1>2, <1>3, UptimeAssumption

LEMMA InCall ==
  ASSUME UptimeTyped, reading # NotReading
  PROVE  /\ reading \in Call /\ reading.order \in ReadOrders
         /\ reading.read \in 0 .. ByteCount /\ Len(reading.order) = ByteCount
         /\ reading.value \in Nat /\ reading.started \in 0 .. MaxTime
         /\ reading.started \in Nat /\ e_time \in Nat /\ reading.started <= e_time
<1>1. reading \in Call
  BY DEF UptimeTyped
<1>2. MaxTime \in Nat
  BY UptimeAssumption
<1> QED
  BY <1>1, <1>2, OrderReads DEF Call, UptimeTyped

LEMMA UptimeInitInv == UptimeInit => UptimeInv
<1> SUFFICES ASSUME UptimeInit PROVE UptimeInv
  OBVIOUS
<1>1. UptimeTyped
  BY UptimeAssumption DEF UptimeInit, UptimeTyped, NotReading
<1>2. LowFirstNotBefore /\ HighFirstNotAfter /\ CountsWhatIsRead
  BY DEF UptimeInit, LowFirstNotBefore, HighFirstNotAfter, CountsWhatIsRead
<1> QED
  BY <1>1, <1>2 DEF UptimeInv

LEMMA BeginKeepsUptimeInv ==
  ASSUME UptimeInv, BeginUptime
  PROVE  UptimeInv'
<1>1. PICK order \in ReadOrders :
        reading' = [order |-> order, read |-> 0, value |-> 0, started |-> e_time]
  BY DEF BeginUptime
<1>2. e_time' = e_time /\ e_time \in 0 .. MaxTime /\ e_time \in Nat /\ ByteCount \in Nat
  BY WeightsAreNumbers, UptimeAssumption DEF BeginUptime, UptimeInv, UptimeTyped
<1>3. reading' \in Call
  BY <1>1, <1>2 DEF Call
<1>4. UptimeTyped'
  BY <1>1, <1>2, <1>3 DEF UptimeTyped
<1>5. LowFirstNotBefore'
  BY <1>1, <1>2, FloorEnds DEF LowFirstNotBefore, Floor
<1>6. HighFirstNotAfter'
  <2>1. 0 <= Floor(e_time, ByteCount)
    BY <1>2, FloorEnds
  <2> QED
    BY <1>1, <1>2, <2>1 DEF HighFirstNotAfter, Floor
<1>7. CountsWhatIsRead'
  <2>1. Read' = {}
    BY <1>1 DEF Read
  <2>2. Shares(reading.started, Read)' = {}
    BY <2>1 DEF Shares
  <2>3. Cardinality({}) = 0
    BY FS_EmptySet
  <2>4. Late' = 0
    BY <2>1 DEF Late
  <2> QED
    BY <1>1, <2>2, <2>3, <2>4 DEF CountsWhatIsRead
<1> QED
  BY <1>4, <1>5, <1>6, <1>7 DEF UptimeInv

LEMMA ReturnKeepsUptimeInv ==
  ASSUME UptimeInv, ReturnUptime
  PROVE  UptimeInv'
<1>1. reading' = NotReading /\ e_time' = e_time /\ e_time \in 0 .. MaxTime /\ MaxTime \in Nat
  BY UptimeAssumption DEF ReturnUptime, UptimeInv, UptimeTyped
<1>2. UptimeTyped'
  BY <1>1 DEF UptimeTyped, NotReading
<1> QED
  BY <1>1, <1>2 DEF UptimeInv, LowFirstNotBefore, HighFirstNotAfter, CountsWhatIsRead

LEMMA TickKeepsUptimeInv ==
  ASSUME UptimeInv, CountTick
  PROVE  UptimeInv'
<1>1. /\ e_time' = e_time + 1 /\ reading' = reading /\ e_time' \in 0 .. MaxTime
      /\ e_time \in Nat /\ e_time' \in Nat /\ e_time <= e_time'
  BY UptimeAssumption DEF CountTick, UptimeInv, UptimeTyped
<1>2. UptimeTyped /\ UptimeTyped'
  BY <1>1 DEF UptimeInv, UptimeTyped, Call, NotReading
<1>3. CASE reading = NotReading
  BY <1>1, <1>2, <1>3 DEF UptimeInv, LowFirstNotBefore, HighFirstNotAfter, CountsWhatIsRead
<1>4. CASE reading # NotReading
  <2>1. /\ reading.read \in 0 .. ByteCount /\ reading.value \in Nat /\ reading.started \in Nat
        /\ reading.started <= e_time
    BY <1>2, <1>4, InCall
  <2>2. ByteCount \in Nat /\ Base \in Nat \ {0} /\ ByteCount - reading.read \in 0 .. ByteCount
    BY <2>1, WeightsAreNumbers
  <2>3. \A b \in 0 .. ByteCount : /\ Floor(e_time, b) <= Floor(e_time', b)
                                  /\ Floor(e_time, b) \in Nat /\ Floor(e_time', b) \in Nat
    BY <1>1, FloorLater, FloorIs
  <2>4. LowFirstNotBefore'
    <3>1. PICK old \in Nat, new \in Nat :
            old = Floor(e_time, reading.read) /\ new = Floor(e_time', reading.read) /\ old <= new
      BY <2>1, <2>3
    <3>2. Floor(e_time, reading.read)' = new
      BY <1>1, <3>1 DEF Floor
    <3> QED
      BY <1>1, <2>1, <3>1, <3>2 DEF UptimeInv, LowFirstNotBefore
  <2>5. HighFirstNotAfter'
    <3>1. PICK old \in Nat, new \in Nat :
            /\ old = Floor(e_time, ByteCount - reading.read)
            /\ new = Floor(e_time', ByteCount - reading.read) /\ old <= new
      BY <2>2, <2>3
    <3>2. Floor(e_time, ByteCount - reading.read)' = new
      BY <1>1, <3>1 DEF Floor
    <3> QED
      BY <1>1, <2>1, <3>1, <3>2 DEF UptimeInv, HighFirstNotAfter
  <2>6. CountsWhatIsRead'
    <3> SUFFICES ASSUME reading.started \div Base = e_time' \div Base
                 PROVE  /\ Cardinality(Shares(reading.started, Read)') <= reading.value
                        /\ reading.value <= Cardinality(Shares(reading.started, Read)') + Late'
      BY <1>1 DEF CountsWhatIsRead
    <3>1. reading.started \div Base = e_time \div Base
      <4>1. /\ reading.started \div Base <= e_time \div Base
            /\ e_time \div Base <= e_time' \div Base
        BY <1>1, <2>1, <2>2, DivMonotone
      <4>2. reading.started \div Base \in Nat /\ e_time \div Base \in Nat
        BY <1>1, <2>1, <2>2, DivBounds
      <4> QED
        BY <4>1, <4>2
    <3>2. Shares(reading.started, Read)' = Shares(reading.started, Read)
      BY <1>1 DEF Shares, Share, Floor, Read
    <3>3. Late \in Nat /\ Late' \in Nat /\ Late <= Late'
      BY <1>1, <2>1 DEF Late, Read
    <3>4. PICK n \in Nat : n = Cardinality(Shares(reading.started, Read))
      BY <1>2, <1>4, InCall, SharesAreFinite
    <3>5. n <= reading.value /\ reading.value <= n + Late
      BY <1>4, <3>1, <3>4 DEF UptimeInv, CountsWhatIsRead
    <3> QED
      BY <2>1, <3>2, <3>3, <3>4, <3>5
  <2> QED
    BY <1>2, <2>4, <2>5, <2>6 DEF UptimeInv
<1> QED
  BY <1>3, <1>4

LEMMA ReadKeepsUptimeInv ==
  ASSUME UptimeInv, ReadByte
  PROVE  UptimeInv'
<1>1. UptimeTyped /\ e_time' = e_time /\ e_time \in 0 .. MaxTime /\ e_time \in Nat
  BY UptimeAssumption DEF UptimeInv, UptimeTyped, ReadByte
<1>2. reading # NotReading
  <2>1. Len(<<>>) = 0
    OBVIOUS
  <2> QED
    BY <2>1 DEF ReadByte, NotReading
<1>3. PICK order \in ReadOrders, read \in Nat, value \in Nat, s \in 0 .. MaxTime :
        /\ reading.order = order /\ reading.read = read
        /\ reading.value = value /\ reading.started = s
        /\ s \in Nat /\ s <= e_time
  BY <1>1, <1>2, InCall
<1>4. ByteCount \in Nat \ {0} /\ read < ByteCount /\ read + 1 \in 1 .. ByteCount
  BY <1>3, OrderReads, WeightsAreNumbers DEF ReadByte
<1>5. PICK b \in Bytes : b = order[read + 1]
  BY <1>4, OrderReads
<1>6. PICK amount \in Nat : amount = Byte(e_time, b) * Weight[b]
  BY <1>1, ByteAmountsTo
<1>7. /\ reading' = [reading EXCEPT !.read = @ + 1, !.value = @ + amount]
      /\ reading \in Call
  BY <1>1, <1>2, <1>3, <1>5, <1>6, InCall DEF ReadByte
<1>8. /\ reading'.order = order /\ reading'.read = read + 1
      /\ reading'.value = value + amount /\ reading'.started = s
      /\ reading' \in Call
  <2>1. read + 1 \in 0 .. ByteCount /\ value + amount \in Nat
    BY <1>3, <1>4
  <2>2. reading' = [reading EXCEPT !.read = read + 1, !.value = value + amount]
    BY <1>3, <1>7
  <2> QED
    BY <1>3, <1>7, <2>1, <2>2 DEF Call
<1>9. UptimeTyped'
  BY <1>1, <1>3, <1>8 DEF UptimeTyped
<1>10. b \in 0 .. ByteCount /\ b + 1 \in 0 .. ByteCount
  BY WeightsAreNumbers
<1>11. PICK low \in Nat, high \in Nat :
         low = Floor(e_time, b + 1) /\ high = Floor(e_time, b) /\ low + amount = high
  BY <1>1, <1>6, <1>10, FloorIs, ByteAmountsTo
<1>12. LowFirstNotBefore'
  <2> SUFFICES ASSUME order = LowFirst
               PROVE  value + amount + Floor(e_time, read + 1) >= s
    BY <1>1, <1>8 DEF LowFirstNotBefore, Floor
  <2>1. b = read
    BY <1>4, <1>5 DEF LowFirst
  <2>2. value + Floor(e_time, read) >= s
    BY <1>2, <1>3 DEF UptimeInv, LowFirstNotBefore
  <2> QED
    BY <1>3, <1>11, <2>1, <2>2
<1>13. HighFirstNotAfter'
  <2> SUFFICES ASSUME order = HighFirst
               PROVE  value + amount <= Floor(e_time, ByteCount - (read + 1))
    BY <1>1, <1>8 DEF HighFirstNotAfter, Floor
  <2>1. b = ByteCount - (read + 1) /\ b + 1 = ByteCount - read
    BY <1>3, <1>4, <1>5 DEF HighFirst
  <2>2. value <= Floor(e_time, ByteCount - read)
    BY <1>2, <1>3 DEF UptimeInv, HighFirstNotAfter
  <2> QED
    BY <1>3, <1>11, <2>1, <2>2
<1>14. CountsWhatIsRead'
  <2> SUFFICES ASSUME s \div Base = e_time \div Base
               PROVE  /\ Cardinality(Shares(reading.started, Read)') <= value + amount
                      /\ value + amount <= Cardinality(Shares(reading.started, Read)') + Late'
    BY <1>1, <1>8 DEF CountsWhatIsRead
  <2> DEFINE old == {order[k] : k \in 1 .. read}
  <2>1. Read = old /\ Read' = old \cup {b}
    <3>1. 1 .. read + 1 = (1 .. read) \cup {read + 1}
      BY <1>3
    <3> QED
      BY <1>3, <1>5, <1>8, <3>1 DEF Read
  <2>2. old \subseteq Bytes /\ b \notin old
    <3>1. \A k \in 1 .. read : k \in 1 .. ByteCount /\ k # read + 1
      BY <1>3, <1>4
    <3>2. \A k \in 1 .. read : order[k] \in Bytes /\ order[k] # order[read + 1]
      BY <1>4, <3>1, OrderReads
    <3> QED
      BY <1>5, <3>2
  <2> HIDE DEF old
  <2>3. Shares(reading.started, Read)' = Shares(s, old \cup {b})
    BY <1>8, <2>1 DEF Shares, Share, Floor
  <2>4. PICK n \in Nat : n = Cardinality(Shares(s, old))
    BY SharesAreFinite
  <2>5. PICK floor \in Nat, above \in Nat : floor = Floor(s, b) /\ above = Floor(s, b + 1)
    BY <1>3, <1>10, FloorIs
  <2>6. Cardinality(Shares(s, old \cup {b})) = n + floor - above
    BY <2>2, <2>4, <2>5, SharesAdd
  <2>7. above = low
    <3>1. b + 1 # 0
      BY <1>10
    <3> QED
      BY <1>1, <1>3, <1>10, <1>11, <2>5, <3>1, FloorWithoutCarry
  <2>8. Shares(reading.started, Read) = Shares(s, old)
    BY <1>3, <2>1
  <2>9. n <= value /\ value <= n + Late
    BY <1>2, <1>3, <2>4, <2>8 DEF UptimeInv, CountsWhatIsRead
  <2>10. CASE b = 0
    <3>1. floor = s /\ high = e_time
      BY <1>11, <2>5, <2>10, FloorEnds, <1>1
    <3>2. Late = 0
      BY <2>1, <2>2, <2>10 DEF Late
    <3>3. Late' = e_time - s
      BY <1>1, <1>8, <2>1, <2>10 DEF Late
    <3> QED
      BY <1>1, <1>3, <1>11, <2>3, <2>6, <2>7, <2>9, <3>1, <3>2, <3>3
  <2>11. CASE b # 0
    <3>1. floor = high
      BY <1>1, <1>3, <1>10, <1>11, <2>5, <2>11, FloorWithoutCarry
    <3>2. Late' = Late /\ Late \in Nat
      BY <1>1, <1>3, <1>8, <2>1, <2>11 DEF Late
    <3> QED
      BY <1>1, <1>3, <1>11, <2>3, <2>6, <2>7, <2>9, <3>1, <3>2
  <2> QED
    BY <2>10, <2>11
<1> QED
  BY <1>9, <1>12, <1>13, <1>14 DEF UptimeInv

LEMMA UptimeStepInv == UptimeInv /\ [UptimeNext]_uptimeVars => UptimeInv'
<1> SUFFICES ASSUME UptimeInv, [UptimeNext]_uptimeVars PROVE UptimeInv'
  OBVIOUS
<1>1. CASE UptimeNext
  BY <1>1, BeginKeepsUptimeInv, ReadKeepsUptimeInv, ReturnKeepsUptimeInv, TickKeepsUptimeInv
     DEF UptimeNext, UptimeStep
<1>2. CASE UNCHANGED uptimeVars
  <2>1. UptimeTyped' /\ LowFirstNotBefore' /\ HighFirstNotAfter'
    BY <1>2 DEF uptimeVars, UptimeInv, UptimeTyped, LowFirstNotBefore, HighFirstNotAfter, Floor
  <2>2. Shares(reading.started, Read)' = Shares(reading.started, Read) /\ Late' = Late
    BY <1>2 DEF uptimeVars, Shares, Share, Floor, Read, Late
  <2>3. CountsWhatIsRead'
    BY <1>2, <2>2 DEF uptimeVars, UptimeInv, CountsWhatIsRead
  <2> QED
    BY <2>1, <2>3 DEF UptimeInv
<1> QED
  BY <1>1, <1>2

(***************************************************************************)
(* When every byte has been read.                                          *)
(***************************************************************************)
LEMMA UptimeReadBounded == UptimeInv => TornReadBounds
<1> SUFFICES ASSUME UptimeInv, HasUptime PROVE TornReadBounds
  BY DEF TornReadBounds, NeverBeforeCall, NeverAfterReturn, TornOnlyByCarry
<1>1. UptimeTyped /\ reading # NotReading
  BY DEF UptimeInv, HasUptime
<1>2. PICK order \in ReadOrders, value \in Nat, s \in 0 .. MaxTime :
        /\ reading.order = order /\ reading.value = value /\ reading.started = s
        /\ s \in Nat /\ s <= e_time
  BY <1>1, InCall
<1>3. reading.read = ByteCount /\ ByteCount \in Nat /\ e_time \in 0 .. MaxTime /\ e_time \in Nat
  BY <1>1, InCall, WeightsAreNumbers DEF HasUptime, UptimeTyped
<1>4. Floor(e_time, ByteCount) = 0 /\ Floor(e_time, 0) = e_time
  BY <1>3, FloorEnds
<1>5. NeverBeforeCall
  BY <1>1, <1>2, <1>3, <1>4 DEF UptimeInv, LowFirstNotBefore, NeverBeforeCall
<1>6. NeverAfterReturn
  <2>1. ByteCount - ByteCount = 0
    BY <1>3
  <2> QED
    BY <1>1, <1>2, <1>3, <1>4, <2>1 DEF UptimeInv, HighFirstNotAfter, NeverAfterReturn
<1>7. TornOnlyByCarry
  <2> SUFFICES ASSUME s \div Base = e_time \div Base
               PROVE  value \in s .. e_time
    BY <1>2 DEF TornOnlyByCarry
  <2>1. Read = Bytes
    <3>1. Read = {order[k] : k \in 1 .. ByteCount}
      BY <1>2, <1>3 DEF Read
    <3> QED
      BY <3>1, OrderReads
  <2>2. 0 \in Bytes
    BY WeightsAreNumbers DEF Bytes
  <2>3. Cardinality(Shares(s, Read)) = s /\ Late = e_time - s
    BY <1>2, <2>1, <2>2, SharesOfAll DEF Late
  <2>4. s <= value /\ value <= s + (e_time - s)
    BY <1>1, <1>2, <2>3 DEF UptimeInv, CountsWhatIsRead
  <2> QED
    BY <1>2, <1>3, <2>4
<1> QED
  BY <1>5, <1>6, <1>7 DEF TornReadBounds

(***************************************************************************)
(* To the uptime a step of the whole is one of its own, or none.           *)
(***************************************************************************)
LEMMA OnlyUptimeSteps == [PreemptedNext]_preemptedVars => [UptimeNext]_uptimeVars
<1> SUFFICES ASSUME [PreemptedNext]_preemptedVars PROVE [UptimeNext]_uptimeVars
  OBVIOUS
<1>1. CASE MainReadsUptime
  BY <1>1 DEF MainReadsUptime, UptimeNext, UptimeStep
<1>2. CASE TickComes
  BY <1>2 DEF TickComes, UptimeNext
<1>3. CASE \/ MainWritesPin \/ MainLogs \/ MainControlsTimer \/ TickLogs \/ Transmit
           \/ UNCHANGED preemptedVars
  BY <1>3 DEF MainWritesPin, MainLogs, MainControlsTimer, TickLogs, Transmit, preemptedVars
<1> QED
  BY <1>1, <1>2, <1>3 DEF PreemptedNext

(***************************************************************************)
(* What the bytes read so far amount to stays within its bounds.           *)
(***************************************************************************)
THEOREM UptimeInvariant == PreemptedSpec => []UptimeInv
<1>1. PreemptedInit => UptimeInv
  BY UptimeInitInv DEF PreemptedInit
<1>2. UptimeInv /\ [PreemptedNext]_preemptedVars => UptimeInv'
  BY UptimeStepInv, OnlyUptimeSteps
<1> QED
  BY <1>1, <1>2, PTL DEF PreemptedSpec

(***************************************************************************)
(* kernelv1_getUptime, which reads e_time with interrupts enabled: however *)
(* many ticks come between the reads of its bytes, an uptime read from the *)
(* low byte up is not before the call, one read from the high byte down    *)
(* not after the return, and one read in any order lies between the two    *)
(* unless the low byte has overflowed meanwhile.                           *)
(***************************************************************************)
THEOREM UptimeTornWithinBounds == PreemptedSpec => []TornReadBounds
BY UptimeInvariant, UptimeReadBounded, PTL

-----------------------------------------------------------------------------

(***************************************************************************)
(* The timer.  Until kernelv1_init has started it nothing ticks, so its    *)
(* check of KFLAG_TIMER_SET succeeds.                                      *)
(***************************************************************************)
Stopped == {"unset", "disable", "setup", "set", "check start", "start"}

Boots ==
  /\ booting => section \in Stopped \cup {"started", "enable"}
  /\ booting /\ section \in Stopped => ~TIMSK
  /\ booting /\ section \in {"check start", "start"} => "SET" \in timerFlags
  /\ section \in {"unset", "disable", "enable"} => booting

(***************************************************************************)
(* Only a timer that was set up is started.                                *)
(***************************************************************************)
SetUpFirst ==
  /\ "SET" \in timerFlags \/ section = "set" => TCCR0
  /\ TIMSK \/ section = "start" => "SET" \in timerFlags

(***************************************************************************)
(* Between the driver and the flag the main program knows what the flag    *)
(* will say; elsewhere the flag says it.                                   *)
(***************************************************************************)
FlagFollows ==
  /\ section \in {"started", "enable"} /\ ~undone => TIMSK
  /\ section = "stopped" => ~TIMSK
  /\ ~booting /\ section \notin {"started", "stopped"} /\ ~undone
       => ("EN" \in timerFlags <=> TIMSK)

ControlInv == ControlTypeOK /\ Boots /\ SetUpFirst /\ FlagFollows

LEMMA ControlStepKeepsInv == ControlInv /\ ControlStep => ControlInv'
<1> SUFFICES ASSUME ControlTypeOK, Boots, SetUpFirst, FlagFollows, ControlStep
             PROVE  ControlTypeOK' /\ Boots' /\ SetUpFirst' /\ FlagFollows'
  BY DEF ControlInv
<1> USE DEF ControlTypeOK, Boots, Stopped, SetUpFirst, FlagFollows, Sections, At
<1>1. CASE KernelInitClears
  <2>1. CASE At("unset", "disable") /\ ClearFlag("SET")
    BY <1>1, <2>1 DEF KernelInitClears, ClearFlag
  <2>2. CASE At("disable", "setup") /\ ClearFlag("EN")
    BY <1>1, <2>2 DEF KernelInitClears, ClearFlag
  <2> QED
    BY <1>1, <2>1, <2>2 DEF KernelInitClears
<1>2. CASE KernelInitEnables
  BY <1>2 DEF KernelInitEnables, SetFlag
<1>3. CASE BeginControl
  BY <1>3 DEF BeginControl
<1>4. CASE SetupTimer0
  BY <1>4 DEF SetupTimer0
<1>5. CASE MarkSetUp
  BY <1>5 DEF MarkSetUp, AfterSetup, SetFlag
<1>6. CASE CheckBeforeStart
  BY <1>6 DEF CheckBeforeStart, AfterStart
<1>7. CASE StartTimer0
  BY <1>7 DEF StartTimer0
<1>8. CASE MarkEnabled
  BY <1>8 DEF MarkEnabled, AfterStart, SetFlag
<1>9. CASE CheckBeforeStop
  BY <1>9 DEF CheckBeforeStop
<1>10. CASE StopTimer0
  BY <1>10 DEF StopTimer0
<1>11. CASE MarkDisabled
  BY <1>11 DEF MarkDisabled, ClearFlag
<1> HIDE DEF ControlTypeOK, Boots, Stopped, SetUpFirst, FlagFollows, Sections, At
<1> QED
  BY <1>1, <1>2, <1>3, <1>4, <1>5, <1>6, <1>7, <1>8, <1>9, <1>10, <1>11
  DEF ControlStep, SetupTimer, StartTimer, StopTimer

LEMMA CallbacksKeepControlInv ==
  ControlInv /\ Ticks /\ (CallbackStarts \/ CallbackStops) => ControlInv'
<1> SUFFICES ASSUME ControlTypeOK, Boots, SetUpFirst, FlagFollows, Ticks,
                    CallbackStarts \/ CallbackStops
             PROVE  ControlTypeOK' /\ Boots' /\ SetUpFirst' /\ FlagFollows'
  BY DEF ControlInv
<1> USE DEF ControlTypeOK, Boots, Stopped, SetUpFirst, FlagFollows, Sections, Ticks
<1>1. CASE CallbackStarts
  BY <1>1 DEF CallbackStarts, SetFlag
<1>2. CASE CallbackStops
  <2>1. CASE section \in {"started", "enable"} /\ undone' = TRUE
    BY <1>2, <2>1 DEF CallbackStops, ClearFlag
  <2>2. CASE section \notin {"started", "enable"} /\ UNCHANGED undone
    BY <1>2, <2>2 DEF CallbackStops, ClearFlag
  <2> QED
    BY <1>2, <2>1, <2>2 DEF CallbackStops
<1> HIDE DEF ControlTypeOK, Boots, Stopped, SetUpFirst, FlagFollows, Sections, Ticks
<1> QED
  BY <1>1, <1>2

LEMMA ControlNextKeepsInv == ControlInv /\ [ControlNext]_timerVars => ControlInv'
<1>1. ControlInv /\ UNCHANGED timerVars => ControlInv'
  <2> SUFFICES ASSUME ControlTypeOK, Boots, SetUpFirst, FlagFollows, UNCHANGED timerVars
               PROVE  ControlTypeOK' /\ Boots' /\ SetUpFirst' /\ FlagFollows'
    BY DEF ControlInv
  <2> QED
    BY DEF timerVars, ControlTypeOK, Boots, SetUpFirst, FlagFollows, Stopped, Sections
<1> QED
  BY <1>1, ControlStepKeepsInv, CallbacksKeepControlInv DEF ControlNext

LEMMA OnlyControlSteps == [PreemptedNext]_preemptedVars => [ControlNext]_timerVars
<1>1. MainControlsTimer => ControlNext
  BY DEF MainControlsTimer, ControlNext
<1>2. TickComes => ControlNext \/ UNCHANGED timerVars
  BY DEF TickComes, ControlNext
<1>3. MainReadsUptime \/ MainWritesPin \/ MainLogs => UNCHANGED timerVars
  BY DEF MainReadsUptime, MainWritesPin, MainLogs
<1>4. TickLogs \/ Transmit \/ UNCHANGED preemptedVars => UNCHANGED timerVars
  BY DEF TickLogs, Transmit, preemptedVars
<1> QED
  BY <1>1, <1>2, <1>3, <1>4 DEF PreemptedNext

(***************************************************************************)
(* The functions of the main program that start and stop the timer, and    *)
(* the callbacks that come between their sections, keep this.              *)
(***************************************************************************)
THEOREM ControlInvariant == PreemptedSpec => []ControlInv
<1>1. PreemptedInit => ControlInv
  BY DEF PreemptedInit, ControlInit, ControlInv, ControlTypeOK, Boots, Stopped, SetUpFirst,
         FlagFollows, Sections
<1>2. ControlInv /\ [PreemptedNext]_preemptedVars => ControlInv'
  BY ControlNextKeepsInv, OnlyControlSteps
<1> QED
  BY <1>1, <1>2, PTL DEF PreemptedSpec

(***************************************************************************)
(* kernelv1_startTimer and kernelv1_stopTimer, each in several critical    *)
(* sections: between calls KFLAG_TIMER_EN says whether the timer ticks,    *)
(* unless a callback stopped the timer between the section that started it *)
(* and the one that says so.                                               *)
(***************************************************************************)
THEOREM FlagTellsOfTimer == PreemptedSpec => []FlagTellsTimer
<1>1. ControlInv => FlagTellsTimer
  BY DEF ControlInv, ControlTypeOK, Boots, Stopped, SetUpFirst, FlagFollows, FlagTellsTimer, Ticks
<1> QED
  BY <1>1, ControlInvariant, PTL

-----------------------------------------------------------------------------

(***************************************************************************)
(* The state of pins, UART, uptime and timer stays of its type, the data   *)
(* register holds one character at most, and no uptime begins before its   *)
(* call.                                                                   *)
(***************************************************************************)
THEOREM PreemptedTypeCorrect == PreemptedSpec => []PreemptedTypeOK
<1>1. PinsInv => PinsTypeOK
  <2> SUFFICES ASSUME PinsInv PROVE PinsTypeOK
    OBVIOUS
  <2>1. access # NoAccess =>
          /\ access.reg \in Register
          /\ \A o \in DOMAIN access.got : access.got[o] \subseteq 0 .. 7
    <3> SUFFICES ASSUME access # NoAccess
                 PROVE  /\ access.reg \in Register
                        /\ \A o \in DOMAIN access.got : access.got[o] \subseteq 0 .. 7
      OBVIOUS
    <3>1. access \in AccessRecord
      BY DEF PinsInv, PinsTyped
    <3>2. access.got \in Gots /\ access.reg \in Register
      BY <3>1 DEF AccessRecord
    <3>3. PICK operands \in SUBSET {"left", "right"} : access.got \in [operands -> Bits]
      BY <3>2 DEF Gots
    <3> QED
      BY <3>2, <3>3 DEF Bits
  <2> QED
    BY <2>1 DEF PinsInv, PinsTyped, ReadsAreFresh, PinsTypeOK, Bits
<1>2. UartInv => UartTypeOK
  BY DEF UartInv, UartTyped, Progress, UartTypeOK, Message
<1>3. UptimeInv => UptimeTypeOK
  <2> SUFFICES ASSUME UptimeInv PROVE UptimeTypeOK
    OBVIOUS
  <2>1. UptimeTyped /\ e_time \in 0 .. MaxTime /\ MaxTime \in Nat
    BY UptimeAssumption DEF UptimeInv, UptimeTyped
  <2>2. CASE reading = NotReading
    <3>1. Len(<<>>) = 0
      OBVIOUS
    <3> QED
      BY <2>1, <2>2, <3>1 DEF UptimeTypeOK, NotReading
  <2>3. CASE reading # NotReading
    BY <2>1, <2>3, InCall DEF UptimeTypeOK
  <2> QED
    BY <2>2, <2>3
<1>4. PinsInv /\ UartInv /\ UptimeInv /\ ControlInv => PreemptedTypeOK
  BY <1>1, <1>2, <1>3 DEF PreemptedTypeOK, ControlInv
<1> QED
  BY <1>4, PinsInvariant, UartInvariant, UptimeInvariant, ControlInvariant, PTL
=============================================================================
