-------------------------------- MODULE Pins --------------------------------
(***************************************************************************)
(* The pins of src/kernel-v1/hal.c.  Each port has a direction register    *)
(* (DDR) and a level register (PORT), eight pins to a register; the        *)
(* functions read the register, change a bit and write it back with        *)
(* interrupts enabled, and a callback of the system tick writes pins too.  *)
(* hal_writeBit_m reads the volatile register twice, in either order:      *)
(*                                                                         *)
(*   x ^= (-1 * z ^ x) & (1 << y)                                          *)
(*                                                                         *)
(* asked and crossed only record.                                          *)
(***************************************************************************)
EXTENDS Integers, Sequences, FiniteSets

CONSTANTS
  Pin,          \* numbers given to the functions
  CallbackPin   \* those that callbacks of the tick write

VARIABLES
  bits,         \* register -> bits that are set
  access,       \* the write of a bit that the main program has begun
  asked,        \* bits as the functions called would have them, one by one
  crossed       \* bits that a callback wrote in the middle of an access

pinVars == <<bits, access, asked, crossed>>

ASSUME PinsAssumption == Pin \subseteq 0 .. 255 /\ CallbackPin \subseteq Pin

OUTPUT == 0
INPUT == 1
INPUT_PULLUP == 2

LOW == 0
HIGH == 1

(***************************************************************************)
(* The chain of comparisons: port k has the pins below Limit[k] that no    *)
(* port before it has; the functions subtract an offset to get the bit.    *)
(***************************************************************************)
Limit == <<8, 16, 24, 32, 40, 48, 53>>

PortsOf(pin) == {k \in DOMAIN Limit : pin < Limit[k] /\ \A j \in 1 .. k - 1 : pin >= Limit[j]}

LevelOffset == <<0, 8, 16, 24, 32, 40, 48>>

(***************************************************************************)
(* pinMode subtracts 160 for port C.                                       *)
(***************************************************************************)
DirectionOffset == <<0, 8, 160, 24, 32, 40, 48>>

DDR(port) == <<"DDR", port>>

PORT(port) == <<"PORT", port>>

Register == {"DDR", "PORT"} \X DOMAIN Limit

(***************************************************************************)
(* 1 << shift in a register: nothing, once the bit is shifted out.  The    *)
(* machine shifts by the low byte of the count, 112 to 119 for pin - 160.  *)
(***************************************************************************)
Mask(shift) == {shift} \cap (0 .. 7)

(***************************************************************************)
(* Where a pin belongs, for the record: pin 0 is bit 0 of port A, and so   *)
(* on.                                                                     *)
(***************************************************************************)
PortOf(pin) == pin \div 8 + 1

BitOf(pin) == pin % 8

-----------------------------------------------------------------------------

(***************************************************************************)
(* An access: how it changes the bits of mask in reg, with value; what its *)
(* reads have got; what callbacks have written to reg since the first of   *)
(* them; the pin whose pull-up is set next.                                *)
(***************************************************************************)
NoAccess == [how |-> "none"]

Nothing == [operand \in {} |-> {}]

Access(how, reg, mask, bit, value, pullup) ==
  [how |-> how, reg |-> reg, mask |-> mask, bit |-> bit, value |-> value,
   got |-> Nothing, crossing |-> {}, pullup |-> pullup]

PinsInit ==
  /\ bits = [r \in Register |-> {}]
  /\ access = NoAccess
  /\ asked = [r \in Register |-> {}]
  /\ crossed = [r \in Register |-> {}]

Levels(pin, value) ==
  {Access("write", PORT(k), Mask(pin - LevelOffset[k]), BitOf(pin), value = HIGH, {}) :
     k \in PortsOf(pin)}

Directions(pin, mode) ==
  {Access("write", DDR(k), Mask(pin - DirectionOffset[k]), BitOf(pin), mode = OUTPUT,
          IF mode = INPUT_PULLUP THEN {pin} ELSE {}) : k \in PortsOf(pin)}

(***************************************************************************)
(* hal_digitalWrite and hal_pinMode do nothing with a pin past the last.   *)
(***************************************************************************)
BeginDigitalWrite ==
  /\ access = NoAccess
  /\ \E pin \in Pin, value \in {LOW, HIGH} : access' \in Levels(pin, value)
  /\ UNCHANGED <<bits, asked, crossed>>

BeginPinMode ==
  /\ access = NoAccess
  /\ \E pin \in Pin, mode \in {OUTPUT, INPUT, INPUT_PULLUP} :
       access' \in Directions(pin, mode)
  /\ UNCHANGED <<bits, asked, crossed>>

(***************************************************************************)
(* hal_setBit, hal_clearBit and hal_switchBit, and hal_writePin and        *)
(* hal_setPinMode, which make a truth value of theirs first, are given the *)
(* register and the bit.                                                   *)
(***************************************************************************)
BeginBit ==
  /\ access = NoAccess
  /\ \E pin \in Pin : \E k \in PortsOf(pin) :
       \/ \E how \in {"set", "clear", "switch"} :
            access' = Access(how, PORT(k), {BitOf(pin)}, BitOf(pin), how = "set", {})
       \/ \E reg \in {PORT(k), DDR(k)}, value \in BOOLEAN :
            access' = Access("write", reg, {BitOf(pin)}, BitOf(pin), value, {})
  /\ UNCHANGED <<bits, asked, crossed>>

Reads == IF access.how = "write" THEN {"left", "right"} ELSE {"left"}

ReadRegister ==
  /\ access # NoAccess
  /\ \E operand \in Reads \ DOMAIN access.got :
       access' = [access EXCEPT !.got = [o \in DOMAIN @ \cup {operand} |->
                                           IF o = operand THEN bits[access.reg] ELSE @[o]]]
  /\ UNCHANGED <<bits, asked, crossed>>

SymDiff(a, b) == (a \ b) \cup (b \ a)

Negated(value) == IF value THEN 0 .. 7 ELSE {}

(***************************************************************************)
(* A slip: the register's own bits are left out of the write macro.        *)
(***************************************************************************)
ChangedBlindly ==
  CASE access.how = "write" ->
         SymDiff(access.got["left"], Negated(access.value) \cap access.mask)
    [] access.how = "set" -> access.got["left"] \cup access.mask
    [] access.how = "clear" -> access.got["left"] \ access.mask
    [] access.how = "switch" -> SymDiff(access.got["left"], access.mask)

(***************************************************************************)
(* What is written back.                                                   *)
(***************************************************************************)
Changed ==
  CASE access.how = "write" ->
         SymDiff(access.got["left"],
                 SymDiff(Negated(access.value), access.got["right"]) \cap access.mask)
    [] access.how = "set" -> access.got["left"] \cup access.mask
    [] access.how = "clear" -> access.got["left"] \ access.mask
    [] access.how = "switch" -> SymDiff(access.got["left"], access.mask)

Ask(reg, bit, value) ==
  asked' = [asked EXCEPT ![reg] = IF value THEN @ \cup {bit} ELSE @ \ {bit}]

WriteRegister ==
  /\ access # NoAccess
  /\ DOMAIN access.got = Reads
  /\ bits' = [bits EXCEPT ![access.reg] = Changed]
  /\ Ask(access.reg, access.bit,
         IF access.how = "switch" THEN access.bit \notin asked[access.reg] ELSE access.value)
  /\ crossed' = [crossed EXCEPT ![access.reg] =
                   access.crossing
                     \cup (IF access.how = "switch" THEN @ ELSE @ \ {access.bit})]
  /\ access' \in IF access.pullup = {} THEN {NoAccess}
                 ELSE UNION {Levels(pin, HIGH) : pin \in access.pullup}

(***************************************************************************)
(* A callback of the tick writes a pin, from beginning to end.             *)
(***************************************************************************)
CallbackWrites(pin, value) ==
  \E k \in PortsOf(pin) : \E mask \in {Mask(pin - LevelOffset[k])}, reg \in {PORT(k)} :
    /\ bits' = [bits EXCEPT ![reg] = IF value = HIGH THEN @ \cup mask ELSE @ \ mask]
    /\ Ask(reg, BitOf(pin), value = HIGH)
    /\ crossed' = [crossed EXCEPT ![reg] = @ \ {BitOf(pin)}]
    /\ access' = IF access # NoAccess /\ access.reg = reg /\ access.got # Nothing
                   THEN [access EXCEPT !.crossing = @ \cup {BitOf(pin)}]
                   ELSE access

PinStep == BeginDigitalWrite \/ BeginPinMode \/ BeginBit \/ ReadRegister \/ WriteRegister

PinsNext == PinStep \/ \E pin \in CallbackPin, value \in {LOW, HIGH} : CallbackWrites(pin, value)

PinsSpec == PinsInit /\ [][PinsNext]_pinVars

-----------------------------------------------------------------------------

PinsTypeOK ==
  /\ bits \in [Register -> SUBSET (0 .. 7)]
  /\ asked \in [Register -> SUBSET (0 .. 7)]
  /\ crossed \in [Register -> SUBSET (0 .. 7)]
  /\ access # NoAccess =>
       /\ access.reg \in Register
       /\ DOMAIN access.got \subseteq Reads
       /\ \A o \in DOMAIN access.got : access.got[o] \subseteq 0 .. 7

(***************************************************************************)
(* Bits that are not what the functions called last would have them be.    *)
(***************************************************************************)
Wrong(reg) == SymDiff(bits[reg], asked[reg])

(***************************************************************************)
(* Without a lock a pin can only be wrong if a callback of the tick wrote  *)
(* that very pin between the first read and the write of an access to the  *)
(* same register; all the other pins of the register keep their values,    *)
(* those the main program wrote before and the one it writes included.     *)
(* The directions of port C are left to PinModeSets.                       *)
(***************************************************************************)
OnlyCrossedWritesLost == \A reg \in Register \ {DDR(PortOf(16))} : Wrong(reg) \subseteq crossed[reg]

(***************************************************************************)
(* hal_pinMode gives every pin its direction, "0 - OUTPUT, 1 - INPUT, 2 -  *)
(* INPUT_PULLUP" (hal.c:42).                                               *)
(***************************************************************************)
PinModeSets == \A port \in DOMAIN Limit : Wrong(DDR(port)) \subseteq crossed[DDR(port)]
=============================================================================
