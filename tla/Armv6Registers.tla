--------------------------- MODULE Armv6Registers ---------------------------
(***************************************************************************)
(* The arithmetic of bits_ops.py and shift.py, which every ARMv6 opcode is *)
(* built from, and the register file of registers.py: general registers    *)
(* banked by mode, CPSR and the SPSRs, the IT state machine, writes to the *)
(* status registers by instructions, and exception entry.                  *)
(*                                                                         *)
(* A bit string is the natural number it encodes, as in the code; its      *)
(* length is a parameter.  A word is four bytes of ByteBits bits each: 8   *)
(* in the code, fewer in an instance that enumerates operands.             *)
(*                                                                         *)
(* The processor is one record s.  A status register, also one held by a   *)
(* general register or by memory, is the record of its fields.  J is left  *)
(* out: it is always 0 without Jazelle and ThumbEE.                        *)
(***************************************************************************)
EXTENDS Integers, Sequences, FiniteSets, FiniteSetsExt

CONSTANT ByteBits   \* bits of a byte

ASSUME ByteAssumption == ByteBits \in Nat \ {0}

HalfBits == 2 * ByteBits
WordBits == 4 * ByteBits
Word == 0..(2^WordBits - 1)
Lanes == 0..3      \* the bytes of a word, and the GE flags

Choose(condition, yes, no) == IF condition THEN yes ELSE no
Flag(condition) == IF condition THEN 1 ELSE 0

-----------------------------------------------------------------------------
(* bits_ops.py *)

ToUnsigned(x, size) == x % 2^size
ToSigned(x, size) == IF x >= 2^(size - 1) THEN x - 2^size ELSE x
SignExtend(x, from, to) == ToUnsigned(ToSigned(x, from), to)
LowerChunk(x, size) == x % 2^size
Substring(x, msb, lsb) == LowerChunk(x, msb + 1) \div 2^lsb
BitAt(x, index) == (x \div 2^index) % 2
Chain(higher, lower, size) == higher * 2^size + lower
BitNot(x, size) == 2^size - 1 - x
Align(x, y) == y * (x \div y)

\* The bits of a field are cleared and the value is or-ed in: it may be wider
\* than the field only when the bits above it are clear.
SetSubstring(x, msb, lsb, value) ==
  x - Substring(x, msb, lsb) * 2^lsb + value * 2^lsb

\* Python's & | ^ on words: the sets of bits that are one.
Ones(x) == {index \in 0..(WordBits - 1) : BitAt(x, index) = 1}
FromOnes(bits) ==
  LET sum[n \in 0..WordBits] == IF n = 0 THEN 0 ELSE sum[n - 1] + (IF n - 1 \in bits THEN 2^(n - 1) ELSE 0)
  IN  sum[WordBits]
And(x, y) == FromOnes(Ones(x) \cap Ones(y))
Or(x, y) == FromOnes(Ones(x) \cup Ones(y))
Eor(x, y) == FromOnes((Ones(x) \ Ones(y)) \cup (Ones(y) \ Ones(x)))
Not(x) == BitNot(x, WordBits)

Add(x, y) == ToUnsigned(x + y, WordBits)
Sub(x, y) == ToUnsigned(x - y, WordBits)

\* The sum with the flags it sets: carry out of the unsigned sum, overflow of the
\* signed one.
AddWithCarry(x, y, carry) ==
  LET sum == ToUnsigned(x + y + carry, WordBits)
      signed == ToSigned(x, WordBits) + ToSigned(y, WordBits) + carry
  IN  [value |-> sum, carry |-> Flag(sum # x + y + carry),
       overflow |-> Flag(ToSigned(sum, WordBits) # signed)]

\* The nearest value that size bits can hold, and whether it is another one.
SignedSatQ(x, size) ==
  LET most == 2^(size - 1) - 1
      least == -(2^(size - 1))
  IN  [value |-> ToUnsigned(CASE x > most -> most [] x < least -> least [] OTHER -> x, size),
       saturated |-> x > most \/ x < least]

UnsignedSatQ(x, size) ==
  LET most == 2^size - 1
  IN  [value |-> CASE x > most -> most [] x < 0 -> 0 [] OTHER -> x,
       saturated |-> x > most \/ x < 0]

SignedSat(x, size) == SignedSatQ(x, size).value
UnsignedSat(x, size) == UnsignedSatQ(x, size).value

\* Python's bit_length.
BitLength(x) == IF x = 0 THEN 0 ELSE 1 + Max(Ones(x))

\* lowest_set_bit_ref.
LowestSetBit(x, size) ==
  IF x = 0 THEN size ELSE Max({index \in 0..(size - 1) : x % 2^index = 0})

ByteOf(x, lane) == Substring(x, (lane + 1) * ByteBits - 1, lane * ByteBits)
HalfOf(x, lane) == Substring(x, (lane + 1) * HalfBits - 1, lane * HalfBits)

\* The number whose lanes of that many bits are the values of r, from 0 on.
FromLanes(r, bits) ==
  LET sum[n \in 0..Cardinality(DOMAIN r)] == IF n = 0 THEN 0 ELSE sum[n - 1] + r[n - 1] * 2^((n - 1) * bits)
  IN  sum[Cardinality(DOMAIN r)]
FromHalves(top, bottom) == Chain(top, bottom, HalfBits)

\* big_endian_reverse: count bytes in the other order.
BigEndianReverse(x, count) == FromLanes([lane \in 0..(count - 1) |-> ByteOf(x, count - 1 - lane)], ByteBits)

-----------------------------------------------------------------------------
(* shift.py: a shifted value and the bit it shifts out last *)

Shifted(value, carry) == [value |-> value, carry |-> carry]

LslC(x, size, n) == Shifted(LowerChunk(x * 2^n, size), BitAt(x * 2^n, size))
LsrC(x, size, n) == Shifted(Substring(x, n + size - 1, n), BitAt(x, n - 1))

AsrC(x, size, n) ==
  LET extended == SignExtend(x, size, n + size)
  IN  Shifted(Substring(extended, n + size - 1, n), BitAt(extended, n - 1))

RorC(x, size, n) ==
  LET m == n % size
      result == Chain(LowerChunk(x, m), x \div 2^m, size - m)
  IN  Shifted(result, BitAt(result, size - 1))

RrxC(x, size, carry) == Shifted(Chain(carry, Substring(x, size - 1, 1), size - 1), BitAt(x, 0))

SRType == {"LSL", "LSR", "ASR", "ROR", "RRX"}

\* An amount of nothing leaves the carry flag alone.
ShiftC(x, size, type, n, carry) ==
  IF n = 0 THEN Shifted(x, carry)
  ELSE CASE type = "LSL" -> LslC(x, size, n)
         [] type = "LSR" -> LsrC(x, size, n)
         [] type = "ASR" -> AsrC(x, size, n)
         [] type = "ROR" -> RorC(x, size, n)
         [] type = "RRX" -> RrxC(x, size, carry)

Shift(x, size, type, n, carry) == ShiftC(x, size, type, n, carry).value

\* decode_imm_shift: the amounts an immediate field of zero stands for.
DecodeImmShift(type, imm) ==
  CASE type = "ROR" /\ imm = 0 -> <<"RRX", 1>>
    [] type \in {"LSR", "ASR"} /\ imm = 0 -> <<type, WordBits>>
    [] OTHER -> <<type, imm>>

-----------------------------------------------------------------------------
CONSTANTS
  HaveSecurityExt, HaveVirtExt,   \* arm_configurations.json
  HighVectors                     \* 0xffff0000

ASSUME ConfigurationAssumption ==
  HaveSecurityExt \in BOOLEAN /\ HaveVirtExt \in BOOLEAN /\ HighVectors \in Word

Banked == {"fiq", "irq", "svc", "mon", "abt", "hyp", "und"}
Mode == {"usr", "sys"} \cup Banked
Reserved == "reserved"     \* a mode field with no mode

Bit == {0, 1}
PSR == [n : Bit, z : Bit, c : Bit, v : Bit, q : Bit, ge : SUBSET Lanes, it : 0..255,
        e : Bit, a : Bit, i : Bit, f : Bit, t : Bit, m : Mode \cup {Reserved}]

\* The word 0 as a status register.
ZeroPsr == [n |-> 0, z |-> 0, c |-> 0, v |-> 0, q |-> 0, ge |-> {}, it |-> 0,
            e |-> 0, a |-> 0, i |-> 0, f |-> 0, t |-> 0, m |-> Reserved]

\* RName: the register numbers each bank has.
RName ==
  {<<n, "usr">> : n \in 0..14} \cup {<<n, "fiq">> : n \in 8..14} \cup {<<13, "hyp">>}
    \cup {<<n, bank>> : n \in {13, 14}, bank \in {"irq", "svc", "mon", "abt", "und"}}

-----------------------------------------------------------------------------
IsSecure(s) == ~HaveSecurityExt \/ s.scr.ns = 0 \/ s.psr.m = "mon"

BadMode(mode) ==
  \/ mode \notin Mode
  \/ mode = "mon" /\ ~HaveSecurityExt
  \/ mode = "hyp" /\ ~HaveVirtExt

\* MUTANT: user mode passes for a privileged one.
CurrentModeIsNotUser_Always(s) == TRUE

CurrentModeIsNotUser(s) == s.psr.m # "usr"
CurrentModeIsUserOrSystem(s) == s.psr.m \in {"usr", "sys"}

\* r_bank_select with the tables of look_up_rname: which copy of register n a mode has.
RBankSelect(n, mode) ==
  IF BadMode(mode) \/ mode = "sys" \/ n < 8 THEN "usr"
  ELSE CASE n \in 8..12 -> IF mode = "fiq" THEN mode ELSE "usr"
         [] n = 13 -> mode
         [] n = 14 -> IF mode = "hyp" THEN "usr" ELSE mode

LookUpRName(n, mode) == <<n, RBankSelect(n, mode)>>

GetRmode(s, n, mode) == s.R[LookUpRName(n, mode)]
SetRmode(s, n, mode, value) == [s EXCEPT !.R[LookUpRName(n, mode)] = value]

\* R15 reads two instructions ahead.
GetPc(s) == Add(s.pc, IF s.psr.t = 1 THEN 4 ELSE 8)
Get(s, n) == IF n = 15 THEN GetPc(s) ELSE GetRmode(s, n, s.psr.m)
Set(s, n, value) == SetRmode(s, n, s.psr.m, value)

\* branch_to: PC has been written, so that the cycle does not advance it.
BranchTo(s, address) == [s EXCEPT !.pc = address, !.branched = TRUE]

GetSpsr(s) == IF s.psr.m \in Banked /\ ~BadMode(s.psr.m) THEN s.spsr[s.psr.m] ELSE ZeroPsr
SetSpsr(s, value) ==
  IF s.psr.m \in Banked /\ ~BadMode(s.psr.m) THEN [s EXCEPT !.spsr[s.psr.m] = value] ELSE s

-----------------------------------------------------------------------------
(* The IT state: the condition of the next instruction and those after it *)

InItBlock(s) == LowerChunk(s.psr.it, 4) # 0

ItAdvance(s) ==
  [s EXCEPT !.psr.it = IF LowerChunk(@, 3) = 0 THEN 0
                       ELSE SetSubstring(@, 4, 0, 2 * LowerChunk(@, 4))]

-----------------------------------------------------------------------------
(* Writes to the status registers; bytes is the set of bytes to be written *)

\* The modes a write to CPSR.M may select: not from the non-secure world into
\* Monitor, nor in or out of Hyp other than by an exception or its return.
MayEnter(s, mode, return) ==
  /\ ~BadMode(mode)
  /\ ~IsSecure(s) => mode # "mon" /\ ~(mode = "fiq" /\ s.nsacr_rfr)
  /\ mode = "hyp" => s.scr.ns = 1 /\ (IsSecure(s) \/ s.psr.m = "hyp")
  /\ s.psr.m = "hyp" => mode = "hyp" \/ return

CpsrWriteByInstr(s, value, bytes, return) ==
  LET privileged == CurrentModeIsNotUser(s)
      may(allow) == privileged /\ (IsSecure(s) \/ allow = 1 \/ HaveVirtExt)
      itLow  == IF 3 \in bytes /\ return THEN value.it % 4 ELSE s.psr.it % 4
      itHigh == IF 1 \in bytes /\ return THEN value.it \div 4 ELSE s.psr.it \div 4
      When(condition, field) == IF condition THEN value[field] ELSE s.psr[field]
  IN  [s EXCEPT !.psr =
        [n |-> When(3 \in bytes, "n"), z |-> When(3 \in bytes, "z"), c |-> When(3 \in bytes, "c"),
         v |-> When(3 \in bytes, "v"), q |-> When(3 \in bytes, "q"),
         ge |-> When(2 \in bytes, "ge"),
         it |-> Chain(itHigh, itLow, 2),
         e |-> When(1 \in bytes, "e"),
         a |-> When(1 \in bytes /\ may(s.scr.aw), "a"),
         i |-> When(0 \in bytes /\ privileged, "i"),
         f |-> When(0 \in bytes /\ may(s.scr.fw) /\ (s.sctlr.nmfi = 0 \/ value.f = 0), "f"),
         t |-> When(0 \in bytes /\ return, "t"),
         m |-> When(0 \in bytes /\ privileged /\ MayEnter(s, value.m, return), "m")]]

\* The whole second byte of an SPSR is written: IT, E and A.
SpsrWriteByInstr(s, value, bytes) ==
  LET spsr == GetSpsr(s)
      When(byte, field) == IF byte \in bytes THEN value[field] ELSE spsr[field]
  IN  SetSpsr(s,
        [n |-> When(3, "n"), z |-> When(3, "z"), c |-> When(3, "c"), v |-> When(3, "v"),
         q |-> When(3, "q"), ge |-> When(2, "ge"),
         it |-> IF 1 \in bytes THEN Chain(value.it \div 4, spsr.it % 4, 2) ELSE spsr.it,
         e |-> When(1, "e"), a |-> When(1, "a"),
         i |-> When(0, "i"), f |-> When(0, "f"), t |-> When(0, "t"),
         m |-> IF 0 \in bytes /\ ~BadMode(value.m) THEN value.m ELSE spsr.m])

-----------------------------------------------------------------------------
(* Exception entry *)

ExcVectorBase(s) ==
  IF s.sctlr.v = 1 THEN HighVectors ELSE IF HaveSecurityExt THEN s.vbar ELSE 0

\* CPSR as every handler starts with it.
HandlerPsr(s, mode, te, ee) ==
  [s.psr EXCEPT !.m = mode, !.it = 0, !.t = te, !.e = ee]

EnterHypMode(s, spsr, return, offset) ==
  LET unmasked(route, mask) == IF route = 0 THEN 1 ELSE mask
      p == HandlerPsr(s, "hyp", s.hsctlr.te, s.hsctlr.ee)
  IN  BranchTo([s EXCEPT !.psr = [p EXCEPT !.a = unmasked(s.scr.ea, @),
                                           !.f = unmasked(s.scr.fiq, @),
                                           !.i = unmasked(s.scr.irq, @)],
                         !.spsr["hyp"] = spsr,
                         !.elr_hyp = return],
               s.hvbar + offset)

EnterMonitorMode(s, spsr, lr, offset) ==
  LET p == HandlerPsr(s, "mon", s.sctlr.te, s.sctlr.ee)
  IN  BranchTo([s EXCEPT !.psr = [p EXCEPT !.a = 1, !.f = 1, !.i = 1],
                         !.spsr["mon"] = spsr,
                         !.R[<<14, "mon">>] = lr],
               s.mvbar + offset)

\* An exception out of Monitor mode is taken in the secure world.
LeaveMonitor(s) == IF s.psr.m = "mon" THEN [s EXCEPT !.scr.ns = 0] ELSE s

\* The rest of an entry to one of the classic modes; masks: the set of A and F that
\* are masked besides I.
EnterMode(s, mode, spsr, lr, masks, target) ==
  LET p == HandlerPsr(s, mode, s.sctlr.te, s.sctlr.ee)
  IN  BranchTo([s EXCEPT !.psr = [p EXCEPT !.i = 1,
                                           !.a = IF "a" \in masks THEN 1 ELSE @,
                                           !.f = IF "f" \in masks THEN 1 ELSE @],
                         !.spsr[mode] = spsr,
                         !.R[<<14, mode>>] = lr],
               target)

Vector(s, offset) == Add(ExcVectorBase(s), offset)

\* Whether an abort or interrupt may mask a bit that the secure world guards.
MayMask(s, allow) == ~HaveSecurityExt \/ HaveVirtExt \/ s.scr.ns = 0 \/ allow = 1

TakenToHyp(s) == HaveVirtExt /\ HaveSecurityExt /\ s.scr.ns = 1 /\ s.psr.m = "hyp"
TrappedToHyp(s) ==
  HaveVirtExt /\ HaveSecurityExt /\ ~IsSecure(s) /\ s.hcr.tge = 1 /\ s.psr.m = "usr"

TakeHypTrapException(s) ==
  EnterHypMode(s, s.psr, GetPc(s) - Choose(s.psr.t = 1, 4, 8), 20)

TakeSmcException(before) ==
  LET s == ItAdvance(before)
      lr == IF s.psr.t = 1 THEN GetPc(s) ELSE GetPc(s) - 4
  IN  EnterMonitorMode(LeaveMonitor(s), s.psr, lr, 8)

\* Aborts are precise and come from the core: the external and asynchronous ones
\* are stubs.
TakeDataAbortException(s, stage2, alignment) ==
  LET lr == IF s.psr.t = 1 THEN Add(GetPc(s), 4) ELSE GetPc(s)
      left == LeaveMonitor(s)
      routed == HaveVirtExt /\ HaveSecurityExt /\ ~IsSecure(s) /\ (stage2 \/ (TrappedToHyp(s) /\ alignment))
  IN  IF TakenToHyp(s) THEN EnterHypMode(s, s.psr, Sub(lr, 8), 16)
      ELSE IF routed THEN EnterHypMode(s, s.psr, Sub(lr, 8), 20)
      ELSE EnterMode(left, "abt", s.psr, lr,
                     IF MayMask(left, left.scr.aw) THEN {"a"} ELSE {}, Vector(s, 16))

TakeUndefInstrException(s) ==
  LET lr == Sub(GetPc(s), Choose(s.psr.t = 1, 2, 4))
      return == Sub(lr, Choose(s.psr.t = 1, 2, 4))
  IN  IF TakenToHyp(s) THEN EnterHypMode(s, s.psr, return, 4)
      ELSE IF TrappedToHyp(s) THEN EnterHypMode(s, s.psr, return, 20)
      ELSE EnterMode(LeaveMonitor(s), "und", s.psr, lr, {}, Vector(s, 4))

TakeSvcException(before) ==
  LET s == ItAdvance(before)
      lr == Sub(GetPc(s), Choose(s.psr.t = 1, 2, 4))
  IN  IF TakenToHyp(s) THEN EnterHypMode(s, s.psr, lr, 8)
      ELSE IF TrappedToHyp(s) THEN EnterHypMode(s, s.psr, lr, 20)
      ELSE EnterMode(LeaveMonitor(s), "svc", s.psr, lr, {}, Vector(s, 8))

\* An interrupt comes between two instructions: LR is four past the next one.
InterruptLink(s) == IF s.psr.t = 1 THEN GetPc(s) ELSE Sub(GetPc(s), 4)

TakePhysicalIrqException(s, impdef_irq_vector) ==
  LET lr == InterruptLink(s)
      left == LeaveMonitor(s)
  IN  IF HaveSecurityExt /\ s.scr.irq = 1 THEN EnterMonitorMode(left, s.psr, lr, 24)
      ELSE IF \/ HaveVirtExt /\ HaveSecurityExt /\ s.hcr.imo = 1 /\ ~IsSecure(s)
              \/ s.psr.m = "hyp"
      THEN EnterHypMode(s, s.psr, Sub(lr, 4), 24)
      ELSE EnterMode(left, "irq", s.psr, lr,
                     IF MayMask(left, left.scr.aw) THEN {"a"} ELSE {},
                     Choose(s.sctlr.ve = 1, impdef_irq_vector, Vector(s, 24)))

TakePhysicalFiqException(s, impdef_fiq_vector) ==
  LET lr == InterruptLink(s)
      left == LeaveMonitor(s)
  IN  IF HaveSecurityExt /\ s.scr.fiq = 1 THEN EnterMonitorMode(left, s.psr, lr, 28)
      ELSE IF \/ HaveVirtExt /\ HaveSecurityExt /\ s.hcr.fmo = 1 /\ ~IsSecure(s)
              \/ s.psr.m = "hyp"
      THEN EnterHypMode(s, s.psr, Sub(lr, 4), 28)
      ELSE EnterMode(left, "fiq", s.psr, lr,
                     (IF MayMask(left, left.scr.fw) THEN {"f"} ELSE {})
                       \cup (IF MayMask(left, left.scr.aw) THEN {"a"} ELSE {}),
                     Choose(s.sctlr.ve = 1, impdef_fiq_vector, Vector(s, 28)))
=============================================================================
