---------------------------- MODULE A64Registers ----------------------------
(***************************************************************************)
(* bits_ops.py and registers.py of the AArch64 core.                       *)
(*                                                                         *)
(* A bit string is the natural it encodes.  An X register has XBits bits,  *)
(* 64 in the code; its halves, its bytes and the slices that MOVZ fills    *)
(* shrink with it.                                                         *)
(*                                                                         *)
(* The core is a record.  Of PSTATE, psr holds the flags, the masks, the   *)
(* exception level, nrw (AArch32) and sp (which stack pointer).  System    *)
(* registers are named by what they are and the level they belong to; a    *)
(* register wider than the model's X holds its fields closer together.     *)
(***************************************************************************)
EXTENDS Integers, Sequences, FiniteSets

CONSTANT XLog   \* an X register has 2^XLog bits: 6 in the code

XBits == 2^XLog
WBits == XBits \div 2
ByteBits == XBits \div 8

Flag(condition) == IF condition THEN 1 ELSE 0
BitAt(x, index) == (x \div 2^index) % 2
LowerChunk(x, size) == x % (2^size)
Substring(x, msb, lsb) == LowerChunk(x, msb + 1) \div 2^lsb
SetSubstring(x, msb, lsb, value) == x + (value - Substring(x, msb, lsb)) * 2^lsb
Chain(higher, lower, size) == higher * 2^size + lower
BitNot(x, size) == 2^size - 1 - x
Align(x, y) == y * (x \div y)
ToUnsigned(x, size) == x % (2^size)
ToSigned(x, size) == IF BitAt(x, size - 1) = 1 THEN x - 2^size ELSE x
SignExtend(x, from, to) == ToUnsigned(ToSigned(x, from), to)

\* The bits of a value, and the value of bits.
OnesOf(x, size) == {index \in 0..(size - 1) : BitAt(x, index) = 1}
FromOnes(bits, size) ==
  LET sum[n \in 0..size] == IF n = 0 THEN 0 ELSE sum[n - 1] + (IF n - 1 \in bits THEN 2^(n - 1) ELSE 0)
  IN  sum[size]
And(x, y, size) == FromOnes(OnesOf(x, size) \cap OnesOf(y, size), size)
Or(x, y, size) == FromOnes(OnesOf(x, size) \cup OnesOf(y, size), size)
Eor(x, y, size) == And(Or(x, y, size), BitNot(And(x, y, size), size), size)

AddWithCarry(x, y, carry, size) ==
  LET sum == ToUnsigned(x + y + carry, size)
  IN  [value |-> sum, carry |-> Flag(sum # x + y + carry),
       overflow |-> Flag(ToSigned(sum, size) # ToSigned(x, size) + ToSigned(y, size) + carry)]

Ones(length) == 2^length - 1

\* Copies of the low bits, side by side.
Replicate(x, from, to) ==
  LET copies[n \in 0..(to \div from)] == IF n = 0 THEN 0 ELSE copies[n - 1] * 2^from + LowerChunk(x, from)
  IN  copies[to \div from]

\* The bits that fall off are dropped before the shift, which TLC's integers need.
Lsl(x, length, shift) == LowerChunk(x, length - shift) * 2^shift
Lsr(x, length, shift) == LowerChunk(x, length) \div 2^shift
Asr(x, length, shift) == ToUnsigned(ToSigned(x, length) \div 2^shift, length)
Ror(x, length, shift) ==
  LET m == shift % length IN LowerChunk(Lsr(x, length, m) + Lsl(x, length, length - m), length)

ShiftRegValue(value, type, amount, length) ==
  CASE amount = 0 -> LowerChunk(value, length)
    [] amount # 0 /\ type = "LSL" -> Lsl(value, length, amount)
    [] amount # 0 /\ type = "LSR" -> Lsr(value, length, amount)
    [] amount # 0 /\ type = "ASR" -> Asr(value, length, amount)
    [] amount # 0 /\ type = "ROR" -> Ror(value, length, amount)

\* Python's bit_length, less one.
HighestSetBit(x, length) ==
  LET highest[n \in 0..length] == IF n = 0 THEN -1 ELSE IF BitAt(x, n - 1) = 1 THEN n - 1 ELSE highest[n - 1]
  IN  highest[length]
CountLeadingZeros(x, length) == length - 1 - HighestSetBit(x, length)
CountLeadingSignBits(x, length) ==
  CountLeadingZeros(Eor(Substring(x, length - 1, 1), LowerChunk(x, length - 1), length - 1), length - 1)

ReverseBits(x, length) ==
  LET reversed[n \in 0..length] == IF n = 0 THEN 0 ELSE 2 * reversed[n - 1] + BitAt(x, n - 1)
  IN  reversed[length]

\* Count bytes in the other order.
BigEndianReverse(x, count) ==
  LET reversed[n \in 0..count] ==
        IF n = 0 THEN 0
        ELSE reversed[n - 1] * 2^ByteBits + Substring(x, n * ByteBits - 1, (n - 1) * ByteBits)
  IN  reversed[count]

\* The run of ones of an immediate, rotated and repeated; and the mask of a field's
\* top.  The size of the element is where the highest one of N and NOT(imms) is.
Reserved == [wmask |-> -1, tmask |-> -1]
MasksOf(m, length, s, r) ==
  LET esize == 2^length
      d == LowerChunk(s - r, length)
  IN  [wmask |-> Replicate(Ror(LowerChunk(Ones(s + 1), esize), esize, r), esize, m),
       tmask |-> Replicate(LowerChunk(Ones(d + 1), esize), esize, m)]
DecodeBitMasks(m, immN, imms, immr, immediate) ==
  LET length == HighestSetBit(Chain(immN, BitNot(imms, XLog), XLog), XLog + 1)
  IN  IF length < 1 \/ m < 2^length \/ (immediate /\ LowerChunk(imms, length) = Ones(length))
      THEN Reserved
      ELSE MasksOf(m, length, LowerChunk(imms, length), LowerChunk(immr, length))

\* An extend names the bytes of the register it keeps: one, two, four or eight.
ExtendBytes == [B |-> 1, H |-> 2, W |-> 4, X |-> 8]
LesserOf(a, b) == IF a < b THEN a ELSE b
DecodeRegExtend(value, type, unsigned, shift, length) ==
  LET from == LesserOf(ExtendBytes[type] * ByteBits, length - shift)
      low == LowerChunk(value, from)
  IN  LowerChunk((IF unsigned THEN low ELSE SignExtend(low, from, length)) * 2^shift, length)

-----------------------------------------------------------------------------
CONSTANT Xs   \* BOUND: the general registers that are there, of X0 to X30

EL == 0..3
ZR == 31
LR == 30

Psr(el, sp) ==
  [n |-> 0, z |-> 0, c |-> 0, v |-> 0, d |-> 1, a |-> 1, i |-> 1, f |-> 1, il |-> 0,
   el |-> el, nrw |-> 0, sp |-> sp]

-----------------------------------------------------------------------------
(* General registers *)

GetX(s, n, length) == IF n = ZR THEN 0 ELSE LowerChunk(s.x[n], length)
\* The upper half of what a narrow write leaves is zero.
SetX(s, n, value, length) == IF n = ZR THEN s ELSE [s EXCEPT !.x[n] = LowerChunk(value, length)]

SelectedSpEl(s) == IF s.psr.sp = 0 THEN 0 ELSE s.psr.el
GetSp(s, length) == LowerChunk(s.sp[SelectedSpEl(s)], length)
SetSp(s, value, length) == [s EXCEPT !.sp[SelectedSpEl(s)] = LowerChunk(value, length)]

GetRegOrSp(s, n, length) == IF n = ZR THEN GetSp(s, length) ELSE GetX(s, n, length)
SetRegOrSp(s, n, value, length) == IF n = ZR THEN SetSp(s, value, length) ELSE SetX(s, n, value, length)

BranchTo(s, address) == [s EXCEPT !.pc = LowerChunk(address, XBits), !.branched = TRUE]
IncrementPc(s, bytes) == [s EXCEPT !.pc = LowerChunk(@ + bytes, XBits)]

Holds(higher, p) ==
  CASE higher = 0 -> p.z = 1
    [] higher = 1 -> p.c = 1
    [] higher = 2 -> p.n = 1
    [] higher = 3 -> p.v = 1
    [] higher = 4 -> p.c = 1 /\ p.z = 0
    [] higher = 5 -> p.n = p.v
    [] higher = 6 -> p.n = p.v /\ p.z = 0
    [] higher = 7 -> TRUE
\* The lowest bit inverts, except in "always".
ConditionHolds(s, cond) == Holds(cond \div 2, s.psr) # (cond % 2 = 1 /\ cond # 15)

SetFlags(s, result, carry, overflow, length) ==
  [s EXCEPT !.psr.n = BitAt(result, length - 1), !.psr.z = Flag(LowerChunk(result, length) = 0),
            !.psr.c = carry, !.psr.v = overflow]
Nzcv(p) == p.n * 8 + p.z * 4 + p.c * 2 + p.v
SetNzcv(s, value) ==
  [s EXCEPT !.psr.n = BitAt(value, 3), !.psr.z = BitAt(value, 2), !.psr.c = BitAt(value, 1), !.psr.v = BitAt(value, 0)]
Daif(p) == p.d * 8 + p.a * 4 + p.i * 2 + p.f
SetDaif(s, value) ==
  [s EXCEPT !.psr.d = BitAt(value, 3), !.psr.a = BitAt(value, 2), !.psr.i = BitAt(value, 1), !.psr.f = BitAt(value, 0)]

-----------------------------------------------------------------------------
(* The saved PSTATE: NZCV 15:12 (31:28 in the code), IL 11 (20), and where the code  *)
(* has them DAIF 9:6, nRW 4, EL 3:2, SP 0                                            *)

ToSpsr(p) ==
  Nzcv(p) * 2^12 + p.il * 2^11 + Daif(p) * 2^6 + p.nrw * 2^4 + p.el * 2^2 + p.sp
FromSpsr(s, value) ==
  LET t == SetDaif(SetNzcv(s, Substring(value, 15, 12)), Substring(value, 9, 6))
  IN  [t EXCEPT !.psr.il = BitAt(value, 11), !.psr.nrw = BitAt(value, 4),
                !.psr.el = Substring(value, 3, 2), !.psr.sp = BitAt(value, 0)]

-----------------------------------------------------------------------------
(* System registers *)

Sys(s, name, level) == s.sys[<<name, level>>]
HasSys(s, name, level) == <<name, level>> \in DOMAIN s.sys

\* Some are other names of live state.
GetSystemRegister(s, name, level) ==
  CASE name = "nzcv" -> Nzcv(s.psr) * 2^12
    [] name = "daif" -> Daif(s.psr) * 2^6
    [] name = "currentel" -> s.psr.el * 4
    [] name = "sp" -> s.sp[level]
    [] OTHER -> Sys(s, name, level)
SetSystemRegister(s, name, level, value) ==
  CASE name = "nzcv" -> SetNzcv(s, Substring(value, 15, 12))
    [] name = "daif" -> SetDaif(s, Substring(value, 9, 6))
    [] name = "currentel" -> s
    [] name = "sp" -> [s EXCEPT !.sp[level] = value]
    [] OTHER -> [s EXCEPT !.sys[<<name, level>>] = value]

\* EL0 has no translation regime of its own.
Regime(s) == IF s.psr.el = 0 THEN 1 ELSE s.psr.el
RegimeRegister(s, name, regime) == IF HasSys(s, name, regime) THEN Sys(s, name, regime) ELSE 0

HcrEl2(s) == Sys(s, "hcr", 2)
ScrEl3(s) == Sys(s, "scr", 3)
Stage2Enabled(s) == BitAt(HcrEl2(s), 0) = 1 /\ s.psr.el \in {0, 1}
Secure(s) == s.psr.el = 3 \/ BitAt(ScrEl3(s), 0) = 0
MmuEnabled(s) == BitAt(RegimeRegister(s, "sctlr", Regime(s)), 0) = 1
StackAlignmentCheck(s) == BitAt(RegimeRegister(s, "sctlr", Regime(s)), 3) = 1
AlignmentCheck(s) == BitAt(RegimeRegister(s, "sctlr", Regime(s)), 1) = 1
=============================================================================
