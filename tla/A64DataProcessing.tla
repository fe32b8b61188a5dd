-------------------------- MODULE A64DataProcessing --------------------------
(***************************************************************************)
(* The A64 instructions that compute: how each group is decoded, from the  *)
(* fields of the encoding i to the opcode that executes, and what the      *)
(* opcode does to the core s.  Decoding may find a reserved encoding.      *)
(***************************************************************************)
EXTENDS A64Registers

DataSize(i) == IF i.sf = 1 THEN XBits ELSE WBits
Undefined == [op |-> "undefined"]
\* Bit 5 of a six-bit immediate, in the form for 32 bits.
TooWide(i, imm) == i.sf = 0 /\ BitAt(imm, XLog - 1) = 1
If(allowed, opcode) == IF allowed THEN opcode ELSE Undefined

ShiftType == <<"LSL", "LSR", "ASR", "ROR">>
Extends == <<"B", "H", "W", "X">>
Logical == <<"AND", "ORR", "EOR", "AND">>

-----------------------------------------------------------------------------
(* Decoding: data processing, immediate *)

\* A page is as long as ADD's immediate is wide; an offset has a third of a register.
AdrPageBits == ByteBits
AdrBits == XBits \div 3
PcRelAddressing(i) ==
  [op |-> "adr", page |-> i.page, d |-> i.d,
   imm |-> IF i.page = 1 THEN SignExtend(i.imm * 2^AdrPageBits, AdrBits + AdrPageBits, XBits)
           ELSE SignExtend(i.imm, AdrBits, XBits)]

\* The immediate as it is or moved up by its own width, which is a quarter of a word.
AddSubImmediate(i) ==
  If(i.shift \in {0, 1},
     [op |-> "addsub", form |-> "imm", d |-> i.d, n |-> i.n, setflags |-> i.setflags, sub |-> i.sub, size |-> DataSize(i),
      imm |-> IF i.shift = 0 THEN i.imm ELSE i.imm * 2^ByteBits])

LogicalImmediate(i) ==
  LET masks == DecodeBitMasks(DataSize(i), i.N, i.imms, i.immr, TRUE)
  IN  If(~(i.sf = 0 /\ i.N = 1) /\ masks # Reserved,
         [op |-> "logical", form |-> "imm", d |-> i.d, n |-> i.n, imm |-> masks.wmask, size |-> DataSize(i),
          setflags |-> Flag(i.opc = 3), function |-> Logical[i.opc + 1]])

MoveWideImmediate(i) ==
  If(i.opc # 1 /\ (i.sf = 0 => i.hw < 2),
     [op |-> "movewide", d |-> i.d, imm |-> i.imm, pos |-> i.hw * (XBits \div 4), size |-> DataSize(i),
      keep |-> i.opc = 3, not |-> i.opc = 0])

\* MUTANT: BFM starts from zero, as SBFM and UBFM do.
Bitfield_AlwaysInZero(i) ==
  LET masks == DecodeBitMasks(DataSize(i), i.N, i.imms, i.immr, FALSE)
  IN  If(i.opc # 3 /\ i.N = i.sf /\ ~TooWide(i, i.immr) /\ ~TooWide(i, i.imms),
         [op |-> "bitfield", d |-> i.d, n |-> i.n, wmask |-> masks.wmask, tmask |-> masks.tmask, imms |-> i.imms,
          immr |-> i.immr, extend |-> i.opc = 0, inzero |-> TRUE, size |-> DataSize(i)])

Bitfield(i) ==
  LET masks == DecodeBitMasks(DataSize(i), i.N, i.imms, i.immr, FALSE)
  IN  If(i.opc # 3 /\ i.N = i.sf /\ ~TooWide(i, i.immr) /\ ~TooWide(i, i.imms),
         [op |-> "bitfield", d |-> i.d, n |-> i.n, wmask |-> masks.wmask, tmask |-> masks.tmask, imms |-> i.imms,
          immr |-> i.immr, extend |-> i.opc = 0, inzero |-> i.opc # 1, size |-> DataSize(i)])

Extract(i) ==
  If(i.N = i.sf /\ ~TooWide(i, i.imms),
     [op |-> "extract", d |-> i.d, n |-> i.n, m |-> i.m, lsb |-> i.imms, size |-> DataSize(i)])

-----------------------------------------------------------------------------
(* Decoding: data processing, register *)

LogicalShiftedRegister(i) ==
  If(~TooWide(i, i.imm6),
     [op |-> "logical", form |-> "shifted", d |-> i.d, n |-> i.n, m |-> i.m, function |-> Logical[i.opc + 1],
      type |-> ShiftType[i.shift + 1], amount |-> i.imm6, invert |-> i.N, setflags |-> Flag(i.opc = 3),
      size |-> DataSize(i)])

AddSubShiftedRegister(i) ==
  If(i.shift # 3 /\ ~TooWide(i, i.imm6),
     [op |-> "addsub", form |-> "shifted", d |-> i.d, n |-> i.n, m |-> i.m, type |-> ShiftType[i.shift + 1],
      amount |-> i.imm6, setflags |-> i.setflags, sub |-> i.sub, size |-> DataSize(i)])

AddSubExtendedRegister(i) ==
  If(i.imm3 <= 4,
     [op |-> "addsub", form |-> "extended", d |-> i.d, n |-> i.n, m |-> i.m, type |-> Extends[(i.option % 4) + 1],
      unsigned |-> i.option < 4, shift |-> i.imm3, setflags |-> i.setflags, sub |-> i.sub, size |-> DataSize(i)])

AddSubWithCarry(i) ==
  [op |-> "adcsbc", d |-> i.d, n |-> i.n, m |-> i.m, setflags |-> i.setflags, sub |-> i.sub, size |-> DataSize(i)]

ConditionalSelect(i) ==
  If(i.op2 < 2,
     [op |-> "csel", d |-> i.d, n |-> i.n, m |-> i.m, cond |-> i.cond, invert |-> i.o = 1, increment |-> i.op2 = 1,
      size |-> DataSize(i)])

ConditionalCompare(i) ==
  [op |-> "ccmp", n |-> i.n, immediate |-> i.immediate, operand |-> i.operand, cond |-> i.cond, flags |-> i.nzcv,
   sub |-> i.sub, size |-> DataSize(i)]

\* REV of 32 bits has the code of REV32.
DataProcessing1Source(i) ==
  If(i.opcode \in 0..5 /\ ~(i.sf = 0 /\ i.opcode = 3),
     [op |-> "source1", d |-> i.d, n |-> i.n, size |-> DataSize(i),
      function |-> IF i.sf = 0 /\ i.opcode = 2 THEN "rev" ELSE <<"rbit", "rev16", "rev32", "rev", "clz", "cls">>[i.opcode + 1]])

TwoSource == [opcode \in {2, 3, 8, 9, 10, 11} |->
               CASE opcode = 2 -> "udiv" [] opcode = 3 -> "sdiv" [] opcode = 8 -> "LSL"
                 [] opcode = 9 -> "LSR" [] opcode = 10 -> "ASR" [] opcode = 11 -> "ROR"]
DataProcessing2Source(i) ==
  If(i.opcode \in DOMAIN TwoSource,
     [op |-> "source2", d |-> i.d, n |-> i.n, m |-> i.m, function |-> TwoSource[i.opcode], size |-> DataSize(i)])

\* op31 and o0: the kind of multiplication, and whether the product is subtracted.
ThreeSource == {<<0, 0>>, <<0, 1>>, <<1, 0>>, <<1, 1>>, <<2, 0>>, <<5, 0>>, <<5, 1>>, <<6, 0>>}
Multiply == <<"mul", "smull", "smulh", "none", "none", "umull", "umulh">>
DataProcessing3Source(i) ==
  If(<<i.op31, i.o0>> \in ThreeSource /\ (i.sf = 1 \/ i.op31 = 0),
     [op |-> "source3", d |-> i.d, n |-> i.n, m |-> i.m, a |-> i.a, function |-> Multiply[i.op31 + 1],
      sub |-> i.o0 = 1, size |-> DataSize(i)])

-----------------------------------------------------------------------------
(* Which group an encoding is of *)

DecodeImmediate(i) ==
  CASE i.op0 \in {0, 1} -> PcRelAddressing(i)
    [] i.op0 = 2 -> AddSubImmediate(i)
    [] i.op0 = 3 -> Undefined
    [] i.op0 = 4 -> LogicalImmediate(i)
    [] i.op0 = 5 -> MoveWideImmediate(i)
    [] i.op0 = 6 -> Bitfield(i)
    [] i.op0 = 7 -> Extract(i)

\* The class (op2 in the code) has four bits; bit 28 separates two halves, bit 30 the forms of one and two sources.
DecodeRegister(i) ==
  CASE i.bit28 = 0 /\ i.class < 8 -> LogicalShiftedRegister(i)
    [] i.bit28 = 0 /\ i.class >= 8 /\ i.class % 2 = 1 -> AddSubExtendedRegister(i)
    [] i.bit28 = 0 /\ i.class >= 8 /\ i.class % 2 = 0 -> AddSubShiftedRegister(i)
    [] i.bit28 = 1 /\ i.class = 0 -> AddSubWithCarry(i)
    [] i.bit28 = 1 /\ i.class = 2 -> ConditionalCompare(i)
    [] i.bit28 = 1 /\ i.class = 4 -> ConditionalSelect(i)
    [] i.bit28 = 1 /\ i.class = 6 -> IF i.bit30 = 1 THEN DataProcessing1Source(i) ELSE DataProcessing2Source(i)
    [] i.bit28 = 1 /\ i.class >= 8 -> DataProcessing3Source(i)
    [] OTHER -> Undefined
DecodeDataProcessing(i) == IF i.half = "immediate" THEN DecodeImmediate(i) ELSE DecodeRegister(i)

-----------------------------------------------------------------------------
(* Executing *)

Adr(s, i) ==
  SetX(s, i.d, (IF i.page = 1 THEN Align(s.pc, 2^AdrPageBits) ELSE s.pc) + i.imm, XBits)

\* With the flags register 31 is zero, without them it is SP; shifted, it is zero.
AddSubOperand2(s, i) ==
  CASE i.form = "imm" -> i.imm
    [] i.form = "shifted" -> ShiftRegValue(GetX(s, i.m, i.size), i.type, i.amount, i.size)
    [] i.form = "extended" -> DecodeRegExtend(GetX(s, i.m, i.size), i.type, i.unsigned, i.shift, i.size)
Negated(sub, y, size) == IF sub = 1 THEN BitNot(y, size) ELSE y
Written(s, i, value) ==
  IF i.setflags = 1 \/ i.form = "shifted" THEN SetX(s, i.d, value, i.size) ELSE SetRegOrSp(s, i.d, value, i.size)
AddSubResult(s, i, sum) ==
  Written(IF i.setflags = 1 THEN SetFlags(s, sum.value, sum.carry, sum.overflow, i.size) ELSE s, i, sum.value)
AddSub(s, i) ==
  AddSubResult(s, i,
    AddWithCarry(IF i.form = "shifted" THEN GetX(s, i.n, i.size) ELSE GetRegOrSp(s, i.n, i.size),
                 Negated(i.sub, AddSubOperand2(s, i), i.size), i.sub, i.size))

AdcSbc(s, i) ==
  LET sum == AddWithCarry(GetX(s, i.n, i.size), Negated(i.sub, GetX(s, i.m, i.size), i.size), s.psr.c, i.size)
  IN  SetX(IF i.setflags = 1 THEN SetFlags(s, sum.value, sum.carry, sum.overflow, i.size) ELSE s, i.d, sum.value, i.size)

LogicalOperand2(s, i) ==
  IF i.form = "imm" THEN i.imm
  ELSE Negated(i.invert, ShiftRegValue(GetX(s, i.m, i.size), i.type, i.amount, i.size), i.size)
LogicalOf(function, x, y, size) ==
  CASE function = "AND" -> And(x, y, size) [] function = "ORR" -> Or(x, y, size) [] function = "EOR" -> Eor(x, y, size)
LogicalOp(s, i) ==
  LET result == LogicalOf(i.function, GetX(s, i.n, i.size), LogicalOperand2(s, i), i.size)
  IN  Written(IF i.setflags = 1 THEN SetFlags(s, result, 0, 0, i.size) ELSE s, i, result)

MoveWide(s, i) ==
  LET slice == XBits \div 4
      moved == LowerChunk(i.imm * 2^i.pos, i.size)
  IN  SetX(s, i.d,
        IF i.keep THEN LowerChunk(SetSubstring(GetX(s, i.d, i.size), i.pos + slice - 1, i.pos, i.imm), i.size)
        ELSE IF i.not THEN BitNot(moved, i.size) ELSE moved, i.size)

\* The field is rotated into place under one mask, and extended above the other.
BitfieldMove(s, i) ==
  LET dst == IF i.inzero THEN 0 ELSE GetX(s, i.d, i.size)
      src == GetX(s, i.n, i.size)
      bot == Or(And(dst, BitNot(i.wmask, i.size), i.size), And(Ror(src, i.size, i.immr), i.wmask, i.size), i.size)
      top == IF i.extend THEN IF BitAt(src, i.imms) = 1 THEN Ones(i.size) ELSE 0 ELSE dst
  IN  SetX(s, i.d, Or(And(top, BitNot(i.tmask, i.size), i.size), And(bot, i.tmask, i.size), i.size), i.size)

\* The bits of the pair are taken one by one.
ExtractBits(s, i) ==
  LET pair(index) == IF index < i.size THEN BitAt(GetX(s, i.m, i.size), index) ELSE BitAt(GetX(s, i.n, i.size), index - i.size)
  IN  SetX(s, i.d, FromOnes({index \in 0..(i.size - 1) : index + i.lsb < 2 * i.size /\ pair(index + i.lsb) = 1}, i.size), i.size)

SelectElse(value, i) ==
  LET inverted == IF i.invert THEN BitNot(value, i.size) ELSE value
  IN  IF i.increment THEN LowerChunk(inverted + 1, i.size) ELSE inverted
Select(s, i) ==
  SetX(s, i.d, IF ConditionHolds(s, i.cond) THEN GetX(s, i.n, i.size) ELSE SelectElse(GetX(s, i.m, i.size), i), i.size)

Compare(s, i) ==
  LET y == IF i.immediate THEN i.operand ELSE GetX(s, i.operand, i.size)
      sum == AddWithCarry(GetX(s, i.n, i.size), Negated(i.sub, y, i.size), i.sub, i.size)
  IN  IF ConditionHolds(s, i.cond) THEN SetFlags(s, sum.value, sum.carry, sum.overflow, i.size)
      ELSE SetNzcv(s, i.flags)

\* The containers of two or four bytes stay in place.
ReverseContainers(x, size, bytes) ==
  LET width == bytes * ByteBits
      done[n \in 0..(size \div width)] ==
        IF n = 0 THEN 0
        ELSE done[n - 1] + BigEndianReverse(Substring(x, n * width - 1, (n - 1) * width), bytes) * 2^((n - 1) * width)
  IN  done[size \div width]
Source1(s, i) ==
  LET x == GetX(s, i.n, i.size)
  IN  SetX(s, i.d,
        CASE i.function = "rbit" -> ReverseBits(x, i.size)
          [] i.function = "rev16" -> ReverseContainers(x, i.size, 2)
          [] i.function = "rev32" -> ReverseContainers(x, i.size, 4)
          [] i.function = "rev" -> BigEndianReverse(x, i.size \div ByteBits)
          [] i.function = "clz" -> CountLeadingZeros(x, i.size)
          [] i.function = "cls" -> CountLeadingSignBits(x, i.size), i.size)

AbsoluteOf(x) == IF x < 0 THEN -x ELSE x
\* Towards zero.
SignedQuotient(x, y) ==
  LET quotient == AbsoluteOf(x) \div AbsoluteOf(y) IN IF (x < 0) # (y < 0) THEN -quotient ELSE quotient
Source2(s, i) ==
  LET x == GetX(s, i.n, i.size)
      y == GetX(s, i.m, i.size)
  IN  SetX(s, i.d,
        CASE i.function = "udiv" -> IF y = 0 THEN 0 ELSE x \div y
          [] i.function = "sdiv" -> IF y = 0 THEN 0 ELSE ToUnsigned(SignedQuotient(ToSigned(x, i.size), ToSigned(y, i.size)), i.size)
          [] OTHER -> ShiftRegValue(x, i.function, y % i.size, i.size), i.size)

Accumulated(a, product, sub) == IF sub THEN a - product ELSE a + product
Source3(s, i) ==
  LET x == GetX(s, i.n, i.size)
      y == GetX(s, i.m, i.size)
      wx == GetX(s, i.n, WBits)
      wy == GetX(s, i.m, WBits)
      a == GetX(s, i.a, i.size)
  IN  SetX(s, i.d,
        CASE i.function = "mul" -> ToUnsigned(Accumulated(a, x * y, i.sub), i.size)
          [] i.function = "smull" ->
               ToUnsigned(Accumulated(ToSigned(a, XBits), ToSigned(wx, WBits) * ToSigned(wy, WBits), i.sub), XBits)
          [] i.function = "umull" -> ToUnsigned(Accumulated(ToSigned(a, XBits), wx * wy, i.sub), XBits)
          [] i.function = "smulh" -> ToUnsigned((ToSigned(x, XBits) * ToSigned(y, XBits)) \div 2^XBits, XBits)
          [] i.function = "umulh" -> ToUnsigned((x * y) \div 2^XBits, XBits), i.size)

Computing == {"adr", "addsub", "adcsbc", "logical", "movewide", "bitfield", "extract", "csel", "ccmp",
              "source1", "source2", "source3"}
Compute(s, i) ==
  CASE i.op = "adr" -> Adr(s, i)
    [] i.op = "addsub" -> AddSub(s, i)
    [] i.op = "adcsbc" -> AdcSbc(s, i)
    [] i.op = "logical" -> LogicalOp(s, i)
    [] i.op = "movewide" -> MoveWide(s, i)
    [] i.op = "bitfield" -> BitfieldMove(s, i)
    [] i.op = "extract" -> ExtractBits(s, i)
    [] i.op = "csel" -> Select(s, i)
    [] i.op = "ccmp" -> Compare(s, i)
    [] i.op = "source1" -> Source1(s, i)
    [] i.op = "source2" -> Source2(s, i)
    [] i.op = "source3" -> Source3(s, i)
=============================================================================
