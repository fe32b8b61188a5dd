------------------------ MODULE Armv6DataProcessing ------------------------
(***************************************************************************)
(* What the execute methods of the data-processing opcodes do, with the    *)
(* condition check and the writes to PC that all opcodes share.            *)
(*                                                                         *)
(* An opcode is a function from the instruction i, a record of the fields  *)
(* its constructor takes, and the processor s to the processor after it.   *)
(* i.imm is the immediate as encoded, i.shift the shift applied to Rm.     *)
(***************************************************************************)
EXTENDS Armv6Registers

CONSTANT AmountBits   \* bits of a register that give a shift amount: 8

ASSUME AmountAssumption == AmountBits \in Nat \ {0}

-----------------------------------------------------------------------------
(* Conditions *)

NoCond == 16   \* i.cond of a Thumb instruction without a condition of its own
\* Such an instruction has the condition of its place in the IT block.  (IT bits
\* without a block, which only a malformed SPSR gives, count as EQ.)
CurrentCond(i, s) ==
  IF s.psr.t = 0 \/ i.cond # NoCond THEN i.cond
  ELSE IF InItBlock(s) THEN s.psr.it \div 16
  ELSE IF s.psr.it = 0 THEN 14 ELSE 0

Holds(higher, p) ==
  CASE higher = 0 -> p.z = 1
    [] higher = 1 -> p.c = 1
    [] higher = 2 -> p.n = 1
    [] higher = 3 -> p.v = 1
    [] higher = 4 -> p.c = 1 /\ p.z = 0
    [] higher = 5 -> p.n = p.v
    [] higher = 6 -> p.n = p.v /\ p.z = 0
    [] higher = 7 -> TRUE

ConditionPassed(i, s) ==
  LET cond == CurrentCond(i, s)
  IN  Holds(cond \div 2, s.psr) # (cond % 2 = 1 /\ cond # 15)

IfPassed(i, s, t) == IF ConditionPassed(i, s) THEN t ELSE s

-----------------------------------------------------------------------------
(* Writes to PC *)

BranchWritePc(s, address) == BranchTo(s, Align(address, IF s.psr.t = 1 THEN 2 ELSE 4))

SelectInstrSet(s, t) == [s EXCEPT !.psr.t = t]

\* Bit 0 selects the instruction set; an ARM address that is not a multiple of four
\* is ignored.
BxWritePc(s, address) ==
  CASE BitAt(address, 0) = 1 -> BranchTo(SelectInstrSet(s, 1), Align(address, 2))
    [] address % 4 = 0 -> BranchTo(SelectInstrSet(s, 0), address)
    [] OTHER -> s

\* On architecture version 6.
AluWritePc(s, address) == BranchWritePc(s, address)
LoadWritePc(s, address) == BxWritePc(s, address)

-----------------------------------------------------------------------------
(* Operands *)

ArmExpandImmC(imm, carry) == ShiftC(imm.byte, WordBits, "ROR", 2 * imm.rotate, carry)

\* The rotated form rotates within a byte: the value never leaves the low byte.
ThumbExpandImmC(imm, carry) ==
  LET doubled == Chain(imm.byte, imm.byte, HalfBits)
  IN  CASE imm.form = "byte"    -> Shifted(imm.byte, carry)
        [] imm.form = "low"     -> Shifted(doubled, carry)
        [] imm.form = "high"    -> Shifted(doubled * 2^ByteBits, carry)
        [] imm.form = "all"     -> Shifted(doubled + doubled * 2^ByteBits, carry)
        [] imm.form = "rotated" ->
             RorC(Chain(1, LowerChunk(imm.byte, ByteBits - 1), ByteBits - 1), ByteBits, imm.rotate)

\* The immediate of an instruction: expanded, or the field "plain" as it is.
ImmC(i, s) ==
  CASE i.imm.form = "plain" -> Shifted(i.imm.byte, s.psr.c)
    [] i.imm.form = "arm"   -> ArmExpandImmC(i.imm, s.psr.c)
    [] OTHER                -> ThumbExpandImmC(i.imm, s.psr.c)
Imm(i, s) == ImmC(i, s).value

RegC(i, s) == ShiftC(Get(s, i.m), WordBits, i.shift.type, i.shift.n, s.psr.c)
Reg(i, s) == RegC(i, s).value

\* Shifted by the low bits of another register.
RsrC(i, s) ==
  ShiftC(Get(s, i.m), WordBits, i.shift.type, LowerChunk(Get(s, i.s), AmountBits), s.psr.c)
Rsr(i, s) == RsrC(i, s).value

Sum(x, y) == AddWithCarry(x, y, 0)
Difference(x, y) == AddWithCarry(x, Not(y), 1)

-----------------------------------------------------------------------------
(* Results *)

FlagsNz(s, value) ==
  [s EXCEPT !.psr.n = BitAt(value, WordBits - 1), !.psr.z = Flag(value = 0)]
LogicalFlags(s, r) == [FlagsNz(s, r.value) EXCEPT !.psr.c = r.carry]
ArithmeticFlags(s, r) == [LogicalFlags(s, r) EXCEPT !.psr.v = r.overflow]

\* The result goes to Rd, and to the flags if asked for; to PC without flags.
Written(i, s, value, flagged) ==
  IF i.d = 15 THEN AluWritePc(s, value) ELSE Set(IF i.setflags THEN flagged ELSE s, i.d, value)

Arithmetic(i, s, r) == Written(i, s, r.value, ArithmeticFlags(s, r))
Logical(i, s, r) == Written(i, s, r.value, LogicalFlags(s, r))
Moved(i, s, value) == Written(i, s, value, FlagsNz(s, value))

-----------------------------------------------------------------------------
(* Addition and subtraction.  The forms with a shift by a register do not look *)
(* at the condition.                                                           *)

AdcImmediate(i, s) == IfPassed(i, s, Arithmetic(i, s, AddWithCarry(Get(s, i.n), Imm(i, s), s.psr.c)))
AdcRegister(i, s) == IfPassed(i, s, Arithmetic(i, s, AddWithCarry(Get(s, i.n), Reg(i, s), s.psr.c)))
AdcRegisterShiftedRegister(i, s) == Arithmetic(i, s, AddWithCarry(Get(s, i.n), Rsr(i, s), s.psr.c))

AddImmediateArm(i, s) == IfPassed(i, s, Arithmetic(i, s, Sum(Get(s, i.n), Imm(i, s))))
AddImmediateThumb(i, s) == IfPassed(i, s, Arithmetic(i, s, Sum(Get(s, i.n), Imm(i, s))))
AddRegisterArm(i, s) == IfPassed(i, s, Arithmetic(i, s, Sum(Get(s, i.n), Reg(i, s))))
AddRegisterThumb(i, s) == IfPassed(i, s, Arithmetic(i, s, Sum(Get(s, i.n), Reg(i, s))))
AddRegisterShiftedRegister(i, s) == Arithmetic(i, s, Sum(Get(s, i.n), Rsr(i, s)))
AddSpPlusImmediate(i, s) == IfPassed(i, s, Arithmetic(i, s, Sum(Get(s, 13), Imm(i, s))))
AddSpPlusRegisterArm(i, s) == IfPassed(i, s, Arithmetic(i, s, Sum(Get(s, 13), Reg(i, s))))
AddSpPlusRegisterThumb(i, s) == IfPassed(i, s, Arithmetic(i, s, Sum(Get(s, 13), Reg(i, s))))

Adr(i, s) ==
  LET base == Align(GetPc(s), 4)
      result == IF i.add THEN Add(base, Imm(i, s)) ELSE Sub(base, Imm(i, s))
  IN  IfPassed(i, s, IF i.d = 15 THEN AluWritePc(s, result) ELSE Set(s, i.d, result))

RsbImmediate(i, s) == IfPassed(i, s, Arithmetic(i, s, Difference(Imm(i, s), Get(s, i.n))))
RsbRegister(i, s) == IfPassed(i, s, Arithmetic(i, s, Difference(Reg(i, s), Get(s, i.n))))
RsbRegisterShiftedRegister(i, s) == Arithmetic(i, s, Difference(Rsr(i, s), Get(s, i.n)))

RscImmediate(i, s) ==
  IfPassed(i, s, Arithmetic(i, s, AddWithCarry(Not(Get(s, i.n)), Imm(i, s), s.psr.c)))
RscRegister(i, s) ==
  IfPassed(i, s, Arithmetic(i, s, AddWithCarry(Not(Get(s, i.n)), Reg(i, s), s.psr.c)))
RscRegisterShiftedRegister(i, s) ==
  Arithmetic(i, s, AddWithCarry(Not(Get(s, i.n)), Rsr(i, s), s.psr.c))

SbcImmediate(i, s) ==
  IfPassed(i, s, Arithmetic(i, s, AddWithCarry(Get(s, i.n), Not(Imm(i, s)), s.psr.c)))

\* MUTANT: the borrow of the lower words is lost.
SbcRegister_NoBorrow(i, s) == IfPassed(i, s, Arithmetic(i, s, Difference(Get(s, i.n), Reg(i, s))))

SbcRegister(i, s) ==
  IfPassed(i, s, Arithmetic(i, s, AddWithCarry(Get(s, i.n), Not(Reg(i, s)), s.psr.c)))
SbcRegisterShiftedRegister(i, s) ==
  Arithmetic(i, s, AddWithCarry(Get(s, i.n), Not(Rsr(i, s)), s.psr.c))

SubImmediateArm(i, s) == IfPassed(i, s, Arithmetic(i, s, Difference(Get(s, i.n), Imm(i, s))))
SubImmediateThumb(i, s) == IfPassed(i, s, Arithmetic(i, s, Difference(Get(s, i.n), Imm(i, s))))
SubRegister(i, s) == IfPassed(i, s, Arithmetic(i, s, Difference(Get(s, i.n), Reg(i, s))))
SubRegisterShiftedRegister(i, s) == Arithmetic(i, s, Difference(Get(s, i.n), Rsr(i, s)))
SubSpMinusImmediate(i, s) == IfPassed(i, s, Arithmetic(i, s, Difference(Get(s, 13), Imm(i, s))))
SubSpMinusRegister(i, s) == IfPassed(i, s, Arithmetic(i, s, Difference(Get(s, 13), Reg(i, s))))

-----------------------------------------------------------------------------
(* Comparisons *)

CmnImmediate(i, s) == IfPassed(i, s, ArithmeticFlags(s, Sum(Get(s, i.n), Imm(i, s))))
CmnRegister(i, s) == IfPassed(i, s, ArithmeticFlags(s, Sum(Get(s, i.n), Reg(i, s))))
CmnRegisterShiftedRegister(i, s) == ArithmeticFlags(s, Sum(Get(s, i.n), Rsr(i, s)))
CmpImmediate(i, s) == IfPassed(i, s, ArithmeticFlags(s, Difference(Get(s, i.n), Imm(i, s))))
CmpRegister(i, s) == IfPassed(i, s, ArithmeticFlags(s, Difference(Get(s, i.n), Reg(i, s))))
CmpRegisterShiftedRegister(i, s) == ArithmeticFlags(s, Difference(Get(s, i.n), Rsr(i, s)))

-----------------------------------------------------------------------------
(* Logical operations: the carry is the shifter's *)

Combined(Op(_, _), x, operand) == Shifted(Op(x, operand.value), operand.carry)
BitClear(x, y) == And(x, Not(y))
OrNot(x, y) == Or(x, Not(y))

AndImmediate(i, s) == IfPassed(i, s, Logical(i, s, Combined(And, Get(s, i.n), ImmC(i, s))))
AndRegister(i, s) == IfPassed(i, s, Logical(i, s, Combined(And, Get(s, i.n), RegC(i, s))))
AndRegisterShiftedRegister(i, s) == Logical(i, s, Combined(And, Get(s, i.n), RsrC(i, s)))
BicImmediate(i, s) == IfPassed(i, s, Logical(i, s, Combined(BitClear, Get(s, i.n), ImmC(i, s))))
BicRegister(i, s) == IfPassed(i, s, Logical(i, s, Combined(BitClear, Get(s, i.n), RegC(i, s))))
BicRegisterShiftedRegister(i, s) == Logical(i, s, Combined(BitClear, Get(s, i.n), RsrC(i, s)))
EorImmediate(i, s) == IfPassed(i, s, Logical(i, s, Combined(Eor, Get(s, i.n), ImmC(i, s))))
EorRegister(i, s) == IfPassed(i, s, Logical(i, s, Combined(Eor, Get(s, i.n), RegC(i, s))))
EorRegisterShiftedRegister(i, s) == Logical(i, s, Combined(Eor, Get(s, i.n), RsrC(i, s)))
OrrImmediate(i, s) == IfPassed(i, s, Logical(i, s, Combined(Or, Get(s, i.n), ImmC(i, s))))
OrrRegister(i, s) == IfPassed(i, s, Logical(i, s, Combined(Or, Get(s, i.n), RegC(i, s))))
OrrRegisterShiftedRegister(i, s) == Logical(i, s, Combined(Or, Get(s, i.n), RsrC(i, s)))
OrnImmediate(i, s) == IfPassed(i, s, Logical(i, s, Combined(OrNot, Get(s, i.n), ImmC(i, s))))
OrnRegister(i, s) == IfPassed(i, s, Logical(i, s, Combined(OrNot, Get(s, i.n), RegC(i, s))))

TeqImmediate(i, s) == IfPassed(i, s, LogicalFlags(s, Combined(Eor, Get(s, i.n), ImmC(i, s))))
TeqRegister(i, s) == IfPassed(i, s, LogicalFlags(s, Combined(Eor, Get(s, i.n), RegC(i, s))))
TeqRegisterShiftedRegister(i, s) == LogicalFlags(s, Combined(Eor, Get(s, i.n), RsrC(i, s)))
TstImmediate(i, s) == IfPassed(i, s, LogicalFlags(s, Combined(And, Get(s, i.n), ImmC(i, s))))
TstRegister(i, s) == IfPassed(i, s, LogicalFlags(s, Combined(And, Get(s, i.n), RegC(i, s))))
TstRegisterShiftedRegister(i, s) == LogicalFlags(s, Combined(And, Get(s, i.n), RsrC(i, s)))

-----------------------------------------------------------------------------
(* Moves and shifts *)

Inverted(operand) == Shifted(Not(operand.value), operand.carry)

MovImmediate(i, s) == IfPassed(i, s, Logical(i, s, ImmC(i, s)))
MovRegisterArm(i, s) == IfPassed(i, s, Moved(i, s, Get(s, i.m)))
MovRegisterThumb(i, s) == IfPassed(i, s, Moved(i, s, Get(s, i.m)))
Movt(i, s) == IfPassed(i, s, Set(s, i.d, FromHalves(i.imm16, HalfOf(Get(s, i.d), 0))))
MvnImmediate(i, s) == IfPassed(i, s, Logical(i, s, Inverted(ImmC(i, s))))
MvnRegister(i, s) == IfPassed(i, s, Logical(i, s, Inverted(RegC(i, s))))
MvnRegisterShiftedRegister(i, s) == Logical(i, s, Inverted(RsrC(i, s)))

ShiftedBy(i, s, type) == Logical(i, s, ShiftC(Get(s, i.m), WordBits, type, i.shift.n, s.psr.c))

\* Without a look at the condition.
ShiftedByRegister(i, s, type) ==
  Logical(i, s, ShiftC(Get(s, i.n), WordBits, type, LowerChunk(Get(s, i.m), AmountBits), s.psr.c))

AsrImmediate(i, s) == IfPassed(i, s, ShiftedBy(i, s, "ASR"))
AsrRegister(i, s) == ShiftedByRegister(i, s, "ASR")
LslImmediate(i, s) == IfPassed(i, s, ShiftedBy(i, s, "LSL"))
LslRegister(i, s) == ShiftedByRegister(i, s, "LSL")
LsrImmediate(i, s) == IfPassed(i, s, ShiftedBy(i, s, "LSR"))
LsrRegister(i, s) == ShiftedByRegister(i, s, "LSR")
RorImmediate(i, s) == IfPassed(i, s, ShiftedBy(i, s, "ROR"))
RorRegister(i, s) == ShiftedByRegister(i, s, "ROR")
Rrx(i, s) == IfPassed(i, s, Logical(i, s, ShiftC(Get(s, i.m), WordBits, "RRX", 1, s.psr.c)))

-----------------------------------------------------------------------------
(* Bit fields and byte order.  Fields that end before they begin, or past the *)
(* word, are unpredictable: nothing happens.                                  *)

Bfc(i, s) ==
  IfPassed(i, s, IF i.msbit < i.lsbit THEN s
                 ELSE Set(s, i.d, SetSubstring(Get(s, i.d), i.msbit, i.lsbit, 0)))

\* The bits inserted are those at the same place of Rn, not its lowest ones.
Bfi(i, s) ==
  IfPassed(i, s, IF i.msbit < i.lsbit THEN s
                 ELSE Set(s, i.d, SetSubstring(Get(s, i.d), i.msbit, i.lsbit,
                                               Substring(Get(s, i.n), i.msbit, i.lsbit))))

Sbfx(i, s) ==
  LET msbit == i.lsbit + i.widthminus1
      field == Substring(Get(s, i.n), msbit, i.lsbit)
  IN  IfPassed(i, s, IF msbit >= WordBits THEN s
                     ELSE Set(s, i.d, SignExtend(field, i.widthminus1 + 1, WordBits)))

Ubfx(i, s) ==
  LET msbit == i.lsbit + i.widthminus1
  IN  IfPassed(i, s, IF msbit >= WordBits THEN s
                     ELSE Set(s, i.d, Substring(Get(s, i.n), msbit, i.lsbit)))

Clz(i, s) == IfPassed(i, s, Set(s, i.d, WordBits - BitLength(Get(s, i.m))))

Pkh(i, s) ==
  IfPassed(i, s, Set(s, i.d, IF i.tb_form THEN FromHalves(HalfOf(Get(s, i.n), 1), HalfOf(Reg(i, s), 0))
                             ELSE FromHalves(HalfOf(Reg(i, s), 1), HalfOf(Get(s, i.n), 0))))

Rbit(i, s) ==
  IfPassed(i, s, Set(s, i.d, FromOnes({WordBits - 1 - index : index \in Ones(Get(s, i.m))})))

Rev(i, s) == IfPassed(i, s, Set(s, i.d, BigEndianReverse(Get(s, i.m), 4)))

Rev16(i, s) ==
  LET x == Get(s, i.m)
  IN  IfPassed(i, s, Set(s, i.d, FromHalves(BigEndianReverse(HalfOf(x, 1), 2), BigEndianReverse(HalfOf(x, 0), 2))))

Revsh(i, s) ==
  IfPassed(i, s, Set(s, i.d, SignExtend(BigEndianReverse(HalfOf(Get(s, i.m), 0), 2), HalfBits, WordBits)))

Sel(i, s) ==
  LET chosen == [lane \in 0..3 |-> ByteOf(Get(s, IF lane \in s.psr.ge THEN i.n ELSE i.m), lane)]
  IN  IfPassed(i, s, Set(s, i.d, FromLanes(chosen, ByteBits)))
=============================================================================
