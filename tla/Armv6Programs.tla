--------------------------- MODULE Armv6Programs ---------------------------
(***************************************************************************)
(* Programs that have two meanings which must agree: what the opcodes do   *)
(* one after another, and what the program is for - arithmetic on numbers  *)
(* wider than a word, a comparison of integers, an operation on the lanes  *)
(* of a word - or what another sequence of opcodes does.                   *)
(*                                                                         *)
(* A job is such a program with its operands, run in one of the two        *)
(* instruction sets.  r1 to r4 hold the operands, r5 and r6 the results.   *)
(***************************************************************************)
EXTENDS Armv6Opcodes

CONSTANTS
  Operands,   \* BOUND: the words the operands are taken from
  Few         \* BOUND: those of the jobs with many operands, which can be immediates

Origin == 32   \* where the programs are

\* An immediate operand as the instruction encodes it.
Encoded(t, value) ==
  IF t = 0 THEN CHOOSE imm \in {[form |-> "arm", byte |-> b, rotate |-> r] : b \in 0..(2^ByteBits - 1), r \in 0..3} :
                  ArmExpandImmC(imm, 0).value = value
  ELSE CHOOSE imm \in {[form |-> f, byte |-> b, rotate |-> 0] :
                          f \in {"byte", "low", "high", "all"}, b \in 0..(2^ByteBits - 1)} :
         ThumbExpandImmC(imm, 0).value = value
EncodableFew(t) ==
  {value \in Few :
     \/ t = 0 /\ \E b \in 0..(2^ByteBits - 1), r \in 0..3 :
                   ArmExpandImmC([form |-> "arm", byte |-> b, rotate |-> r], 0).value = value
     \/ t = 1 /\ \E b \in 0..(2^ByteBits - 1), f \in {"byte", "low", "high", "all"} :
                   ThumbExpandImmC([form |-> f, byte |-> b, rotate |-> 0], 0).value = value}

-----------------------------------------------------------------------------
(* The processor that runs a program: user mode, flat memory *)

Registers(operands) ==
  [NoRegisters EXCEPT ![<<1, "usr">>] = operands[1], ![<<2, "usr">>] = operands[2],
                      ![<<3, "usr">>] = operands[3], ![<<4, "usr">>] = operands[4]]

Started(job_) ==
  [psr |-> [ZeroPsr EXCEPT !.m = "usr", !.i = 1, !.f = 1, !.t = job_.t, !.c = job_.carry, !.e = job_.e],
   R |-> Registers(job_.operands), spsr |-> NoSpsr, pc |-> Origin, branched |-> FALSE,
   raised |-> "none", mem |-> NoMemory, memarch |-> "PMSA",
   sctlr |-> [m |-> 0, a |-> 0, u |-> job_.u, v |-> 0, c |-> 0, te |-> 0, ee |-> 0, nmfi |-> 0, ve |-> 0,
              br |-> 0, afe |-> 0],
   scr |-> [ns |-> 0, aw |-> 0, fw |-> 0, ea |-> 0, irq |-> 0, fiq |-> 0, scd |-> 0],
   vbar |-> 0, dfar |-> 0, dfsr |-> [write |-> FALSE, status |-> 0, domain |-> 0],
   event |-> FALSE, waiting |-> {}, regions |-> <<>>]

Job(family, name, t, operands) ==
  [family |-> family, name |-> name, t |-> t, operands |-> operands,
   k |-> 0, width |-> 0, type |-> "LSL", pair |-> <<"none", "none", 0, FALSE>>, way |-> "plain", cond |-> 14,
   carry |-> 0, e |-> 0, u |-> 1, first |-> <<>>]

\* Before there is a job there is only its family and the instruction set it will run in.
Chosen == "operands" \in DOMAIN job
Open(family) == ~Chosen /\ job.family = family
Assign(job_) == job' = job_ /\ cpu' = Started(job_)

\* A job of two programs starts again with the second, and keeps what came of the first.
Twins == {"fused", "immediate", "product", "bits"}
Results(s) == [R |-> s.R, psr |-> s.psr]
Again == job' = [job EXCEPT !.first = <<Results(cpu)>>] /\ cpu' = Started(job)

R(s, n) == Get(s, n)
Pair56(s) == Chain(R(s, 6), R(s, 5), WordBits)

-----------------------------------------------------------------------------
(* Numbers of two words *)

WideNames == {"add", "sub", "rsb", "neg"}
Wide(t) ==
  \E name \in WideNames, way \in {"register", "immediate"}, x0 \in Few, x1 \in Few :
    \E y0 \in IF way = "register" THEN Few ELSE EncodableFew(t), y1 \in IF way = "register" THEN Few ELSE EncodableFew(t) :
      Assign([Job("wide", name, t, <<x0, x1, y0, y1>>) EXCEPT !.way = way])

WideProgram(j) ==
  LET lowOp == [add |-> AddRegister(j.t), sub |-> "SubRegister", rsb |-> "RsbRegister", neg |-> "RsbImmediate"]
      highOp == [add |-> "AdcRegister", sub |-> "SbcRegister", rsb |-> "RscRegister", neg |-> "RscImmediate"]
      lowImm == [add |-> AddImmediate(j.t), sub |-> SubImmediate(j.t), rsb |-> "RsbImmediate", neg |-> "RsbImmediate"]
      highImm == [add |-> "AdcImmediate", sub |-> "SbcImmediate", rsb |-> "RscImmediate", neg |-> "RscImmediate"]
      low(value) == IF j.name = "neg" THEN 0 ELSE value
      ByImm(i, value) == [i EXCEPT !.imm = Encoded(j.t, low(value))]
  IN  IF j.way = "register"
      THEN <<Flags(Do(lowOp[j.name], 5, 1, 3)), Flags(Do(highOp[j.name], 6, 2, 4))>>
      ELSE <<Flags(ByImm(Do(lowImm[j.name], 5, 1, 0), j.operands[3])),
             Flags(ByImm(Do(highImm[j.name], 6, 2, 0), j.operands[4]))>>

\* What the operation is on the integers, signed or not.
WideValue(j, x, y) ==
  CASE j.name = "add" -> x + y [] j.name = "sub" -> x - y [] j.name = "rsb" -> y - x [] j.name = "neg" -> -x

WideMeans(j, s) ==
  LET x == Chain(j.operands[2], j.operands[1], WordBits)
      y == Chain(j.operands[4], j.operands[3], WordBits)
      exact == WideValue(j, x, y)
      signed == WideValue(j, ToSigned(x, DoubleBits), ToSigned(y, DoubleBits))
      value == ToUnsigned(exact, DoubleBits)
  IN  /\ Pair56(s) = value
      /\ s.psr.c = IF j.name = "add" THEN Flag(exact # value) ELSE Flag(exact >= 0)
      /\ s.psr.v = Flag(signed # ToSigned(value, DoubleBits))
      /\ s.psr.n = BitAt(value, DoubleBits - 1)

-----------------------------------------------------------------------------
(* Comparisons and what is executed after them *)

CompareNames == {"CmpRegister", "CmpImmediate", "CmnRegister", "CmnImmediate"}
Compare(t) ==
  \/ \E name \in CompareNames, cond \in 0..14, x \in Operands, y \in Operands, way \in {"branch", "conditional"} :
       Assign([Job("compare", name, t, <<x, y, 0, 0>>) EXCEPT !.cond = cond, !.way = way])
  \/ \E cond \in {0, 1}, x \in Operands : Assign([Job("compare", "Cbz", t, <<x, 0, 0, 0>>) EXCEPT !.cond = cond])

CompareProgram(j) ==
  LET compare == [Do(j.name, 0, 1, 2) EXCEPT !.imm = Plain(j.operands[2])]
      jump == When(With([Blank EXCEPT !.op = "B"], IF j.t = 1 THEN 8 ELSE 4), j.cond)
      other == IF j.cond = 14 THEN 15 ELSE IF j.cond % 2 = 1 THEN j.cond - 1 ELSE j.cond + 1
      never == IF j.cond = 14 THEN Blank ELSE When(Move(5, 2), other)
      zero == With([Do("Cbz", 0, 1, 0) EXCEPT !.nonzero = (j.cond = 1)], IF j.t = 1 THEN 8 ELSE 4)
  IN  IF j.name = "Cbz" THEN <<Move(5, 1), zero, Move(5, 2), Blank, Move(6, 3)>>
      ELSE IF j.way = "branch" THEN <<Move(5, 1), compare, jump, Move(5, 2), Blank, Move(6, 3)>>
      ELSE IF j.t = 0 THEN <<compare, When(Move(5, 1), j.cond), never, Move(6, 3)>>
      ELSE IF j.cond = 14 THEN <<compare, Move(5, 1), Move(6, 3)>>
      ELSE <<compare, Ite(j.cond), When(Move(5, 1), NoCond), When(Move(5, 2), NoCond), When(Move(6, 3), NoCond)>>

\* The relation of the integers that each condition stands for.
Relation(j) ==
  LET x == j.operands[1]
      y == j.operands[2]
      sx == ToSigned(x, WordBits)
      sy == ToSigned(y, WordBits)
      add == j.name \in {"CmnRegister", "CmnImmediate"}
      exact == IF add THEN sx + sy ELSE sx - sy
      cut == ToUnsigned(exact, WordBits)
      carry == IF add THEN x + y >= 2^WordBits ELSE x >= y
      holds == <<cut = 0, carry, BitAt(cut, WordBits - 1) = 1, exact # ToSigned(cut, WordBits),
                 carry /\ cut # 0, exact >= 0, exact > 0, TRUE>>[j.cond \div 2 + 1]
  IN  holds # (j.cond % 2 = 1)

CompareMeans(j, s) == R(s, 5) = (IF Relation(j) THEN 1 ELSE 2) /\ R(s, 6) = 3 /\ ~InItBlock(s)

-----------------------------------------------------------------------------
(* Lanes in parallel *)

Prefix == {"S", "U", "Sh", "Uh", "Q", "Uq"}
Shape == {"add16", "sub16", "add8", "sub8", "asx", "sax"}
LaneOpcode == [S |-> [add16 |-> "Sadd16", sub16 |-> "Ssub16", add8 |-> "Sadd8", sub8 |-> "Ssub8", asx |-> "Sasx", sax |-> "Ssax"],
  U |-> [add16 |-> "Uadd16", sub16 |-> "Usub16", add8 |-> "Uadd8", sub8 |-> "Usub8", asx |-> "Uasx", sax |-> "Usax"],
  Sh |-> [add16 |-> "Shadd16", sub16 |-> "Shsub16", add8 |-> "Shadd8", sub8 |-> "Shsub8", asx |-> "Shasx", sax |-> "Shsax"],
  Uh |-> [add16 |-> "Uhadd16", sub16 |-> "Uhsub16", add8 |-> "Uhadd8", sub8 |-> "Uhsub8", asx |-> "Uhasx", sax |-> "Uhsax"],
  Q |-> [add16 |-> "Qadd16", sub16 |-> "Qsub16", add8 |-> "Qadd8", sub8 |-> "Qsub8", asx |-> "Qasx", sax |-> "Qsax"],
  Uq |-> [add16 |-> "Uqadd16", sub16 |-> "Uqsub16", add8 |-> "Uqadd8", sub8 |-> "Uqsub8", asx |-> "Uqasx", sax |-> "Uqsax"]]

LaneJob(t) ==
  \E prefix \in Prefix, shape \in Shape, x \in Operands, y \in Operands :
    Assign([Job("lanes", prefix, t, <<x, y, 0, 0>>) EXCEPT !.type = shape])

\* The lanes, then a choice between the lanes of the operands by the GE flags.
LaneProgram(j) == <<Do(LaneOpcode[j.name][j.type], 5, 1, 2), Do("Sel", 6, 1, 2)>>

LaneBits(shape) == IF shape \in {"add8", "sub8"} THEN ByteBits ELSE HalfBits

\* One lane of the result on its own: of the lanes x of Rn and y of Rm.
LaneResult(prefix, x, y, subtract, bits) ==
  LET exact == IF subtract THEN x - y ELSE x + y
  IN  CASE prefix \in {"S", "U"} -> exact % 2^bits
        [] prefix \in {"Sh", "Uh"} -> (exact \div 2) % 2^bits
        [] prefix = "Q" -> CHOOSE z \in 0..(2^bits - 1) : \A w \in 0..(2^bits - 1) :
             LET far(v) == IF v > exact THEN v - exact ELSE exact - v
             IN  far(ToSigned(z, bits)) <= far(ToSigned(w, bits))
        [] prefix = "Uq" -> CHOOSE z \in 0..(2^bits - 1) : \A w \in 0..(2^bits - 1) :
             LET far(v) == IF v > exact THEN v - exact ELSE exact - v IN far(z) <= far(w)

LaneMeans(j, s) ==
  LET bits == LaneBits(j.type)
      lanes == 0..(WordBits \div bits - 1)
      crossed == j.type \in {"asx", "sax"}
      signed == j.name \in {"S", "Sh", "Q"}
      at(word, lane) == IF signed THEN SLane(word, lane, bits) ELSE ULane(word, lane, bits)
      x(lane) == at(j.operands[1], lane)
      y(lane) == at(j.operands[2], IF crossed THEN 1 - lane ELSE lane)
      subtract(lane) == j.type \in {"sub16", "sub8"} \/ (j.type = "asx" /\ lane = 0) \/ (j.type = "sax" /\ lane = 1)
      \* Reached zero for a difference or a signed result, carried for an unsigned sum.
      reached(lane) == IF subtract(lane) THEN x(lane) >= y(lane)
                       ELSE IF signed THEN x(lane) + y(lane) >= 0 ELSE x(lane) + y(lane) >= 2^bits
      straight(lane) == ULane(j.operands[2], lane, bits)
  IN  \A lane \in lanes :
        /\ ULane(R(s, 5), lane, bits) = LaneResult(j.name, x(lane), y(lane), subtract(lane), bits)
        /\ ULane(R(s, 6), lane, bits) =
             IF j.name \in {"S", "U"} /\ reached(lane) THEN ULane(j.operands[1], lane, bits) ELSE straight(lane)

-----------------------------------------------------------------------------
(* An operand that is shifted on its way is one that was shifted before *)

Twofold ==   \* the opcode with an immediate shift, and with a shift by a register
  [adc |-> <<"AdcRegister", "AdcRegisterShiftedRegister">>, add |-> <<"AddRegisterArm", "AddRegisterShiftedRegister">>,
   and |-> <<"AndRegister", "AndRegisterShiftedRegister">>, bic |-> <<"BicRegister", "BicRegisterShiftedRegister">>,
   cmn |-> <<"CmnRegister", "CmnRegisterShiftedRegister">>, cmp |-> <<"CmpRegister", "CmpRegisterShiftedRegister">>,
   eor |-> <<"EorRegister", "EorRegisterShiftedRegister">>, mvn |-> <<"MvnRegister", "MvnRegisterShiftedRegister">>,
   orr |-> <<"OrrRegister", "OrrRegisterShiftedRegister">>, orn |-> <<"OrnRegister", "OrnRegister">>,
   rsb |-> <<"RsbRegister", "RsbRegisterShiftedRegister">>, rsc |-> <<"RscRegister", "RscRegisterShiftedRegister">>,
   sbc |-> <<"SbcRegister", "SbcRegisterShiftedRegister">>, sub |-> <<"SubRegister", "SubRegisterShiftedRegister">>,
   teq |-> <<"TeqRegister", "TeqRegisterShiftedRegister">>, tst |-> <<"TstRegister", "TstRegisterShiftedRegister">>]

LogicalNames == {"and", "bic", "eor", "mvn", "orr", "orn", "teq", "tst"}
ShiftOpcode == [LSL |-> <<"LslImmediate", "LslRegister">>, LSR |-> <<"LsrImmediate", "LsrRegister">>,
                ASR |-> <<"AsrImmediate", "AsrRegister">>, ROR |-> <<"RorImmediate", "RorRegister">>,
                RRX |-> <<"Rrx", "Rrx">>]

\* j.k is the amount; a shift by an immediate has the amounts that can be encoded,
\* a shift by a register is of the ARM instruction set.
Fused(t) ==
  \E name \in DOMAIN Twofold, type \in SRType \ {"RRX"}, x \in Few, y \in Few, carry \in Bit :
    \/ \E k \in {0, 1, WordBits - 1} :
         LET shift == DecodeImmShift(type, k)
         IN  Assign([Job("fused", name, t, <<x, y, 0, 0>>) EXCEPT !.k = shift[2], !.type = shift[1], !.carry = carry])
    \/ \E k \in {0, 1, WordBits, WordBits + 1} :
         /\ t = 0 /\ name # "orn"
         /\ Assign([Job("fused", name, t, <<x, y, 0, k>>) EXCEPT !.type = type, !.carry = carry, !.way = "register"])

FusedProgram(j) ==
  IF j.way = "register"
  THEN <<[Flags(By(Do(Twofold[j.name][2], 5, 1, 2), j.type, 0)) EXCEPT !.s = 4]>>
  ELSE <<Flags(By(Do(Twofold[j.name][1], 5, 1, 2), j.type, j.k))>>

\* The shift of a logical operation gives it its carry.
ApartProgram(j) ==
  LET shift == IF j.way = "register" THEN Do(ShiftOpcode[j.type][2], 2, 2, 4)
               ELSE By(Do(ShiftOpcode[j.type][1], 2, 0, 2), j.type, j.k)
  IN  <<IF j.name \in LogicalNames THEN Flags(shift) ELSE shift, Flags(Do(Twofold[j.name][1], 5, 1, 2))>>

FusedMeans(fused, apart) ==
  /\ fused.R[<<5, "usr">>] = R(apart, 5)
  /\ \A flag \in {"n", "z", "c", "v"} : fused.psr[flag] = apart.psr[flag]

-----------------------------------------------------------------------------
(* The forms with an immediate and those with a register; the stack pointer    *)
(* as the first operand, and another register                                  *)

Immediates ==
  [adc |-> <<"AdcImmediate", "AdcRegister">>, and |-> <<"AndImmediate", "AndRegister">>,
   bic |-> <<"BicImmediate", "BicRegister">>, cmn |-> <<"CmnImmediate", "CmnRegister">>,
   cmp |-> <<"CmpImmediate", "CmpRegister">>, eor |-> <<"EorImmediate", "EorRegister">>,
   mvn |-> <<"MvnImmediate", "MvnRegister">>, orn |-> <<"OrnImmediate", "OrnRegister">>,
   orr |-> <<"OrrImmediate", "OrrRegister">>, rsb |-> <<"RsbImmediate", "RsbRegister">>,
   rsc |-> <<"RscImmediate", "RscRegister">>, sbc |-> <<"SbcImmediate", "SbcRegister">>,
   sub |-> <<"SubImmediateArm", "SubRegister">>, teq |-> <<"TeqImmediate", "TeqRegister">>,
   tst |-> <<"TstImmediate", "TstRegister">>, add |-> <<"AddImmediateArm", "AddRegisterArm">>,
   addsp |-> <<"AddSpPlusImmediate", "AddRegisterArm">>, subsp |-> <<"SubSpMinusImmediate", "SubRegister">>,
   addspr |-> <<"AddSpPlusRegisterArm", "AddRegisterArm">>, subspr |-> <<"SubSpMinusRegister", "SubRegister">>]
SpNames == {"addsp", "subsp", "addspr", "subspr"}

ImmediateJob(t) ==
  \E name \in DOMAIN Immediates, x \in Operands, y \in EncodableFew(t), carry \in Bit :
    Assign([Job("immediate", name, t, <<x, y, 0, 0>>) EXCEPT !.carry = carry])

ImmediateProgram(j) ==
  LET opcode == IF j.name = "addspr" /\ j.t = 1 THEN "AddSpPlusRegisterThumb" ELSE Immediates[j.name][1]
  IN  IF j.name \in SpNames
      THEN <<MoveRegister(j.t, 13, 1), Flags([Do(opcode, 5, 0, 2) EXCEPT !.imm = Plain(j.operands[2])])>>
      ELSE <<Flags([Do(opcode, 5, 1, 0) EXCEPT !.imm = Encoded(j.t, j.operands[2])])>>

RegisterProgram(j) == <<Flags(Do(Immediates[j.name][2], 5, 1, 2))>>

\* C of a logical operation is that of the expansion of the immediate.
ImmediateMeans(j, immediate, registers) ==
  /\ immediate.R[<<5, "usr">>] = R(registers, 5)
  /\ \A flag \in {"n", "z", "v"} : immediate.psr[flag] = registers.psr[flag]
  /\ j.name \notin LogicalNames => immediate.psr.c = registers.psr.c
=============================================================================
