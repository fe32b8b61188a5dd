---------------------------- MODULE A64Arithmetic ----------------------------
(***************************************************************************)
(* The bench for the A64 instructions that compute: a job is an encoding   *)
(* and the operands it meets.  The core decodes it and executes it; what   *)
(* the instruction means is said here on integers and on sets of bits,     *)
(* without the masks, carries and complements of the code.                 *)
(***************************************************************************)
EXTENDS A64DataProcessing, TLC

VARIABLES job, done   \* done: <<>> at first, then <<the core afterwards, the opcode>> or <<"undefined">>

Place == 1000   \* where the instruction is
Start(j) ==
  [x |-> [r \in Xs |-> CASE r = 0 -> j.old [] r = 1 -> j.x [] r = 2 -> j.y [] r = 3 -> j.z [] OTHER -> 0],
   sp |-> [el \in EL |-> 40000 + el], pc |-> Place, branched |-> FALSE,
   psr |-> [Psr(1, 1) EXCEPT !.n = BitAt(j.nzcv, 3), !.z = BitAt(j.nzcv, 2), !.c = BitAt(j.nzcv, 1), !.v = BitAt(j.nzcv, 0)],
   sys |-> <<>>]

\* armv8/arm_v8.py: what does not decode raises UndefinedInstruction.
DecodeAndExecute(j) ==
  LET i == DecodeDataProcessing(j.e) IN IF i = Undefined THEN <<"undefined">> ELSE <<Compute(Start(j), i), i.op>>

-----------------------------------------------------------------------------
(* What the instructions mean.  size: the width of the job's registers.    *)

Signed(v, size) == IF v >= 2^(size - 1) THEN v - 2^size ELSE v
BitsOf(v, size) == {k \in 0..(size - 1) : (v \div 2^k) % 2 = 1}
Flags(n, z, c, v) == Flag(n) * 8 + Flag(z) * 4 + Flag(c) * 2 + Flag(v)
Result(value) == [value |-> value, nzcv |-> -1]   \* -1: the flags stay as they were

\* left + right + one, or left - right - (1 - one): the flags say what did not fit.
Total(left, right, one, sub) == IF sub = 1 THEN left - right - 1 + one ELSE left + right + one
Sum(x, y, one, sub, setflags, size) ==
  LET exact == Total(x, y, one, sub)
      signed == Total(Signed(x, size), Signed(y, size), one, sub)
      value == exact % (2^size)
  IN  [value |-> value,
       nzcv |-> IF setflags = 0 THEN -1
                ELSE Flags(value >= 2^(size - 1), value = 0,
                           IF sub = 1 THEN exact >= 0 ELSE exact >= 2^size,
                           signed < -(2^(size - 1)) \/ signed >= 2^(size - 1))]

Shifted(v, type, amount, size) ==
  CASE type = 0 -> (v * 2^amount) % (2^size)
    [] type = 1 -> v \div 2^amount
    [] type = 2 -> (Signed(v, size) \div 2^amount) % (2^size)
    [] type = 3 -> FromOnes({k \in 0..(size - 1) : (k + amount) % size \in BitsOf(v, size)}, size)
Extended(v, option, shift, size) ==
  LET kept == LesserOf(2^(option % 4) * ByteBits, size)
      low == v % (2^kept)
  IN  ((IF option < 4 THEN low ELSE Signed(low, kept)) * 2^shift) % (2^size)

\* N:imms names the length of the element, its run of ones and how often it repeats.
NamedBy(e, k) == (k = XLog /\ e.N = 1) \/ (k < XLog /\ e.N = 0 /\ BitAt(e.imms, k) = 0)
Element(e) ==
  CHOOSE k \in 1..XLog : NamedBy(e, k) /\ \A above \in (k + 1)..(XLog - 1) : e.N = 0 => BitAt(e.imms, above) = 1
HasElement(e) == e.N = 1 \/ \E k \in 1..(XLog - 1) : BitAt(e.imms, k) = 0
Pattern(e, size) ==
  LET length == 2^Element(e)
  IN  {k \in 0..(size - 1) : (k + e.immr) % length <= e.imms % length}
Both(opc, left, right) ==
  CASE opc \in {0, 3} -> left \cap right [] opc = 1 -> left \cup right
    [] opc = 2 -> (left \cup right) \ (left \cap right)
LogicalResult(opc, left, right, size) ==
  LET value == FromOnes(Both(opc, left, right), size)
  IN  [value |-> value, nzcv |-> IF opc = 3 THEN Flags(value >= 2^(size - 1), value = 0, FALSE, FALSE) ELSE -1]

\* A field of the source goes down to bit 0, or its low bits go up; BFM keeps the rest of
\* the destination, the others clear it, and SBFM repeats the field's top bit above it.
MovedField(e, from, into, size) ==
  LET down == e.imms >= e.immr
      place == IF down THEN 0 ELSE size - e.immr
      width == IF down THEN e.imms - e.immr + 1 ELSE e.imms + 1
      first == IF down THEN e.immr ELSE 0
      field == {k \in place..(place + width - 1) : k - place + first \in from}
  IN  CASE e.opc = 1 -> field \cup {k \in into : k < place \/ k >= place + width}
        [] e.opc = 2 -> field
        [] e.opc = 0 -> field \cup (IF e.imms \in from THEN (place + width)..(size - 1) ELSE {})

Mirrored(bits, unit, container, size) ==
  {k \in 0..(size - 1) :
     LET at == k % container IN (k - at) + (container - unit - (at - (at % unit))) + (at % unit) \in bits}
Leading(bits, size, wanted) ==
  Cardinality({k \in 0..(size - 1) : \A above \in k..(size - 1) : (above \in bits) = wanted})

\* Towards zero; the most negative number divided by -1 is itself.
IsQuotient(x, y, q, size) ==
  LET rest == x - q * y
  IN  \/ y = 0 /\ q = 0
      \/ y # 0 /\ AbsoluteOf(rest) < AbsoluteOf(y) /\ (rest = 0 \/ (rest < 0) = (x < 0))
      \/ y = -1 /\ x = -(2^(size - 1)) /\ q = x

\* The sixteen conditions, by the flags they are about.
True(cond, n, z, c, v) ==
  CASE cond = 0 -> z [] cond = 1 -> ~z [] cond = 2 -> c [] cond = 3 -> ~c [] cond = 4 -> n [] cond = 5 -> ~n
    [] cond = 6 -> v [] cond = 7 -> ~v [] cond = 8 -> c /\ ~z [] cond = 9 -> ~c \/ z
    [] cond = 10 -> n = v [] cond = 11 -> n # v [] cond = 12 -> n = v /\ ~z [] cond = 13 -> (n # v \/ z)
    [] cond \in {14, 15} -> TRUE
Passed(j) == True(j.e.cond, BitAt(j.nzcv, 3) = 1, BitAt(j.nzcv, 2) = 1, BitAt(j.nzcv, 1) = 1, BitAt(j.nzcv, 0) = 1)

Product(j, size, got) ==
  LET wide == j.e.op31 \in {1, 5}
      x == IF wide THEN j.x % 2^WBits ELSE j.x % 2^size
      y == IF wide THEN j.y % 2^WBits ELSE j.y % 2^size
      sx == Signed(x, IF wide THEN WBits ELSE size)
      sy == Signed(y, IF wide THEN WBits ELSE size)
      exact == IF j.e.op31 \in {1, 2} THEN sx * sy ELSE x * y
  IN  IF j.e.op31 \in {2, 6} THEN (exact \div 2^size) % (2^size)
      ELSE ((j.z % (2^size)) + (IF j.e.o0 = 1 THEN -exact ELSE exact)) % (2^size)

\* Encodings nobody may use.
IsReserved(j, size) ==
  LET e == j.e
      narrow(imm) == e.sf = 0 /\ imm >= WBits
  IN  CASE j.kind = "add/sub immediate" -> e.shift > 1
        [] j.kind = "logical immediate" ->
             \/ e.sf = 0 /\ e.N = 1
             \/ ~HasElement(e)
             \/ (e.imms + 1) % (2^Element(e)) = 0
        [] j.kind = "move wide" -> e.opc = 1 \/ e.hw * (XBits \div 4) >= size
        [] j.kind = "bitfield" -> e.opc = 3 \/ e.N # e.sf \/ narrow(e.imms) \/ narrow(e.immr)
        [] j.kind = "extract" -> e.N # e.sf \/ narrow(e.imms)
        [] j.kind = "logical shifted" -> narrow(e.imm6)
        [] j.kind = "add/sub shifted" -> e.shift = 3 \/ narrow(e.imm6)
        [] j.kind = "add/sub extended" -> e.imm3 > 4
        [] j.kind = "select" -> e.op2 > 1
        [] j.kind = "one source" -> e.opcode > 5 \/ (e.sf = 0 /\ e.opcode = 3)
        [] j.kind = "two sources" -> e.opcode \notin {2, 3, 8, 9, 10, 11}
        [] j.kind = "multiply" -> \/ e.op31 \in {3, 4, 7}
                                  \/ e.o0 = 1 /\ e.op31 \in {2, 6}
                                  \/ e.sf = 0 /\ e.op31 # 0
        [] OTHER -> FALSE

\* Register 31 as an operand or as a destination is the stack pointer or zero.
First(j, size) == IF j.e.n = 31 THEN Start(j).sp[1] % (2^size) ELSE j.x % (2^size)

Meaning(j, size, got) ==
  LET e == j.e
      x == j.x % (2^size)
      y == j.y % (2^size)
      old == j.old % (2^size)
  IN  CASE j.kind = "address" ->
             LET offset == Signed(e.imm, AdrBits)
             IN  Result(((IF e.page = 1 THEN (Place - (Place % 2^AdrPageBits)) + offset * 2^AdrPageBits ELSE Place + offset)) % (2^XBits))
        [] j.kind = "add/sub immediate" -> Sum(First(j, size), e.imm * (IF e.shift = 1 THEN 2^ByteBits ELSE 1), e.sub, e.sub, e.setflags, size)
        [] j.kind = "add/sub shifted" -> Sum(x, Shifted(y, e.shift, e.imm6, size), e.sub, e.sub, e.setflags, size)
        [] j.kind = "add/sub extended" -> Sum(First(j, size), Extended(y, e.option, e.imm3, size), e.sub, e.sub, e.setflags, size)
        [] j.kind = "with carry" -> Sum(x, y, BitAt(j.nzcv, 1), e.sub, e.setflags, size)
        [] j.kind = "logical immediate" -> LogicalResult(e.opc, BitsOf(x, size), Pattern(e, size), size)
        [] j.kind = "logical shifted" ->
             LET right == BitsOf(Shifted(y, e.shift, e.imm6, size), size)
             IN  LogicalResult(e.opc, BitsOf(x, size), IF e.N = 1 THEN (0..(size - 1)) \ right ELSE right, size)
        [] j.kind = "move wide" ->
             LET slice == {k \in 0..(size - 1) : k \div (XBits \div 4) = e.hw}
                 bits == {k \in slice : BitAt(e.imm, k % (XBits \div 4)) = 1}
             IN  Result(FromOnes(CASE e.opc = 0 -> (0..(size - 1)) \ bits [] e.opc = 2 -> bits
                                   [] e.opc = 3 -> bits \cup (BitsOf(old, size) \ slice), size))
        [] j.kind = "bitfield" -> Result(FromOnes(MovedField(e, BitsOf(x, size), BitsOf(old, size), size), size))
        [] j.kind = "extract" -> Result(((y \div 2^e.imms) + (x % (2^e.imms)) * 2^(size - e.imms)) % (2^size))
        [] j.kind = "select" ->
             Result(IF Passed(j) THEN x
                    ELSE ((IF e.o = 1 THEN 2^size - 1 - y ELSE y) + (IF e.op2 = 1 THEN 1 ELSE 0)) % (2^size))
        [] j.kind = "compare" ->
             [value |-> -1, nzcv |-> IF Passed(j) THEN Sum(x, IF e.immediate THEN e.operand ELSE y, e.sub, e.sub, 1, size).nzcv ELSE e.nzcv]
        [] j.kind = "one source" ->
             LET bits == BitsOf(x, size)
                 container == IF e.opcode = 3 \/ (e.opcode = 2 /\ e.sf = 0) THEN size ELSE 2^e.opcode * ByteBits
             IN  Result(CASE e.opcode = 0 -> FromOnes({k \in 0..(size - 1) : size - 1 - k \in bits}, size)
                          [] e.opcode \in 1..3 -> FromOnes(Mirrored(bits, ByteBits, container, size), size)
                          [] e.opcode = 4 -> Leading(bits, size, FALSE)
                          [] e.opcode = 5 -> Leading(bits, size, size - 1 \in bits) - 1)
        [] j.kind = "two sources" ->
             Result(CASE e.opcode = 2 -> IF IsQuotient(x, y, got, size) THEN got ELSE -2
                      [] e.opcode = 3 -> IF IsQuotient(Signed(x, size), Signed(y, size), Signed(got, size), size) THEN got ELSE -2
                      [] OTHER -> Shifted(x, e.opcode - 8, y % size, size))
        [] j.kind = "multiply" -> Result(Product(j, size, got))

\* Nothing else of the core changes; the upper half of a narrow result is zero.
ToStack(j) == j.kind \in {"add/sub immediate", "add/sub extended"} /\ j.e.d = 31 /\ j.e.setflags = 0
Expected(j, m) ==
  LET flagged == IF m.nzcv = -1 THEN Start(j) ELSE SetNzcv(Start(j), m.nzcv)
  IN  CASE ToStack(j) -> [flagged EXCEPT !.sp[1] = m.value]
        [] ~ToStack(j) /\ (m.value = -1 \/ j.e.d = 31) -> flagged
        [] OTHER -> [flagged EXCEPT !.x[0] = m.value]

\* Every encoding of the data-processing groups does to registers and flags what the
\* instruction means, or is refused when it is reserved (opcodes/decoders/data_processing_*.py,
\* opcodes/concrete, opcodes/abstract_opcodes).
EncodingsMean ==
  done # <<>> =>
    LET size == DataSize(job.e)
    IN  /\ (Len(done) = 1) = IsReserved(job, size)
        /\ Len(done) = 2 => done[1] = Expected(job, Meaning(job, size, done[1].x[0]))

-----------------------------------------------------------------------------
(* BOUND: the jobs                                                         *)

Edges == {0, 1, 128, 32767, 65535}
Wider == Edges \cup {127, 255, 256, 32768}
Immediate(op0) == [half |-> "immediate", op0 |-> op0]
Register(bit28, class) == [half |-> "register", bit28 |-> bit28, class |-> class, bit30 |-> 0, d |-> 0, n |-> 1, m |-> 2]
Bit == {0, 1}
Job(kind, e, x, y, z, old, nzcv) == [kind |-> kind, e |-> e, x |-> x, y |-> y, z |-> z, old |-> old, nzcv |-> nzcv]

AddressJobs ==
  {Job("address", [sf |-> 1, page |-> page, imm |-> imm, d |-> 0] @@ Immediate(half), 0, 0, 0, 7, 0) :
     page \in Bit, imm \in {0, 1, 15, 16, 31}, half \in Bit}
AddImmediateJobs ==
  {Job("add/sub immediate",
       [sf |-> sf, shift |-> shift, setflags |-> flags, sub |-> sub, imm |-> imm, d |-> r[1], n |-> r[2]] @@ Immediate(2),
       x, 0, 0, 7, 0) :
     sf \in Bit, shift \in 0..2, flags \in Bit, sub \in Bit, imm \in {0, 3}, r \in {<<0, 1>>, <<31, 31>>, <<0, 31>>, <<31, 1>>},
     x \in Edges}
AddShiftedJobs ==
  {Job("add/sub shifted",
       [sf |-> sf, shift |-> shift, setflags |-> 1, sub |-> sub, imm6 |-> imm] @@ Register(0, 8), x, y, 0, 7, 0) :
     sf \in Bit, shift \in 0..3, sub \in Bit, imm \in {0, 1, 7, 8, 15}, x \in {0, 128, 65535}, y \in Edges}
AddExtendedJobs ==
  {Job("add/sub extended",
       [Register(0, 9) EXCEPT !.d = d, !.n = n] @@
         [sf |-> sf, option |-> option, setflags |-> flags, sub |-> 0, imm3 |-> imm],
       1, y, 0, 7, 0) :
     sf \in Bit, option \in 0..7, flags \in Bit, imm \in {0, 2, 4, 5}, d \in {0, 31}, n \in {1, 31}, y \in {42, 65535}}
CarryJobs ==
  {Job("with carry", [sf |-> sf, setflags |-> 1, sub |-> sub] @@ Register(1, 0), x, y, 0, 7, nzcv) :
     sf \in Bit, sub \in Bit, nzcv \in {13, 2}, x \in Wider, y \in Wider}
LogicalImmediateJobs ==
  {Job("logical immediate", [sf |-> sf, opc |-> opc, N |-> N, imms |-> imms, immr |-> immr, d |-> 0, n |-> 1] @@ Immediate(4),
       51795, 0, 0, 7, 3) :
     sf \in Bit, opc \in {0, 3}, N \in Bit, imms \in 0..(XBits - 1), immr \in 0..(XBits - 1)}
LogicalShiftedJobs ==
  {Job("logical shifted", [sf |-> sf, opc |-> opc, N |-> N, shift |-> shift, imm6 |-> imm] @@ Register(0, 7), 51795, y, 0, 7, 3) :
     sf \in Bit, opc \in 0..3, N \in Bit, shift \in 0..3, imm \in {0, 3, 8, 15}, y \in {170, 62336}}
MoveWideJobs ==
  {Job("move wide", [sf |-> sf, opc |-> opc, hw |-> hw, imm |-> imm, d |-> 0] @@ Immediate(5), 0, 0, 0, 51795, 0) :
     sf \in Bit, opc \in 0..3, hw \in 0..3, imm \in {0, 9, 15}}
BitfieldJobs ==
  {Job("bitfield", [sf |-> sf, opc |-> opc, N |-> N, imms |-> imms, immr |-> immr, d |-> 0, n |-> 1] @@ Immediate(6),
       51795, 0, 0, 43690, 0) :
     sf \in Bit, opc \in 0..3, N \in Bit, imms \in 0..(XBits - 1), immr \in 0..(XBits - 1)}
ExtractJobs ==
  {Job("extract", [sf |-> sf, N |-> N, imms |-> imms, d |-> 0, n |-> 1, m |-> 2] @@ Immediate(7), 51795, y, 0, 7, 0) :
     sf \in Bit, N \in Bit, imms \in 0..(XBits - 1), y \in {1, 43690}}
SelectJobs ==
  {Job("select", [sf |-> 1, o |-> o, op2 |-> op2, cond |-> cond] @@ Register(1, 4), 5, 65535, 0, 7, nzcv) :
     o \in Bit, op2 \in 0..2, cond \in 0..15, nzcv \in 0..15}
CompareJobs ==
  {Job("compare", [sf |-> 0, immediate |-> immediate, operand |-> IF immediate THEN 3 ELSE 2, cond |-> cond, sub |-> sub, nzcv |-> 5]
         @@ Register(1, 2), 128, y, 0, 7, nzcv) :
     immediate \in BOOLEAN, cond \in {0, 1, 10, 14}, sub \in Bit, y \in {128, 255}, nzcv \in {0, 4, 9}}
OneSourceJobs ==
  {Job("one source", [sf |-> sf, opcode |-> opcode] @@ [Register(1, 6) EXCEPT !.bit30 = 1], x, 0, 0, 7, 0) :
     sf \in Bit, opcode \in 0..6, x \in Wider \cup {51795, 52}}
TwoSourceJobs ==
  {Job("two sources", [sf |-> sf, opcode |-> opcode] @@ Register(1, 6), x, y, 0, 7, 0) :
     sf \in Bit, opcode \in {1, 2, 3, 8, 9, 10, 11, 12}, x \in Wider, y \in Edges \cup {3, 253}}
\* BOUND: one factor below 2^15, so that products stay within TLC's integers.
MultiplyJobs ==
  {Job("multiply", [sf |-> sf, op31 |-> op31, o0 |-> o0, a |-> 3] @@ Register(1, 8), x, y, z, 7, 0) :
     sf \in Bit, op31 \in 0..7, o0 \in Bit, x \in Wider, y \in Edges \ {65535}, z \in {0, 65535}}

Jobs == AddressJobs \cup AddImmediateJobs \cup AddShiftedJobs \cup AddExtendedJobs \cup CarryJobs
          \cup LogicalImmediateJobs \cup LogicalShiftedJobs \cup MoveWideJobs \cup BitfieldJobs \cup ExtractJobs
          \cup SelectJobs \cup CompareJobs \cup OneSourceJobs \cup TwoSourceJobs \cup MultiplyJobs

avars == <<job, done>>
ArithmeticInit == job \in Jobs /\ done = <<>>
ArithmeticNext == done = <<>> /\ done' = DecodeAndExecute(job) /\ UNCHANGED job
ArithmeticSpec == ArithmeticInit /\ [][ArithmeticNext]_avars
=============================================================================
