----------------------------- MODULE A64Transfers -----------------------------
(***************************************************************************)
(* The bench for the A64 loads and stores: a job is an encoding, a base    *)
(* address and how the core is set up.  What a load or store means is said *)
(* here as pieces: which bytes of memory are which bytes of a register.    *)
(***************************************************************************)
EXTENDS A64LoadStore

VARIABLES job, done   \* done: <<>> at first, then <<the core afterwards>> or <<"refused", "">>

Here == 16        \* where the instruction is
Vs == {0, 1, 2, 30, 31}                        \* the vector registers there are
Words == {0, 8, 16, 24, 32, 40, 48, 56, 64}   \* the doublewords there are
Size == 72
Byte(a) == (a * 7 + a \div 4 + a \div 16) % 4   \* what memory holds at first
WordAt(a) ==
  LET word[n \in 0..8] == IF n = 0 THEN 0 ELSE word[n - 1] + Byte(a + n - 1) * 4^(n - 1) IN word[8]

\* X0 and X2 are moved, X1 or SP is the base, X3 the index; the reservation is of X1's block.
Start(j) ==
  [x |-> [r \in Xs |-> CASE r = 0 -> 45926 [] r = 1 -> j.base [] r = 2 -> 7069 [] r = 3 -> j.index [] OTHER -> 5],
   v |-> [r \in Vs |-> <<(r * 1000 + 27) % 65536, (50000 + r * 777) % 65536>>],
   sp |-> [el \in EL |-> j.base], pc |-> Here, branched |-> FALSE, raised |-> Nothing, psr |-> [Psr(1, 1) EXCEPT !.el = j.el],
   sys |-> (<<"sctlr", 1>> :> j.sctlr) @@ (<<"far", 1>> :> 0) @@ (<<"cpacr", 1>> :> 1),
   tlb |-> <<>>, mem |-> [a \in Words |-> WordAt(a)], buffer |-> <<>>, idle |-> 0, buffering |-> j.buffering,
   reserved |-> IF j.reserved THEN Block(j.base) ELSE NoBlock, faults |-> TRUE, stale |-> FALSE, strayed |-> FALSE, crashed |-> FALSE]

DecodeAndMove(j) ==
  LET i == DecodeLoadStore(j.e) IN IF i = Refused THEN <<"refused", "">> ELSE <<Move(Start(j), i)>>

-----------------------------------------------------------------------------
(* What the instructions mean *)

E(j) == j.e
ElementSize(e) ==
  CASE e.simd = 1 /\ e.family = 7 -> 2^(IF e.opc >= 2 THEN e.size + 4 ELSE e.size)
    [] e.simd = 1 /\ e.family \in {3, 5} -> 4 * 2^e.opc
    [] e.simd = 1 /\ e.family = 1 -> 2^e.size
    [] e.simd = 0 /\ e.family = 5 -> IF e.opc = 2 THEN 8 ELSE 4
    [] e.simd = 0 /\ e.family = 3 -> IF e.opc = 1 THEN 8 ELSE 4
    [] e.simd = 0 /\ e.family \in {1, 7} -> 2^e.size
IsLoad(e) ==
  CASE e.family = 7 /\ e.simd = 0 -> e.opc = 1 \/ (e.opc >= 2 /\ e.size # 3)
    [] e.family = 7 /\ e.simd = 1 -> e.opc % 2 = 1
    [] e.family = 3 -> TRUE
    [] e.family \in {1, 5} -> e.load = 1
IsPrefetch(e) == e.simd = 0 /\ ((e.family = 7 /\ e.size = 3 /\ e.opc = 2) \/ (e.family = 3 /\ e.opc = 3))
\* The load extends the sign: into a word, or into a doubleword.
Extends32(e) == e.simd = 0 /\ e.family = 7 /\ e.opc = 3
Extends64(e) == e.simd = 0 /\ ((e.family = 7 /\ e.opc = 2) \/ (e.family = 5 /\ e.opc = 1) \/ (e.family = 3 /\ e.opc = 2))

Scaled(e) == CASE e.family = 7 /\ e.bit24 = 1 -> e.imm * ElementSize(e) [] e.family = 5 -> e.simm * ElementSize(e) [] OTHER -> e.simm
PostIndexed(e) == (e.family = 7 /\ e.bit24 = 0 /\ e.bit21 = 0 /\ e.op4 = 1) \/ (e.family = 5 /\ e.idx = 1)
PreIndexed(e) == (e.family = 7 /\ e.bit24 = 0 /\ e.bit21 = 0 /\ e.op4 = 3) \/ (e.family = 5 /\ e.idx = 3)
HasIndex(e) == e.family = 7 /\ e.bit24 = 0 /\ e.bit21 = 1
\* A word is extended with zeros or with its sign; a doubleword is taken as it is.
SignOf(v, size) == IF v >= 2^(size - 1) THEN v - 2^size ELSE v
IndexValue(j) ==
  LET e == j.e
      word == j.index % 2^WBits
  IN  (CASE e.option = 2 -> word [] e.option = 6 -> SignOf(word, WBits) [] OTHER -> j.index)
        * (IF e.scaled = 1 THEN ElementSize(e) ELSE 1)
Place(j) ==
  CASE j.e.family = 3 -> Here + j.e.simm
    [] HasIndex(j.e) -> (j.base + IndexValue(j)) % 2^XBits
    [] j.e.family = 1 \/ PostIndexed(j.e) -> j.base
    [] OTHER -> (j.base + Scaled(j.e)) % 2^XBits

\* size bytes of memory from at on are the bytes of a register from offset on.
\* With the MMU off an address is cut to the physical ones.
Piece(at, size, bank, register, offset) == [at |-> at % 2^PhysicalBits, size |-> size, bank |-> bank, register |-> register, offset |-> offset]
Members(e) == CASE e.opcode = 0 -> 4 [] e.opcode = 4 -> 3 [] e.opcode = 8 -> 2 [] OTHER -> 1
Registers(e) == CASE e.opcode \in {0, 2} -> 4 [] e.opcode \in {4, 6} -> 3 [] e.opcode \in {8, 10} -> 2 [] e.opcode = 7 -> 1
StructurePieces(j) ==
  LET e == j.e
      size == 2^e.size
      lanes == (IF e.q = 1 THEN 16 ELSE 8) \div size
      place(r, lane) ==   \* structure after structure, or register after register
        IF Members(e) = 1 THEN r * lanes + lane ELSE lane * Members(e) + r
  IN  {Piece(j.base + place(r, lane) * size, size, "v", (e.t + r) % 32, lane * size) : r \in 0..(Registers(e) - 1), lane \in 0..(lanes - 1)}
HasTwo(e) == e.family = 5 \/ (e.family = 1 /\ e.simd = 0 /\ e.pair = 1)
PlainPieces(j) ==
  LET e == j.e
      size == ElementSize(e)
      bank == IF e.simd = 1 THEN "v" ELSE "x"
      \* A vector register moves in doublewords.
      unit == IF size > 8 THEN 8 ELSE size
      of(register, first) == {Piece(Place(j) + first + k * unit, unit, bank, register, k * unit) : k \in 0..((size \div unit) - 1)}
  IN  of(e.t, 0) \cup (IF HasTwo(e) THEN of(e.t2, size) ELSE {})
Pieces(j) ==
  IF IsPrefetch(j.e) THEN {}
  ELSE IF j.e.simd = 1 /\ j.e.family = 1 THEN StructurePieces(j) ELSE PlainPieces(j)

\* Byte k of a piece is byte BytePlace of the register; the other way round in a big-endian core.
Backwards(j) == BitAt(j.sctlr, IF j.el = 0 THEN 4 ELSE 5) = 1
BytePlace(j, p, k) == p.offset + (IF Backwards(j) THEN p.size - 1 - k ELSE k)
RegisterByte(s, bank, register, k) ==
  IF bank = "x" THEN IF register = 31 THEN 0 ELSE (s.x[register] \div 4^k) % 4
  ELSE (s.v[register][(k \div 8) + 1] \div 4^(k % 8)) % 4

StoredByte(j, a) ==
  LET covering == {p \in Pieces(j) : a \in p.at..(p.at + p.size - 1)}
  IN  IF covering = {} THEN Byte(a)
      ELSE LET p == CHOOSE q \in covering : TRUE IN RegisterByte(Start(j), p.bank, p.register, BytePlace(j, p, a - p.at))
LoadedByte(j, bank, register, k) ==
  IF \E p \in Pieces(j) : p.bank = bank /\ p.register = register /\ \E b \in 0..(p.size - 1) : BytePlace(j, p, b) = k
  THEN LET p == CHOOSE q \in Pieces(j) : q.bank = bank /\ q.register = register /\ \E b \in 0..(q.size - 1) : BytePlace(j, q, b) = k
           b == CHOOSE m \in 0..(p.size - 1) : BytePlace(j, p, m) = k
       IN  Byte(p.at + b)
  ELSE 0
ValueOf(j, bank, register, first) ==
  LET sum[n \in 0..8] == IF n = 0 THEN 0 ELSE sum[n - 1] + LoadedByte(j, bank, register, first + n - 1) * 4^(n - 1) IN sum[8]
Extended(j, value) ==
  LET bits == 2 * ElementSize(j.e)
  IN  IF Extends64(j.e) THEN SignOf(value, bits) % 2^XBits
      ELSE IF Extends32(j.e) THEN SignOf(value, bits) % 2^WBits ELSE value

\* A store with a reservation that is gone stores nothing and says so.
IsExclusive(e) == e.simd = 0 /\ e.family = 1 /\ e.o2 = 0
Fails(j) == IsExclusive(j.e) /\ j.e.load = 0 /\ ~j.reserved

Step(e) == IF e.family = 1 THEN 0 ELSE Scaled(e)
NewBase(j) ==
  CASE PreIndexed(j.e) \/ PostIndexed(j.e) -> (j.base + Step(j.e)) % 2^XBits
    [] j.e.simd = 1 /\ j.e.family = 1 /\ j.e.post = 1 ->
         j.base + (IF j.e.m = 31 THEN Registers(j.e) * (IF j.e.q = 1 THEN 16 ELSE 8) ELSE j.index)
    [] OTHER -> j.base
TakesLoad(j, bank, r) == IsLoad(j.e) /\ ~IsPrefetch(j.e) /\ \E p \in Pieces(j) : p.bank = bank /\ p.register = r
ExpectedX(j, r) ==
  CASE TakesLoad(j, "x", r) -> Extended(j, ValueOf(j, "x", r, 0))
    [] IsExclusive(j.e) /\ j.e.load = 0 /\ r = j.e.s -> IF Fails(j) THEN 1 ELSE 0
    [] r = 1 /\ j.e.family # 3 /\ j.e.n = 1 -> NewBase(j)
    [] OTHER -> Start(j).x[r]
ExpectedSp(j) == IF j.e.family # 3 /\ j.e.n = 31 THEN NewBase(j) ELSE j.base

IsReserved(e) ==
  CASE e.simd = 0 /\ e.family = 7 ->
         \/ e.opc = 3 /\ e.size >= 2
         \/ HasIndex(e) /\ (e.op4 # 2 \/ e.option \in {0, 1, 4, 5})
         \/ IsLoad(e) /\ (PreIndexed(e) \/ PostIndexed(e)) /\ e.n = e.t /\ e.n # 31
    [] e.simd = 1 /\ e.family = 7 ->
         \/ e.opc >= 2 /\ e.size # 0
         \/ HasIndex(e) /\ (e.op4 # 2 \/ e.option \in {0, 1, 4, 5})
         \/ e.bit24 = 0 /\ e.bit21 = 0 /\ e.op4 = 2
    [] e.simd = 0 /\ e.family = 5 ->
         \/ e.opc = 3 \/ (e.opc = 1 /\ e.load = 0)
         \/ e.load = 1 /\ (e.t = e.t2 \/ (e.idx % 2 = 1 /\ e.n # 31 /\ e.n \in {e.t, e.t2}))
    [] e.simd = 1 /\ e.family \in {3, 5} -> e.opc = 3
    [] e.simd = 0 /\ e.family = 3 -> FALSE
    [] e.simd = 0 /\ e.family = 1 -> e.pair = 1 /\ (e.o2 = 1 \/ e.size < 2)
    [] e.simd = 1 /\ e.family = 1 ->
         \/ e.opcode \notin {0, 2, 4, 6, 7, 8, 10} \/ (e.post = 0 /\ e.m # 0)
         \/ e.size = 3 /\ e.q = 0 /\ Members(e) > 1

\* What ends an instruction early: a trap, a stack out of line, a piece nobody claims or
\* that is not aligned where that is asked for.
Trapped(j) == j.e.simd = 1 /\ j.el = 0
StackWrong(j) == j.e.family # 3 /\ j.e.n = 31 /\ BitAt(j.sctlr, 3) = 1 /\ j.base % 16 # 0
BadPiece(j, p) == (BitAt(j.sctlr, 1) = 1 /\ p.at % p.size # 0) \/ p.at \div 8 \notin 0..8
Ended(j) ==
  CASE Trapped(j) -> "fp access"
    [] ~Trapped(j) /\ StackWrong(j) -> "sp alignment"
    [] ~Trapped(j) /\ ~StackWrong(j) /\ ~Fails(j) /\ \E p \in Pieces(j) : BadPiece(j, p) -> "data abort"
    [] OTHER -> "none"

OwnByte(s, a) == Forwarded(s.buffer, a, ByteOf(s.mem, a), 0)

\* A load or store moves exactly the bytes it names, in the byte order of its level, extends
\* what it loads as it says and moves its base; one that ends early leaves the base, and
\* except for what an exclusive pair or a structure had already loaded every register, as
\* it was, so that it can be taken again (opcodes/concrete/loads_and_stores.py,
\* opcodes/abstract_opcodes/load_store_*.py).
TransfersMean ==
  done # <<>> =>
    /\ (Len(done) = 2) = IsReserved(job.e)
    /\ Len(done) = 1 =>
         LET s == done[1]
             ended == Ended(job)
         IN  /\ s.raised.type = ended
             /\ ended # "none" =>
                  /\ s.sp = Start(job).sp /\ s.x[1] = Start(job).x[1]
                  /\ job.e.family # 1 => s.x = Start(job).x
             /\ ended = "none" =>
                  /\ \A r \in Xs : s.x[r] = ExpectedX(job, r)
                  /\ s.sp[job.el] = ExpectedSp(job)
                  /\ \A r \in Vs :
                       s.v[r] = IF TakesLoad(job, "v", r) THEN <<ValueOf(job, "v", r, 0), ValueOf(job, "v", r, 8)>> ELSE Start(job).v[r]
                  /\ \A a \in 0..(Size - 1) : OwnByte(s, a) = IF IsLoad(job.e) \/ Fails(job) THEN Byte(a) ELSE StoredByte(job, a)

-----------------------------------------------------------------------------
(* BOUND: the jobs.  sctlr: alignment 1, stack alignment 3, E0E 4, EE 5.   *)

Bit == {0, 1}
Registered(family, simd) == [family |-> family, simd |-> simd, n |-> 1, t |-> 0, bit24 |-> 0, bit21 |-> 0, op4 |-> 0]
Setup(base, sctlr, buffering) ==
  [base |-> base, index |-> 0, sctlr |-> sctlr, el |-> 1, buffering |-> buffering, reserved |-> FALSE]
Job(e, setup) == [e |-> e] @@ setup

UnsignedJobs ==
  {Job([Registered(7, simd) EXCEPT !.bit24 = 1, !.t = t] @@ [size |-> size, opc |-> opc, imm |-> imm], Setup(base, sctlr, b)) :
     simd \in Bit, t \in {0, 31}, size \in 0..3, opc \in 0..3, imm \in {0, 1}, base \in {16, 19, 64}, sctlr \in {0, 2, 32}, b \in BOOLEAN}
IndexedJobs ==
  {Job([Registered(7, simd) EXCEPT !.op4 = op4, !.n = n, !.t = t] @@ [size |-> size, opc |-> opc, simm |-> simm],
       Setup(base, 8, TRUE)) :
     simd \in Bit, op4 \in 0..3, n \in {1, 31}, t \in {0, 1}, size \in 0..3, opc \in 0..3, simm \in {-3, 8}, base \in {32, 40, 75}}
OffsetJobs ==
  {Job([Registered(7, simd) EXCEPT !.bit21 = 1, !.op4 = op4] @@ [size |-> size, opc |-> opc, m |-> 3, option |-> option, scaled |-> scaled],
       [Setup(32, 0, FALSE) EXCEPT !.index = index]) :
     simd \in Bit, op4 \in {2, 3}, size \in 0..3, opc \in 0..3, option \in 0..7, scaled \in Bit, index \in {1, 254, 65534}}
\* A pair of one register is left to the decoder of the general ones.
PairJobs ==
  {Job([Registered(5, 0) EXCEPT !.n = n, !.t = t] @@ [opc |-> opc, load |-> load, idx |-> idx, t2 |-> 2, simm |-> simm],
       Setup(base, sctlr, b)) :
     n \in {1, 31}, t \in {0, 1, 2}, opc \in 0..3, load \in Bit, idx \in 0..3, simm \in {-1, 1}, base \in {32, 36, 56},
     sctlr \in {0, 10}, b \in BOOLEAN}
  \cup
  {Job([Registered(5, 1) EXCEPT !.n = n] @@ [opc |-> opc, load |-> load, idx |-> idx, t2 |-> 2, simm |-> simm],
       Setup(base, sctlr, b)) :
     n \in {1, 31}, opc \in 0..3, load \in Bit, idx \in 0..3, simm \in {-1, 1}, base \in {32, 36}, sctlr \in {0, 10}, b \in BOOLEAN}
LiteralJobs ==
  {Job([Registered(3, simd) EXCEPT !.t = t] @@ [opc |-> opc, simm |-> simm], Setup(0, sctlr, FALSE)) :
     simd \in Bit, t \in {0, 31}, opc \in 0..3, simm \in {-4, 2, 48}, sctlr \in {0, 2}}
ExclusiveJobs ==
  {Job([Registered(1, 0) EXCEPT !.n = n] @@ [size |-> size, o2 |-> o2, load |-> load, pair |-> pair, t2 |-> 2, s |-> 3],
       [Setup(base, 10, b) EXCEPT !.reserved = reserved]) :
     n \in {1, 31}, size \in 0..3, o2 \in Bit, load \in Bit, pair \in Bit, base \in {32, 34, 64}, reserved \in BOOLEAN, b \in BOOLEAN}
StructureJobs ==
  {Job([Registered(1, 1) EXCEPT !.t = 30] @@ [opcode |-> opcode, size |-> size, q |-> q, post |-> post, m |-> m, load |-> load],
       [Setup(base, 0, FALSE) EXCEPT !.index = 5]) :
     opcode \in {0, 1, 2, 4, 6, 7, 8, 10}, size \in 0..3, q \in Bit, post \in Bit, m \in {3, 31}, load \in Bit, base \in {0, 24}}
  \cup {Job([Registered(1, 1) EXCEPT !.t = 30] @@ [opcode |-> 8, size |-> size, q |-> q, post |-> 0, m |-> 0, load |-> load],
            [Setup(8, 0, TRUE) EXCEPT !.el = el]) : size \in 0..3, q \in Bit, load \in Bit, el \in {0, 1}}

MoveJobs == UnsignedJobs \cup IndexedJobs \cup OffsetJobs \cup PairJobs \cup LiteralJobs \cup ExclusiveJobs \cup StructureJobs

tvars == <<job, done>>
TransfersInit == job \in MoveJobs /\ done = <<>>
TransfersNext == done = <<>> /\ done' = DecodeAndMove(job) /\ UNCHANGED job
TransfersSpec == TransfersInit /\ [][TransfersNext]_tvars
=============================================================================
