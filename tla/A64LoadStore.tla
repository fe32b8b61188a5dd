---------------------------- MODULE A64LoadStore ----------------------------
(***************************************************************************)
(* The A64 loads and stores: how they are decoded, from the fields of the  *)
(* encoding i, and what they do to the core s.  A vector register is a     *)
(* pair of doublewords.                                                    *)
(***************************************************************************)
EXTENDS A64Memory

Refused == [op |-> "undefined"]
Unless(reserved, opcode) == IF reserved THEN Refused ELSE opcode
Extending == <<"B", "H", "W", "X">>

-----------------------------------------------------------------------------
(* Decoding: general registers *)

Bytes(size) == 2^size

\* LDRSW into 32 bits and a sign-extending load of 64 are reserved.
ReservedSize(size, opc) == opc = 3 /\ size >= 2
DecodeSizeOpc(size, opc) ==
  IF opc < 2 THEN [memop |-> IF opc = 1 THEN "load" ELSE "store", signed |-> FALSE, regsize |-> IF size = 3 THEN XBits ELSE WBits]
  ELSE IF size = 3 THEN [memop |-> "prefetch", signed |-> FALSE, regsize |-> XBits]
  ELSE [memop |-> "load", signed |-> TRUE, regsize |-> IF opc = 3 THEN WBits ELSE XBits]
Sized(i) == DecodeSizeOpc(i.size, i.opc) @@ [t |-> i.t, n |-> i.n, bytes |-> Bytes(i.size)]

LoadStoreUnsignedOffset(i) ==
  Unless(ReservedSize(i.size, i.opc),
    Sized(i) @@ [op |-> "transfer", offset |-> i.imm * Bytes(i.size), wback |-> FALSE, postindex |-> FALSE])

\* op4: unscaled, post-indexed, unprivileged (which is not told apart), pre-indexed.
LoadStoreIndexed(i) ==
  Unless(ReservedSize(i.size, i.opc)
           \/ (i.op4 \in {1, 3} /\ i.n # ZR /\ i.n = i.t /\ DecodeSizeOpc(i.size, i.opc).memop = "load"),
    Sized(i) @@ [op |-> "transfer", offset |-> i.simm, wback |-> i.op4 \in {1, 3}, postindex |-> i.op4 = 1])

\* An index is extended from a word or taken whole, and may count elements.
LoadStoreRegisterOffset(i) ==
  Unless(ReservedSize(i.size, i.opc) \/ BitAt(i.option, 1) = 0,
    Sized(i) @@ [op |-> "indexed", wback |-> FALSE, m |-> i.m, type |-> Extending[(i.option % 4) + 1], unsigned |-> i.option < 4,
                 shift |-> IF i.scaled = 1 THEN i.size ELSE 0])

\* idx: non-temporal, post-indexed, plain, pre-indexed.
LoadStorePair(i) ==
  LET scale == IF i.opc = 2 THEN 3 ELSE 2
      wback == i.idx \in {1, 3}
  IN  Unless(\/ i.opc = 3
             \/ i.opc = 1 /\ i.load = 0
             \/ i.load = 1 /\ i.t = i.t2
             \/ i.load = 1 /\ wback /\ i.n # ZR /\ i.n \in {i.t, i.t2},
        [op |-> "pair", t |-> i.t, t2 |-> i.t2, n |-> i.n, offset |-> i.simm * Bytes(scale), load |-> i.load = 1,
         signed |-> i.opc = 1, bytes |-> Bytes(scale), wback |-> wback, postindex |-> i.idx = 1])

LoadLiteral(i) ==
  [op |-> "literal", t |-> i.t, offset |-> i.simm, signed |-> i.opc = 2, bytes |-> IF i.opc \in {0, 2} THEN 4 ELSE 8,
   prefetch |-> i.opc = 3]

\* o2: ordered, without a reservation.
LoadStoreExclusive(i) ==
  Unless(i.pair = 1 /\ (i.o2 = 1 \/ i.size < 2),
    [op |-> "exclusive", t |-> i.t, t2 |-> i.t2, n |-> i.n, s |-> i.s, load |-> i.load = 1, bytes |-> Bytes(i.size),
     pair |-> i.pair = 1, exclusive |-> i.o2 = 0])

-----------------------------------------------------------------------------
(* Decoding: vector registers, up to two doublewords wide *)

FpScale(i) == BitAt(i.opc, 1) * 4 + i.size
FpSized(i) ==
  [op |-> "fp", t |-> i.t, n |-> i.n, load |-> BitAt(i.opc, 0) = 1, bytes |-> Bytes(FpScale(i)), pair |-> FALSE, t2 |-> 0]
LoadStoreFpUnsignedOffset(i) ==
  Unless(FpScale(i) > 4,
    FpSized(i) @@ [form |-> "imm", offset |-> i.imm * Bytes(FpScale(i)), wback |-> FALSE, postindex |-> FALSE])
LoadStoreFpIndexed(i) ==
  Unless(FpScale(i) > 4 \/ i.op4 = 2,
    FpSized(i) @@ [form |-> "imm", offset |-> i.simm, wback |-> i.op4 \in {1, 3}, postindex |-> i.op4 = 1])
LoadStoreFpRegisterOffset(i) ==
  Unless(FpScale(i) > 4 \/ BitAt(i.option, 1) = 0,
    FpSized(i) @@ [form |-> "register", m |-> i.m, type |-> Extending[(i.option % 4) + 1], unsigned |-> i.option < 4,
                   shift |-> IF i.scaled = 1 THEN FpScale(i) ELSE 0, wback |-> FALSE, postindex |-> FALSE])
LoadStoreFpPair(i) ==
  Unless(i.opc = 3,
    [op |-> "fp", form |-> "imm", t |-> i.t, t2 |-> i.t2, n |-> i.n, load |-> i.load = 1, bytes |-> Bytes(2 + i.opc), pair |-> TRUE,
     offset |-> i.simm * Bytes(2 + i.opc), wback |-> i.idx \in {1, 3}, postindex |-> i.idx = 1])
LoadFpLiteral(i) ==
  Unless(i.opc = 3, [op |-> "fp literal", t |-> i.t, offset |-> i.simm, bytes |-> Bytes(2 + i.opc)])

\* opcode -> how often the pattern repeats, and the members of a structure.
StructureShape ==
  [opcode \in {0, 2, 4, 6, 7, 8, 10} |->
     CASE opcode = 0 -> <<1, 4>> [] opcode = 2 -> <<4, 1>> [] opcode = 4 -> <<1, 3>> [] opcode = 6 -> <<3, 1>>
       [] opcode = 7 -> <<1, 1>> [] opcode = 8 -> <<1, 2>> [] opcode = 10 -> <<2, 1>>]
SimdLoadStoreMultiple(i) ==
  Unless(\/ i.opcode \notin DOMAIN StructureShape
         \/ i.post = 0 /\ i.m # 0
         \/ i.size = 3 /\ i.q = 0 /\ StructureShape[i.opcode][2] # 1,
    [op |-> "structures", t |-> i.t, n |-> i.n, m |-> i.m, rpt |-> StructureShape[i.opcode][1], selem |-> StructureShape[i.opcode][2],
     bytes |-> Bytes(i.size), elements |-> (IF i.q = 1 THEN 16 ELSE 8) \div Bytes(i.size), load |-> i.load = 1,
     q |-> i.q = 1, wback |-> i.post = 1])

-----------------------------------------------------------------------------
(* Which group an encoding is of: bits 29:27, 24, 21 and 26 (V) *)

DecodeIntegerFamily(i) ==
  CASE i.family = 7 /\ i.bit24 = 1 -> LoadStoreUnsignedOffset(i)
    [] i.family = 7 /\ i.bit24 = 0 /\ i.bit21 = 1 -> Unless(i.op4 # 2, LoadStoreRegisterOffset(i))
    [] i.family = 7 /\ i.bit24 = 0 /\ i.bit21 = 0 -> LoadStoreIndexed(i)
    [] i.family = 5 -> LoadStorePair(i)
    [] i.family = 3 /\ i.bit24 = 0 -> LoadLiteral(i)
    [] i.family = 1 /\ i.bit24 = 0 -> LoadStoreExclusive(i)
    [] OTHER -> Refused
DecodeSimdFamily(i) ==
  CASE i.family = 7 /\ i.bit24 = 1 -> LoadStoreFpUnsignedOffset(i)
    [] i.family = 7 /\ i.bit24 = 0 /\ i.bit21 = 1 -> Unless(i.op4 # 2, LoadStoreFpRegisterOffset(i))
    [] i.family = 7 /\ i.bit24 = 0 /\ i.bit21 = 0 -> LoadStoreFpIndexed(i)
    [] i.family = 5 -> LoadStoreFpPair(i)
    [] i.family = 3 /\ i.bit24 = 0 -> LoadFpLiteral(i)
    [] i.family = 1 -> SimdLoadStoreMultiple(i)
    [] OTHER -> Refused
DecodeLoadStore(i) == IF i.simd = 1 THEN DecodeSimdFamily(i) ELSE DecodeIntegerFamily(i)

-----------------------------------------------------------------------------
(* Executing: general registers *)

SpAlignment == Exception("sp alignment")
At0(s, i) == Wrap(Base(s, i.n) + (IF i.postindex THEN 0 ELSE i.offset))

\* MUTANT: the base is written back even where the access faults.
WriteBack_AfterFault(s, i) == IF i.wback THEN SetRegOrSp(s, i.n, Wrap(Base(s, i.n) + i.offset), XBits) ELSE s

WriteBack(s, i) == IF Fine(s) /\ i.wback THEN SetRegOrSp(s, i.n, Wrap(Base(s, i.n) + i.offset), XBits) ELSE s

\* Words that follow each other are stored, or loaded and only then kept, until one faults.
StoreNext(s, address, bytes, value) == IF Fine(s) THEN MemSet(s, address, bytes, value, TRUE) ELSE s
StoreEach(s, address, bytes, values) ==
  LET stored[k \in 0..Len(values)] ==
        IF k = 0 THEN s ELSE StoreNext(stored[k - 1], Wrap(address + (k - 1) * bytes), bytes, values[k])
  IN  stored[Len(values)]
Gathered(so_far, got) == [core |-> got.core, values |-> Append(so_far.values, got.value)]
LoadNext(so_far, address, bytes) ==
  IF Fine(so_far.core) THEN Gathered(so_far, MemGet(so_far.core, address, bytes, TRUE)) ELSE so_far
LoadEach(s, address, bytes, count) ==
  LET loaded[k \in 0..count] ==
        IF k = 0 THEN [core |-> s, values |-> <<>>] ELSE LoadNext(loaded[k - 1], Wrap(address + (k - 1) * bytes), bytes)
  IN  loaded[count]

Loaded(got, i) ==
  IF ~Fine(got.core) THEN got.core
  ELSE SetX(got.core, i.t, IF i.signed THEN SignExtend(got.value, i.bytes * ByteBits, i.regsize) ELSE got.value, i.regsize)
Transfer(s, i, address) ==
  CASE i.memop = "store" -> MemSet(s, address, i.bytes, GetX(s, i.t, i.regsize), TRUE)
    [] i.memop = "load" -> Loaded(MemGet(s, address, i.bytes, TRUE), i)
    [] i.memop = "prefetch" -> s
IndexOf(s, i) == DecodeRegExtend(GetX(s, i.m, XBits), i.type, i.unsigned, i.shift, XBits)
\* An immediate or a register is added to the base; only the former is written back.
LoadStoreOne(s, i) ==
  IF CheckSpAlignment(s, i.n) THEN Raise(s, SpAlignment)
  ELSE WriteBack(Transfer(s, i, IF i.op = "indexed" THEN Wrap(Base(s, i.n) + IndexOf(s, i)) ELSE At0(s, i)), i)

PairLoad(got, i) ==
  LET word(value) == IF i.signed THEN SignExtend(value, WBits, XBits) ELSE value
  IN  IF Fine(got.core) THEN SetX(SetX(got.core, i.t, word(got.values[1]), XBits), i.t2, word(got.values[2]), XBits) ELSE got.core
Both(s, i) == <<GetX(s, i.t, i.bytes * ByteBits), GetX(s, i.t2, i.bytes * ByteBits)>>
Pair(s, i, address) ==
  IF i.load THEN PairLoad(LoadEach(s, address, i.bytes, 2), i) ELSE StoreEach(s, address, i.bytes, Both(s, i))
LoadStorePairs(s, i) ==
  IF CheckSpAlignment(s, i.n) THEN Raise(s, SpAlignment) ELSE WriteBack(Pair(s, i, At0(s, i)), i)

Literal(s, i) ==
  IF i.prefetch THEN s
  ELSE Loaded(MemGet(s, Wrap(s.pc + i.offset), i.bytes, TRUE), i @@ [regsize |-> IF i.signed THEN XBits ELSE i.bytes * ByteBits])

-----------------------------------------------------------------------------
(* Executing: exclusives.  The core's reservation is a block, or NoBlock. *)

CONSTANT Granule   \* addresses of a reservation block: 64 in the code
NoBlock == -1
Block(address) == address \div Granule
Cleared(s) == [s EXCEPT !.reserved = NoBlock]

Reported(s, i, status) == IF Fine(s) /\ i.exclusive THEN SetX(s, i.s, status, WBits) ELSE s
\* The store is pushed out, and with it whatever else is pending.
Pushed(s) == IF Fine(s) THEN DrainStoreBuffer(s) ELSE s
\* The reservation is lost whether or not it holds.
StoreExclusive(s, i, address) ==
  IF i.exclusive /\ s.reserved # Block(address) THEN Reported(Cleared(s), i, 1)
  ELSE Pushed(Reported(
         StoreEach(IF i.pair \/ i.exclusive THEN Cleared(s) ELSE s, address, i.bytes,
                   IF i.pair THEN Both(s, i) ELSE <<GetX(s, i.t, i.bytes * ByteBits)>>), i, 0))

ExclusiveRead(s, i, register, address) ==
  IF ~Fine(s) THEN s
  ELSE LET got == MemGet(s, address, i.bytes, TRUE)
       IN  IF Fine(got.core) THEN SetX(got.core, register, got.value, i.bytes * ByteBits) ELSE got.core
\* The base may be the register the first half is loaded into: its value is taken before.
LoadExclusive(s, i, address) ==
  LET count == IF i.pair THEN 2 ELSE 1
      loaded[k \in 0..count] ==
        IF k = 0 THEN IF i.exclusive THEN [s EXCEPT !.reserved = Block(address)] ELSE s
        ELSE ExclusiveRead(loaded[k - 1], i, IF k = 1 THEN i.t ELSE i.t2, Wrap(address + (k - 1) * i.bytes))
  IN  loaded[count]
\* What is pending goes first.
Exclusively(t, i, address) ==
  IF ~Fine(t) THEN t ELSE IF i.load THEN LoadExclusive(t, i, address) ELSE StoreExclusive(t, i, address)
Exclusive(s, i) ==
  IF CheckSpAlignment(s, i.n) THEN Raise(s, SpAlignment) ELSE Exclusively(DrainStoreBuffer(s), i, Base(s, i.n))

-----------------------------------------------------------------------------
(* Executing: vector registers *)

\* FPEN is bits 1:0 here (21:20): all levels, or all but EL0.
FpAccessEnabled(s) ==
  LET fpen == Sys(s, "cpacr", 1) % 4 IN fpen = 3 \/ (fpen = 1 /\ s.psr.el # 0)
FpTrap == Exception("fp access")

\* A write zeroes what is above it.
SetV(s, n, low, high) == [s EXCEPT !.v[n] = <<low, high>>]
GetVElement(s, n, index, bits) ==
  LET half == s.v[n][((index * bits) \div XBits) + 1]
      at == (index * bits) % XBits
  IN  Substring(half, at + bits - 1, at)
SetVElement(s, n, index, bits, value) ==
  LET at == (index * bits) % XBits
  IN  [s EXCEPT !.v[n][((index * bits) \div XBits) + 1] = SetSubstring(@, at + bits - 1, at, value)]

FpUnit(bytes) == LesserOf(bytes, DoubleWord)
FpHalves(bytes) == IF bytes <= DoubleWord THEN 1 ELSE 2
FpRead(got, register) ==
  IF Fine(got.core) THEN SetV(got.core, register, got.values[1], IF Len(got.values) = 2 THEN got.values[2] ELSE 0) ELSE got.core
FpLoad(s, address, bytes, register) == FpRead(LoadEach(s, address, FpUnit(bytes), FpHalves(bytes)), register)
FpMove(s, i, address, register) ==
  IF ~Fine(s) THEN s
  ELSE IF i.load THEN FpLoad(s, address, i.bytes, register)
  ELSE StoreEach(s, address, FpUnit(i.bytes), SubSeq(s.v[register], 1, FpHalves(i.bytes)))
FpAddress(s, i) == IF i.form = "imm" THEN At0(s, i) ELSE Wrap(Base(s, i.n) + IndexOf(s, i))
FpBoth(s, i, address) ==
  LET count == IF i.pair THEN 2 ELSE 1
      moved[k \in 0..count] ==
        IF k = 0 THEN s ELSE FpMove(moved[k - 1], i, Wrap(address + (k - 1) * i.bytes), IF k = 1 THEN i.t ELSE i.t2)
  IN  moved[count]
LoadStoreFp(s, i) ==
  IF ~FpAccessEnabled(s) THEN Raise(s, FpTrap)
  ELSE IF CheckSpAlignment(s, i.n) THEN Raise(s, SpAlignment)
  ELSE WriteBack(FpBoth(s, i, FpAddress(s, i)), i)
FpLiteral(s, i) ==
  IF ~FpAccessEnabled(s) THEN Raise(s, FpTrap) ELSE FpLoad(s, Wrap(s.pc + i.offset), i.bytes, i.t)

\* The k-th element moved, counted from zero in memory: its register and its lane.
Lane(i, k) ==
  [register |-> (i.t + (k \div (i.elements * i.selem)) * i.selem + (k % i.selem)) % 32,
   element |-> (k \div i.selem) % i.elements]
LaneRead(got, i, lane) ==
  IF Fine(got.core) THEN SetVElement(got.core, lane.register, lane.element, i.bytes * ByteBits, got.value) ELSE got.core
LaneMove(s, i, address, lane) ==
  IF i.load THEN LaneRead(MemGet(s, address, i.bytes, TRUE), i, lane)
  ELSE MemSet(s, address, i.bytes, GetVElement(s, lane.register, lane.element, i.bytes * ByteBits), TRUE)
LaneNext(s, i, address, lane) == IF Fine(s) THEN LaneMove(s, i, address, lane) ELSE s
LanesMoved(s, i, address) ==
  LET count == i.rpt * i.selem * i.elements
      moved[k \in 0..count] ==
        IF k = 0 THEN s ELSE LaneNext(moved[k - 1], i, Wrap(address + (k - 1) * i.bytes), Lane(i, k - 1))
  IN  moved[count]
\* A transfer of 64 bits clears the upper half of the registers it loads.
Narrowed(s, i) ==
  IF ~Fine(s) \/ i.q \/ ~i.load THEN s
  ELSE [s EXCEPT !.v = [n \in DOMAIN @ |->
          IF \E k \in 0..(i.rpt * i.selem - 1) : n = (i.t + k) % 32 THEN <<@[n][1], 0>> ELSE @[n]]]
Advanced(s, i, address) ==
  IF Fine(s) /\ i.wback
  THEN SetRegOrSp(s, i.n, Wrap(address + (IF i.m = 31 THEN i.rpt * i.selem * i.elements * i.bytes ELSE GetX(s, i.m, XBits))), XBits)
  ELSE s
Structures(s, i) ==
  IF ~FpAccessEnabled(s) THEN Raise(s, FpTrap)
  ELSE IF CheckSpAlignment(s, i.n) THEN Raise(s, SpAlignment)
  ELSE Advanced(Narrowed(LanesMoved(s, i, Base(s, i.n)), i), i, Base(s, i.n))

Moving == {"transfer", "indexed", "pair", "literal", "exclusive", "fp", "fp literal", "structures"}
Move(s, i) ==
  CASE i.op \in {"transfer", "indexed"} -> LoadStoreOne(s, i)
    [] i.op = "pair" -> LoadStorePairs(s, i)
    [] i.op = "literal" -> Literal(s, i)
    [] i.op = "exclusive" -> Exclusive(s, i)
    [] i.op = "fp" -> LoadStoreFp(s, i)
    [] i.op = "fp literal" -> FpLiteral(s, i)
    [] i.op = "structures" -> Structures(s, i)
=============================================================================
