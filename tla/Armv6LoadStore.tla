--------------------------- MODULE Armv6LoadStore ---------------------------
(***************************************************************************)
(* The loads and stores.  i.registers is the set of registers of a list.   *)
(* Decoders refuse to write back to the register that is transferred, so   *)
(* the order of those two writes does not show.                            *)
(***************************************************************************)
EXTENDS Armv6Media, Armv6Memory

-----------------------------------------------------------------------------
(* Addresses *)

OffsetAddr(i, s, offset) == IF i.add THEN Add(Get(s, i.n), offset) ELSE Sub(Get(s, i.n), offset)
Address(i, s, offset) == IF i.index THEN OffsetAddr(i, s, offset) ELSE Get(s, i.n)
WriteBack(i, s, value) == IF i.wback THEN Set(s, i.n, value) ELSE s

\* Relative to PC.
LiteralAddress(i, s) ==
  IF i.add THEN Add(Align(GetPc(s), 4), i.imm32) ELSE Sub(Align(GetPc(s), 4), i.imm32)

\* Not reduced to a word.
RawOffsetAddr(i, s) == IF i.add THEN Get(s, i.n) + Reg(i, s) ELSE Get(s, i.n) - Reg(i, s)
RawAddress(i, s) == IF i.index THEN RawOffsetAddr(i, s) ELSE Get(s, i.n)

\* The unprivileged forms take a register or an immediate, plain or after the access.
UnprivOffset(i, s) == IF i.register_form THEN Reg(i, s) ELSE i.imm32
UnprivOffsetAddr(i, s) == OffsetAddr(i, s, UnprivOffset(i, s))
UnprivAddress(i, s) == IF i.post_index THEN Get(s, i.n) ELSE UnprivOffsetAddr(i, s)
PostIndexed(i, s, value) == IF i.post_index THEN Set(s, i.n, value) ELSE s

\* Unpredictable in Hyp mode: nothing happens.
Unpriv(i, s, t) == IfPassed(i, s, IF s.psr.m = "hyp" THEN s ELSE t)

-----------------------------------------------------------------------------
(* Values.  Without SCTLR.U a misaligned word is rotated in ARM state and      *)
(* unknown, which is 0, in Thumb state; a misaligned half is unknown.          *)

Supported(s, address, size) == s.sctlr.u = 1 \/ address % size = 0
WordAt(s, address, data) ==
  CASE Supported(s, address, 4) -> data
    [] ~Supported(s, address, 4) /\ s.psr.t = 0 -> RorC(data, WordBits, ByteBits * (address % 4)).value
    [] OTHER -> 0

\* What is loaded as a word, half or byte, and how many bytes that takes.
LoadedAs(as, s, address, data) ==
  CASE as = "word" -> WordAt(s, address, data)
    [] as = "half" -> IF Supported(s, address, 2) THEN data ELSE 0
    [] as = "signed half" -> IF Supported(s, address, 2) THEN SignExtend(data, HalfBits, WordBits) ELSE 0
    [] as = "byte" -> data
    [] as = "signed byte" -> SignExtend(data, ByteBits, WordBits)
SizeOf(as) == CASE as = "word" -> 4 [] as \in {"half", "signed half"} -> 2 [] OTHER -> 1

\* A load that writes back to Rn, and one relative to PC.
Load(i, s, offset, as) ==
  LET address == Address(i, s, offset)
      Finish(a) == Loaded(a, Set(WriteBack(i, a.state, OffsetAddr(i, s, offset)), i.t, LoadedAs(as, s, address, a.value)))
  IN  IfPassed(i, s, Finish(MemUGet(s, address, SizeOf(as))))

LoadLiteral(i, s, as) ==
  LET Finish(a) == Loaded(a, Set(a.state, i.t, LoadedAs(as, s, LiteralAddress(i, s), a.value)))
  IN  IfPassed(i, s, Finish(MemUGet(s, LiteralAddress(i, s), SizeOf(as))))

LoadUnpriv(i, s, as) ==
  LET address == UnprivAddress(i, s)
      Finish(a) ==
        Loaded(a, Set(PostIndexed(i, a.state, UnprivOffsetAddr(i, s)), i.t, LoadedAs(as, s, address, a.value)))
  IN  Unpriv(i, s, Finish(MemUUnprivGet(s, address, SizeOf(as))))

\* A word loaded into PC is a branch; from a misaligned address nothing is written.
SetOrBranch(i, s, address, data, target) ==
  IF i.t # 15 THEN Set(s, i.t, WordAt(s, address, data))
  ELSE IF address % 4 = 0 THEN LoadWritePc(s, target) ELSE s

LdrImmediateArm(i, s) ==
  LET address == Address(i, s, i.imm32)
      Finish(a) ==
        Loaded(a, SetOrBranch(i, WriteBack(i, a.state, OffsetAddr(i, s, i.imm32)), address, a.value, a.value))
  IN  IfPassed(i, s, Finish(MemUGet(s, address, 4)))
LdrImmediateThumb(i, s) == LdrImmediateArm(i, s)
LdrLiteral(i, s) ==
  LET Finish(a) == Loaded(a, SetOrBranch(i, a.state, LiteralAddress(i, s), a.value, a.value))
  IN  IfPassed(i, s, Finish(MemUGet(s, LiteralAddress(i, s), 4)))

\* The register forms branch to the address, not to what is loaded from it.
LdrRegisterArm(i, s) ==
  LET address == RawAddress(i, s)
      Finish(a) ==
        Loaded(a, SetOrBranch(i, WriteBack(i, a.state, RawOffsetAddr(i, s)), address, a.value, address))
  IN  IfPassed(i, s, Finish(MemUGet(s, address, 4)))
LdrRegisterThumb(i, s) ==
  LET address == Add(Get(s, i.n), Reg(i, s))
      Finish(a) == Loaded(a, SetOrBranch(i, a.state, address, a.value, address))
  IN  IfPassed(i, s, Finish(MemUGet(s, address, 4)))

LdrbImmediateArm(i, s) == Load(i, s, i.imm32, "byte")
LdrbImmediateThumb(i, s) == Load(i, s, i.imm32, "byte")
LdrbLiteral(i, s) == LoadLiteral(i, s, "byte")
LdrbRegister(i, s) == Load(i, s, Reg(i, s), "byte")
LdrhImmediateArm(i, s) == Load(i, s, i.imm32, "half")
LdrhImmediateThumb(i, s) == Load(i, s, i.imm32, "half")
LdrhLiteral(i, s) == LoadLiteral(i, s, "half")
LdrhRegister(i, s) == Load(i, s, Reg(i, s), "half")
LdrsbImmediate(i, s) == Load(i, s, i.imm32, "signed byte")
LdrsbLiteral(i, s) == LoadLiteral(i, s, "signed byte")
LdrsbRegister(i, s) == Load(i, s, Reg(i, s), "signed byte")
LdrshImmediate(i, s) == Load(i, s, i.imm32, "signed half")
LdrshLiteral(i, s) == LoadLiteral(i, s, "signed half")

\* Without a look at the condition.
LdrshRegister(i, s) ==
  LET address == Address(i, s, Reg(i, s))
      Finish(a) ==
        Loaded(a, Set(WriteBack(i, a.state, OffsetAddr(i, s, Reg(i, s))), i.t, LoadedAs("signed half", s, address, a.value)))
  IN  Finish(MemUGet(s, address, 2))

Ldrt(i, s) == LoadUnpriv(i, s, "word")
Ldrbt(i, s) == LoadUnpriv(i, s, "byte")
Ldrht(i, s) == LoadUnpriv(i, s, "half")
Ldrsbt(i, s) == LoadUnpriv(i, s, "signed byte")
Ldrsht(i, s) == LoadUnpriv(i, s, "signed half")

-----------------------------------------------------------------------------
(* Stores *)

\* PC is stored as the address of the instruction itself.
PcStoreValue(s) == s.pc
StoredRegister(s, n) == IF n = 15 THEN PcStoreValue(s) ELSE Get(s, n)

\* What a store writes; unknown, which is 0, where the alignment is not supported.
WordOf(i, s, address) ==
  IF Supported(s, address, 4) \/ s.psr.t = 0 THEN StoredRegister(s, i.t) ELSE 0
StoredAs(as, i, s, address) ==
  CASE as = "word" -> WordOf(i, s, address)
    [] as = "half" -> IF Supported(s, address, 2) THEN HalfOf(Get(s, i.t), 0) ELSE 0
    [] as = "byte" -> ByteOf(Get(s, i.t), 0)

StoreTo(i, s, offset, as) ==
  LET Finish(t) == Then(t, WriteBack(i, t, OffsetAddr(i, s, offset)))
      StoreAt(address) == Finish(MemUSet(s, address, SizeOf(as), StoredAs(as, i, s, address)))
  IN  IfPassed(i, s, StoreAt(Address(i, s, offset)))

StoreUnpriv(i, s, as) ==
  LET Finish(t) == Then(t, PostIndexed(i, t, UnprivOffsetAddr(i, s)))
      StoreAt(address) == Finish(MemUUnprivSet(s, address, SizeOf(as), StoredAs(as, i, s, address)))
  IN  Unpriv(i, s, StoreAt(UnprivAddress(i, s)))

\* MUTANT: the base is written back before the store.
StrImmediateArm_EarlyBase(i, s) ==
  LET address == Address(i, s, i.imm32)
      based == WriteBack(i, s, OffsetAddr(i, s, i.imm32))
  IN  IfPassed(i, s, MemUSet(based, address, 4, WordOf(i, s, address)))

StrImmediateArm(i, s) == StoreTo(i, s, i.imm32, "word")
StrImmediateThumb(i, s) == StoreTo(i, s, i.imm32, "word")
StrRegister(i, s) == StoreTo(i, s, Reg(i, s), "word")
StrbImmediateArm(i, s) == StoreTo(i, s, i.imm32, "byte")
StrbImmediateThumb(i, s) == StoreTo(i, s, i.imm32, "byte")
StrbRegister(i, s) == StoreTo(i, s, Reg(i, s), "byte")
StrhImmediateArm(i, s) == StoreTo(i, s, i.imm32, "half")
StrhImmediateThumb(i, s) == StoreTo(i, s, i.imm32, "half")
StrhRegister(i, s) == StoreTo(i, s, Reg(i, s), "half")
Strt(i, s) == StoreUnpriv(i, s, "word")
Strbt(i, s) == StoreUnpriv(i, s, "byte")
Strht(i, s) == StoreUnpriv(i, s, "half")

-----------------------------------------------------------------------------
(* Two words.  There is no LPAE: they are two accesses, and an abort of the    *)
(* second leaves the first one done.                                           *)

LoadDual(i, s, address) ==
  LET Second(a) == Loaded(a, Set(a.state, i.t2, a.value))
      First(a) == Loaded(a, Second(MemAGet(Set(a.state, i.t, a.value), Add(address, 4), 4)))
  IN  First(MemAGet(s, address, 4))

StoreDual(i, s, offset) ==
  LET Second(t) == Then(t, WriteBack(i, t, OffsetAddr(i, s, offset)))
      First(t, address) == Then(t, Second(MemASet(t, Add(address, 4), 4, Get(s, i.t2))))
      Both(address) == First(MemASet(s, address, 4, Get(s, i.t)), address)
  IN  IfPassed(i, s, Both(Address(i, s, offset)))

LoadDualBased(i, s, offset) ==
  LET Finish(t) == Then(t, WriteBack(i, t, OffsetAddr(i, s, offset)))
  IN  IfPassed(i, s, Finish(LoadDual(i, s, Address(i, s, offset))))

LdrdImmediate(i, s) == LoadDualBased(i, s, i.imm32)
LdrdLiteral(i, s) == IfPassed(i, s, LoadDual(i, s, LiteralAddress(i, s)))
LdrdRegister(i, s) == LoadDualBased(i, s, Get(s, i.m))
StrdImmediate(i, s) == StoreDual(i, s, i.imm32)
StrdRegister(i, s) == StoreDual(i, s, Get(s, i.m))

-----------------------------------------------------------------------------
(* Exclusive accesses *)

\* The two words of a doubleword in the order of the byte order.
DoubleOf(s, first, second) == IF s.psr.e = 1 THEN Chain(first, second, WordBits) ELSE Chain(second, first, WordBits)
SetDouble(i, s, value) ==
  LET high == Substring(value, DoubleBits - 1, WordBits)
      low == LowerChunk(value, WordBits)
  IN  IF s.psr.e = 1 THEN Set(Set(s, i.t, high), i.t2, low) ELSE Set(Set(s, i.t, low), i.t2, high)

LoadMarked(marked, address, size, single, i) ==
  LET Finish(a) == Loaded(a, IF single THEN Set(a.state, i.t, a.value) ELSE SetDouble(i, a.state, a.value))
  IN  Then(marked, Finish(MemAGet(marked, address, size)))

LoadExclusive(i, s, address, size) ==
  IfPassed(i, s, LoadMarked(SetExclusiveMonitors(s, address, size), address, size, TRUE, i))

Ldrex(i, s) == LoadExclusive(i, s, Add(Get(s, i.n), i.imm32), 4)
Ldrexb(i, s) == LoadExclusive(i, s, Get(s, i.n), 1)
Ldrexh(i, s) == LoadExclusive(i, s, Get(s, i.n), 2)
Ldrexd(i, s) ==
  LET address == Get(s, i.n)
  IN  IfPassed(i, s,
        IF address % 8 # 0 THEN DataAbort(s, FaultAddress(s, address), FALSE, AlignmentFault)
        ELSE LoadMarked(SetExclusiveMonitors(s, address, 8), address, 8, FALSE, i))

\* Rd tells whether the store was made.
StoreExclusive(i, s, address, checked, size, value) ==
  LET Stored(t) == Then(t, Set(t, i.d, 0))
      Finish(a) ==
        Loaded(a, IF ~a.value THEN Set(a.state, i.d, 1) ELSE Stored(MemASet(a.state, address, size, value)))
  IN  IfPassed(i, s, Finish(ExclusiveMonitorsPass(s, address, checked)))

Strex(i, s) == StoreExclusive(i, s, Add(Get(s, i.n), i.imm32), 4, 4, Get(s, i.t))
Strexb(i, s) == StoreExclusive(i, s, Get(s, i.n), 1, 1, ByteOf(Get(s, i.t), 0))
Strexh(i, s) == StoreExclusive(i, s, Get(s, i.n), 2, 2, HalfOf(Get(s, i.t), 0))

\* The monitor is asked about four of the eight bytes.
Strexd(i, s) == StoreExclusive(i, s, Get(s, i.n), 4, 8, DoubleOf(s, Get(s, i.t), Get(s, i.t2)))

-----------------------------------------------------------------------------
(* Register lists: from the lowest number at the lowest address, without PC.   *)
(* A list is not undone when an access in it aborts.                           *)

Bytes(i) == 4 * Cardinality(i.registers)

\* The address after a word; not every form reduces it.
After(address, reduced) == IF reduced THEN Add(address, 4) ELSE address + 4
ReadWord(s, address, aligned) == IF aligned THEN MemAGet(s, address, 4) ELSE MemUGet(s, address, 4)
WriteWord(s, address, aligned, value) == IF aligned THEN MemASet(s, address, 4, value) ELSE MemUSet(s, address, 4, value)

\* Register n of the current or the User mode is loaded, or stored, if it is in the
\* list and nothing has aborted; a.value is the address, and then the one after it.
\* Of the registers that are stored, some are stored aligned.
SetLoaded(a, n, user) == Loaded(a, IF user THEN SetRmode(a.state, n, "usr", a.value) ELSE Set(a.state, n, a.value))
LoadOne(a, n, registers, aligned, user, reduced) ==
  IF a.state.raised # "none" \/ n \notin registers THEN a
  ELSE Access(SetLoaded(ReadWord(a.state, a.value, aligned), n, user), After(a.value, reduced))
StoreOne(a, n, registers, values, aligned, reduced) ==
  IF a.state.raised # "none" \/ n \notin registers THEN a
  ELSE Access(WriteWord(a.state, a.value, n \in aligned, values[n]), After(a.value, reduced))

LoadList(s, start, registers, aligned, user, reduced) ==
  LET loaded[k \in 0..15] ==
        IF k = 0 THEN Access(s, start) ELSE LoadOne(loaded[k - 1], k - 1, registers, aligned, user, reduced)
  IN  loaded[15]

\* The values are given.
StoreList(s, start, registers, values, aligned, reduced) ==
  LET stored[k \in 0..15] ==
        IF k = 0 THEN Access(s, start) ELSE StoreOne(stored[k - 1], k - 1, registers, values, aligned, reduced)
  IN  stored[15]

\* A base that is also loaded is unknown, which is 0, after a write-back.
LoadMultiple(i, s, start, base) ==
  LET Based(t) == IF i.wback THEN Set(t, i.n, IF i.n \in i.registers THEN 0 ELSE base) ELSE t
      Branch(a) == Loaded(a, Based(LoadWritePc(a.state, a.value)))
      Finish(a) == Loaded(a, IF 15 \notin i.registers THEN Based(a.state) ELSE Branch(MemAGet(a.state, a.value, 4)))
  IN  IfPassed(i, s, Finish(LoadList(s, start, i.registers, TRUE, FALSE, TRUE)))

LdmArm(i, s) == LoadMultiple(i, s, Get(s, i.n), Add(Get(s, i.n), Bytes(i)))
LdmThumb(i, s) == LoadMultiple(i, s, Get(s, i.n), Add(Get(s, i.n), Bytes(i)))
Ldmib(i, s) == LoadMultiple(i, s, Add(Get(s, i.n), 4), Add(Get(s, i.n), Bytes(i)))
Ldmdb(i, s) == LoadMultiple(i, s, Sub(Get(s, i.n), Bytes(i)), Sub(Get(s, i.n), Bytes(i)))

\* The first address is not reduced to a word.
Ldmda(i, s) == LoadMultiple(i, s, Sub(Get(s, i.n), Bytes(i)) + 4, Sub(Get(s, i.n), Bytes(i)))

\* A base that is not the lowest of the list is unknown, which is 0, if written back.
StoreMultiple(i, s, start, base, reduced) ==
  LET values == [n \in i.registers \ {15} |-> IF n = i.n /\ i.wback /\ n # Min(i.registers) THEN 0 ELSE Get(s, n)]
      Based(t) == Then(t, IF i.wback THEN Set(t, i.n, base) ELSE t)
      Finish(a) ==
        Loaded(a, Based(IF 15 \in i.registers THEN MemASet(a.state, a.value, 4, PcStoreValue(a.state)) ELSE a.state))
  IN  IfPassed(i, s, Finish(StoreList(s, start, i.registers, values, 0..14, reduced)))

\* PC is not counted in what is added to the base.
Stm(i, s) ==
  StoreMultiple(i, s, Get(s, i.n), Add(Get(s, i.n), 4 * Cardinality(i.registers \ {15})), TRUE)
Stmib(i, s) == StoreMultiple(i, s, Add(Get(s, i.n), 4), Add(Get(s, i.n), Bytes(i)), TRUE)
Stmdb(i, s) == StoreMultiple(i, s, Sub(Get(s, i.n), Bytes(i)), Sub(Get(s, i.n), Bytes(i)), TRUE)

\* The addresses are not reduced to words.
Stmda(i, s) == StoreMultiple(i, s, Sub(Get(s, i.n), Bytes(i)) + 4, Sub(Get(s, i.n), Bytes(i)), FALSE)

\* POP: with SP in the list SP is unknown, which is 0.
Pop(i, s, reduced, base) ==
  LET aligned == ~i.unaligned_allowed
      Based(t) == Set(t, 13, IF 13 \in i.registers THEN 0 ELSE base)
      Branch(a) == Loaded(a, Based(LoadWritePc(a.state, a.value)))
      Finish(a) ==
        Loaded(a, CASE 15 \notin i.registers -> Based(a.state)
                    [] 15 \in i.registers /\ ~aligned /\ a.value % 4 # 0 -> Based(a.state)
                    [] OTHER -> Branch(ReadWord(a.state, a.value, aligned)))
  IN  IfPassed(i, s, Finish(LoadList(s, Get(s, 13), i.registers, aligned, FALSE, reduced)))

\* Neither the addresses nor the new SP are reduced to words.
PopArm(i, s) == Pop(i, s, FALSE, Get(s, 13) + Bytes(i))
PopThumb(i, s) == Pop(i, s, TRUE, Add(Get(s, 13), Bytes(i)))

\* PUSH: an SP that is not the lowest of the list is unknown, which is 0, and stored aligned.
Push(i, s) ==
  LET base == Sub(Get(s, 13), Bytes(i))
      unknown == {13} \ {Min(i.registers)}
      values == [n \in i.registers \ {15} |-> IF n \in unknown THEN 0 ELSE Get(s, n)]
      aligned == IF i.unaligned_allowed THEN unknown ELSE 0..14
      Based(t) == Then(t, Set(t, 13, base))
      Finish(a) ==
        Loaded(a, Based(IF 15 \in i.registers THEN WriteWord(a.state, a.value, ~i.unaligned_allowed, PcStoreValue(a.state)) ELSE a.state))
  IN  IfPassed(i, s, Finish(StoreList(s, base, i.registers, values, aligned, TRUE)))

-----------------------------------------------------------------------------
(* Lists of the user registers, and branches through a table *)

\* Start of a list for the forms that encode its direction.
Start(i, s, length) ==
  LET lowest == IF i.increment THEN Get(s, i.n) ELSE Sub(Get(s, i.n), length)
  IN  IF i.word_higher THEN Add(lowest, 4) ELSE lowest

\* Undefined in Hyp mode, unpredictable where there is no SPSR: nothing happens.
Privileged(i, s, t) ==
  IfPassed(i, s, IF s.psr.m = "hyp" THEN Raise(s, "undef")
                 ELSE IF CurrentModeIsUserOrSystem(s) THEN s ELSE t)

LdmUserRegisters(i, s) ==
  Privileged(i, s, LoadList(s, Start(i, s, Bytes(i)), i.registers, TRUE, TRUE, TRUE).state)

StmUserRegisters(i, s) ==
  LET values == [n \in i.registers \ {15} |-> GetRmode(s, n, "usr")]
      Finish(a) ==
        Loaded(a, IF 15 \in i.registers THEN MemASet(a.state, a.value, 4, PcStoreValue(a.state)) ELSE a.state)
  IN  Privileged(i, s, Finish(StoreList(s, Start(i, s, Bytes(i)), i.registers, values, 0..14, TRUE)))

\* MUTANT: the distance is from the instruction itself.
TbbTbh_FromItself(i, s) ==
  LET address == IF i.is_tbh THEN Add(Get(s, i.n), LowerChunk(2 * Get(s, i.m), WordBits))
                 ELSE Add(Get(s, i.n), Get(s, i.m))
      Finish(a) == Loaded(a, BranchWritePc(a.state, Add(a.state.pc, 2 * a.value)))
  IN  IfPassed(i, s, Finish(MemUGet(s, address, IF i.is_tbh THEN 2 ELSE 1)))

\* A byte or half, doubled, is the distance from PC.
TbbTbh(i, s) ==
  LET address == IF i.is_tbh THEN Add(Get(s, i.n), LowerChunk(2 * Get(s, i.m), WordBits))
                 ELSE Add(Get(s, i.n), Get(s, i.m))
      Finish(a) == Loaded(a, BranchWritePc(a.state, Add(GetPc(a.state), 2 * a.value)))
  IN  IfPassed(i, s, Finish(MemUGet(s, address, IF i.is_tbh THEN 2 ELSE 1)))
=============================================================================
