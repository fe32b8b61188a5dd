------------------------------ MODULE A64Levels ------------------------------
(***************************************************************************)
(* One core of arm_v8.py: which level takes an exception and what entry    *)
(* and return do, the branches and system instructions, and one cycle of   *)
(* AArch64 or, through the view of aarch32.py, of AArch32.                 *)
(*                                                                         *)
(* ESR is narrower than the code's: the class at bit 10 (26), IL at 9      *)
(* (25), the rest below it.                                                *)
(***************************************************************************)
EXTENDS A64LoadStore, A64DataProcessing

CONSTANTS
  InstrBytes,   \* 4
  VectorSize    \* 128: from one vector to the next

-----------------------------------------------------------------------------
(* Routing *)

Asynchronous == {"irq", "fiq", "serror"}
Calls == {"svc", "hvc", "smc"}
Aborts == {"data abort", "instruction abort"}

ScrBit == [irq |-> 1, fiq |-> 2, serror |-> 3]
HcrBit == [irq |-> 4, fiq |-> 3, serror |-> 5]
TgeBit == 6   \* 27 in the code

OwnKernel(el) == IF el = 0 THEN 1 ELSE el

\* Secure firmware claims first, then the hypervisor of a guest.
AsyncTargetEl(s, type) ==
  IF At(ScrEl3(s), ScrBit[type]) /\ s.highest = 3 THEN 3
  ELSE IF s.psr.el \in {0, 1} /\ At(HcrEl2(s), HcrBit[type]) THEN 2
  ELSE OwnKernel(s.psr.el)

NamedEl(s, e) ==
  CASE e.type = "smc" -> 3
    [] e.type = "hvc" -> IF s.psr.el = 3 THEN 3 ELSE 2
    [] e.type \in Asynchronous -> AsyncTargetEl(s, e.type)
    [] e.stage2 -> 2
    [] OTHER -> IF s.psr.el = 0 /\ At(HcrEl2(s), TgeBit) THEN 2 ELSE OwnKernel(s.psr.el)

\* Never below the level that raised it, never above what is implemented.
TargetElFor(s, e) == LesserOf(IF NamedEl(s, e) < s.psr.el THEN s.psr.el ELSE NamedEl(s, e), s.highest)

-----------------------------------------------------------------------------
(* Entry *)

\* The four groups: the same level on SP_EL0 or on its own stack, a lower one in AArch64 or in AArch32.
VectorGroup(s, target) == IF s.psr.el = target THEN s.psr.sp ELSE 2 + s.psr.nrw
VectorSlot(type) == CASE type = "irq" -> 1 [] type = "fiq" -> 2 [] type = "serror" -> 3 [] OTHER -> 0
ExceptionVectorOffset(s, target, type) == (VectorGroup(s, target) * 4 + VectorSlot(type)) * VectorSize

ClassOf(s, type, lower) ==
  CASE type = "svc" -> IF s.psr.nrw = 1 THEN 17 ELSE 21
    [] type = "hvc" -> IF s.psr.nrw = 1 THEN 18 ELSE 22
    [] type = "smc" -> IF s.psr.nrw = 1 THEN 19 ELSE 23
    [] type = "brk" -> 60
    [] type = "fp access" -> 7
    [] type = "instruction abort" -> IF lower THEN 32 ELSE 33
    [] type = "data abort" -> IF lower THEN 36 ELSE 37
    [] type = "pc alignment" -> 34
    [] type = "sp alignment" -> 38
    [] type = "illegal state" -> 14
    [] OTHER -> 0
SpecificSyndrome(e) ==
  CASE e.type \in Calls \cup {"brk"} -> e.immediate
    [] e.type = "instruction abort" -> e.status
    [] e.type = "data abort" -> Flag(e.write) * 64 + e.status
    [] OTHER -> 0
ExceptionSyndrome(s, e, target) == ClassOf(s, e.type, s.psr.el # target) * 2^10 + 2^9 + SpecificSyndrome(e)

\* The T bit is only in an SPSR of AArch32.
SavedPsr(s) == ToSpsr(s.psr) + (IF s.psr.nrw = 1 THEN Flag(s.view.thumb) * 2^5 ELSE 0)

Saved(s, e, target, return) ==
  [s EXCEPT !.sys = (<<"spsr", target>> :> SavedPsr(s)) @@ (<<"elr", target>> :> return)
                      @@ (<<"esr", target>> :> ExceptionSyndrome(s, e, target))
                      @@ (IF e.type \in Aborts \cup {"pc alignment"} THEN <<"far", target>> :> e.address ELSE <<>>) @@ @,
            !.reserved = NoBlock, !.raised = Nothing]

\* Into AArch64, on the stack of the level, with everything masked.
Entered(s, target, vector) ==
  [s EXCEPT !.psr = [@ EXCEPT !.el = target, !.nrw = 0, !.sp = 1, !.d = 1, !.a = 1, !.i = 1, !.f = 1, !.il = 0],
            !.pc = LowerChunk(Sys(s, "vbar", target) + vector, XBits), !.branched = TRUE]

\* Nobody catches a fault of the drain: the program ends.
Uncaught(s) == IF Fine(s) THEN s ELSE [s EXCEPT !.crashed = TRUE]

\* MUTANT: the stores still pending are written when the level has changed.
TakeException_DrainsLate(s, e, return) ==
  LET target == TargetElFor(s, e)
  IN  Uncaught(DrainStoreBuffer(Entered(Saved(s, e, target, return), target, ExceptionVectorOffset(s, target, e.type))))

\* The stores still pending reach memory while the core is in the level that made them.
TakeException(s, e, return) ==
  LET target == TargetElFor(s, e)
      t == DrainStoreBuffer(Saved(s, e, target, return))
  IN  IF Fine(t) THEN Entered(t, target, ExceptionVectorOffset(s, target, e.type)) ELSE Uncaught(t)

TakePhysicalInterrupt(s, type) == TakeException(s, Exception(type), s.pc)

-----------------------------------------------------------------------------
(* Return *)

Restored(s, address, spsr) ==
  LET t == BranchTo(FromSpsr(s, spsr), address)
  IN  IF t.psr.nrw = 0 THEN t ELSE [t EXCEPT !.view = [pc |-> t.pc, thumb |-> At(spsr, 5), it |-> 0, branched |-> FALSE]]

\* The pending stores are written under the level returned to, and a fault is raised there.
ExceptionReturn(s, address, spsr) == DrainStoreBuffer(Flush(Restored(s, address, spsr)))

Eret(s) ==
  IF s.psr.el = 0 THEN Raise(s, Exception("illegal state"))
  ELSE ExceptionReturn(s, Sys(s, "elr", s.psr.el), Sys(s, "spsr", s.psr.el))

-----------------------------------------------------------------------------
(* Branches: offsets count instructions *)

BranchImmediate(i) == [op |-> "b", offset |-> i.simm * InstrBytes, link |-> i.op0 \div 4 = 1]
BranchConditional(i) == Unless(i.o0 = 1, [op |-> "b.cond", offset |-> i.simm * InstrBytes, cond |-> i.cond])
CompareAndBranch(i) ==
  [op |-> "cbz", t |-> i.t, offset |-> i.simm * InstrBytes, nonzero |-> i.nonzero = 1, size |-> IF i.op0 \div 4 = 1 THEN XBits ELSE WBits]
\* The top bit of the number is that of the operand's size.
TestAndBranch(i) ==
  [op |-> "tbz", t |-> i.t, offset |-> i.simm * InstrBytes, set |-> i.nonzero,
   bit |-> (i.op0 \div 4) * WBits + i.b40, size |-> IF i.op0 \div 4 = 1 THEN XBits ELSE WBits]
BranchRegister(i) == Unless(i.fixed # 0, [op |-> "br", n |-> i.n, link |-> i.opc = 1])
ExceptionReturnA64(i) == Unless(i.fixed # 0, [op |-> "eret"])

Linked(s, link) == IF link THEN SetX(s, LR, s.pc + InstrBytes, XBits) ELSE s
Jump(s, offset) == BranchTo(s, s.pc + offset)
Branch(s, i) ==
  CASE i.op = "b" -> Jump(Linked(s, i.link), i.offset)
    [] i.op = "b.cond" -> IF ConditionHolds(s, i.cond) THEN Jump(s, i.offset) ELSE s
    [] i.op = "cbz" -> IF (GetX(s, i.t, i.size) # 0) = i.nonzero THEN Jump(s, i.offset) ELSE s
    [] i.op = "tbz" -> IF BitAt(GetX(s, i.t, i.size), i.bit) = i.set THEN Jump(s, i.offset) ELSE s
    [] i.op = "br" -> BranchTo(Linked(s, i.link), GetX(s, i.n, XBits))

-----------------------------------------------------------------------------
(* System instructions *)

Generated == [k \in {<<0, 1>>, <<0, 2>>, <<0, 3>>, <<1, 0>>, <<2, 0>>} |->
  CASE k = <<0, 1>> -> "svc" [] k = <<0, 2>> -> "hvc" [] k = <<0, 3>> -> "smc" [] k = <<1, 0>> -> "brk" [] k = <<2, 0>> -> "hlt"]
ExceptionGenerationA64(i) ==
  Unless(<<i.opc, i.ll>> \notin DOMAIN Generated, [op |-> "generate", kind |-> Generated[<<i.opc, i.ll>>], imm |-> i.imm])
\* HLT stops the core: no debugger is attached.
ExceptionGeneration(s, i) ==
  IF i.kind = "hlt" THEN [s EXCEPT !.running = FALSE] ELSE Raise(s, [Exception(i.kind) EXCEPT !.immediate = i.imm])

Hints == <<"nop", "yield", "wfe", "wfi", "sev", "sevl">>
HintA64(i) == [op |-> "hint", kind |-> IF i.crm = 0 /\ i.op2 < 6 THEN Hints[i.op2 + 1] ELSE "nop"]
Hint(s, i) ==
  CASE i.kind = "wfe" -> IF s.event THEN [s EXCEPT !.event = FALSE] ELSE [s EXCEPT !.waiting = "event"]
    [] i.kind = "wfi" -> [s EXCEPT !.waiting = "interrupt"]
    [] i.kind \in {"sev", "sevl"} -> [s EXCEPT !.event = TRUE]
    [] i.kind = "clrex" -> Cleared(s)
    [] OTHER -> s

\* DSB, DMB and ISB all drain.
BarrierA64(i) == Unless(i.op2 \notin 4..6 \/ (i.op2 = 6 /\ i.t # 31), [op |-> "barrier"])

PstateField == [k \in {<<0, 5>>, <<3, 6>>, <<3, 7>>} |-> CASE k[2] = 5 -> "spsel" [] k[2] = 6 -> "daifset" [] k[2] = 7 -> "daifclr"]
MsrImmediateA64(i) ==
  Unless(<<i.op1s, i.op2>> \notin DOMAIN PstateField \/ i.t # 31,
    [op |-> "msr immediate", field |-> PstateField[<<i.op1s, i.op2>>], operand |-> i.crm])
MsrImmediate(s, i) ==
  CASE i.field = "daifset" -> SetDaif(s, Or(Daif(s.psr), i.operand, 4))
    [] i.field = "daifclr" -> SetDaif(s, And(Daif(s.psr), BitNot(i.operand, 4), 4))
    [] i.field = "spsel" -> [s EXCEPT !.psr.sp = i.operand % 2]

\* Whatever its scope, TLBI (CRn 8 and 9) empties the TLB of this core, and of no other.
SystemInstruction(s, i) ==
  IF i.read THEN SetX(s, i.t, 0, XBits) ELSE IF i.crn \in {8, 9} THEN Flush(s) ELSE s

\* Writing these flushes the TLB; no register of EL2 or EL3 is among them.
TranslationControl == {<<"sctlr", 1>>, <<"ttbr0", 1>>, <<"ttbr1", 1>>, <<"tcr", 1>>, <<"mair", 1>>}
\* register: the name and level its five fields stand for.
SystemRegisterMove(s, i) ==
  LET written == SetSystemRegister(s, i.register[1], i.register[2], GetX(s, i.t, XBits))
  IN  IF i.read THEN SetX(s, i.t, GetSystemRegister(s, i.register[1], i.register[2]), XBits)
      ELSE IF i.register \in TranslationControl THEN Flush(written) ELSE written

\* The space splits on op0 (20:19), then on CRn: hints 2, barriers 3, PSTATE 4.
DecodeSystem(i) ==
  CASE i.sysop = 0 /\ i.crn = 4 -> MsrImmediateA64(i)
    [] i.sysop = 0 /\ i.crn = 2 -> HintA64(i)
    [] i.sysop = 0 /\ i.crn = 3 -> IF i.op2 = 2 THEN [op |-> "hint", kind |-> "clrex"] ELSE BarrierA64(i)
    [] i.sysop = 1 -> [op |-> "system", t |-> i.t, crn |-> i.crn, read |-> i.read]
    [] i.sysop >= 2 -> [op |-> "mrs", t |-> i.t, register |-> i.register, read |-> i.read]
    [] OTHER -> Refused
DecodeBranchRegister(i) ==
  CASE i.opc = 4 -> ExceptionReturnA64(i) [] i.opc \in 0..2 -> BranchRegister(i) [] OTHER -> Refused
DecodeBranchSystem(i) ==
  CASE i.op0 % 4 = 0 -> BranchImmediate(i)
    [] i.op0 % 4 = 1 -> IF At(i.op1, 3) THEN TestAndBranch(i) ELSE CompareAndBranch(i)
    [] i.op0 = 2 /\ i.op1 < 8 -> BranchConditional(i)
    [] i.op0 = 6 /\ i.op1 < 4 -> ExceptionGenerationA64(i)
    [] i.op0 = 6 /\ i.op1 >= 8 -> DecodeBranchRegister(i)
    [] i.op0 = 6 /\ i.op1 = 4 -> DecodeSystem(i)
    [] OTHER -> Refused

Branching == {"b", "b.cond", "cbz", "tbz", "br"}
System(s, i) ==
  CASE i.op = "eret" -> Eret(s)
    [] i.op = "generate" -> ExceptionGeneration(s, i)
    [] i.op = "hint" -> Hint(s, i)
    [] i.op = "barrier" -> DrainStoreBuffer(s)
    [] i.op = "msr immediate" -> MsrImmediate(s, i)
    [] i.op = "system" -> SystemInstruction(s, i)
    [] i.op = "mrs" -> SystemRegisterMove(s, i)

-----------------------------------------------------------------------------
(* Decoding and executing any instruction; group is bits 28:25 *)

DecodeInstruction(i) ==
  CASE i.group \in {8, 9, 5, 13} -> DecodeDataProcessing(i)
    [] i.group \in {10, 11} -> DecodeBranchSystem(i)
    [] i.group \in {4, 6, 12, 14} -> DecodeLoadStore(i)
    [] OTHER -> Refused
Execute(s, i) ==
  CASE i = Refused -> Raise(s, Exception("undefined"))
    [] i.op \in Moving -> Move(s, i)
    [] i.op \in Computing -> Compute(s, i)
    [] i.op \in Branching -> Branch(s, i)
    [] OTHER -> System(s, i)

Advance(s) == IF Fine(s) /\ ~s.branched THEN IncrementPc(s, InstrBytes) ELSE s

\* Calls complete, so they return behind themselves; faults are taken again.
Behind(e, here, next) == IF e.type \in Calls \cup {"brk"} THEN next ELSE here
Caught(s, here) ==
  IF Fine(s) THEN s ELSE TakeException(s, s.raised, Behind(s.raised, here, LowerChunk(here + InstrBytes, XBits)))

\* Code is what is at a physical address: the programs do not write to it.
FetchInstruction(s) ==
  IF s.pc % InstrBytes # 0 THEN Reached(Raise(s, [Exception("pc alignment") EXCEPT !.address = s.pc]), 0, FALSE)
  ELSE TranslateAddress(s, s.pc, FALSE, TRUE)
Executed(t, code) ==
  IF ~Fine(t.core) THEN t.core
  ELSE IF t.pa \in DOMAIN code THEN Execute(t.core, DecodeInstruction(code[t.pa])) ELSE Raise(t.core, Exception("undefined"))
EmulateA64Cycle(s, code) ==
  Caught(Advance(IF s.psr.il = 1 THEN Raise(s, Exception("illegal state"))
                 ELSE Executed(FetchInstruction([s EXCEPT !.branched = FALSE]), code)), s.pc)
-----------------------------------------------------------------------------
(* aarch32.py: an AArch32 application at EL0, run by the opcodes of the    *)
(* ARMv6 core on a view of the AArch64 one.  A register of the view is the *)
(* low half of an X; the PC, the instruction set and the IT state are the  *)
(* view's own.  Of the opcodes (armulator/armv6) the few are here that a   *)
(* program of the bench needs to reach every method of the view.           *)

PC == 15
Word == 4

InView(address) == LowerChunk(address, WBits)
\* The PC reads two instructions ahead.
ViewGet(s, n) == IF n = PC THEN InView(s.view.pc + (IF s.view.thumb THEN 4 ELSE 8)) ELSE GetX(s, n, WBits)
ViewBranchTo(s, address) == [s EXCEPT !.view.pc = InView(address), !.view.branched = TRUE]
ViewSet(s, n, value) == IF n = PC THEN ViewBranchTo(s, value) ELSE SetX(s, n, value, WBits)

BranchWritePc(s, address) == ViewBranchTo(s, Above(address, IF s.view.thumb THEN 1 ELSE 2))
\* Bit 0 of an address names the instruction set.
BxWritePc(s, address) ==
  ViewBranchTo([s EXCEPT !.view.thumb = At(address, 0)], Above(address, IF At(address, 0) THEN 1 ELSE 2))

\* Of the IT state: whether this instruction is in a block, and the state of the next.
InItBlock(s) == s.view.it % 16 # 0
ItAdvance(s) ==
  [s EXCEPT !.view.it = IF @ % 8 = 0 THEN 0 ELSE Above(@, 5) + LowerChunk(@ * 2, 5)]

\* A condition is in the instruction, except in T32, where a block gives it to all but a branch.
CurrentCond(s, i) ==
  IF ~s.view.thumb \/ i.op = "b" THEN i.cond ELSE IF InItBlock(s) THEN s.view.it \div 16 ELSE 14
ConditionPassed(s, i) == ConditionHolds(s, CurrentCond(s, i))

MemUGet(s, address, size) == MemGet(s, InView(address), size, FALSE)
MemUSet(s, address, size, value) == MemSet(s, InView(address), size, value, FALSE)
ExclusiveMonitorsPass(s, address) == s.reserved = Block(InView(address))

-----------------------------------------------------------------------------
(* The opcodes of the ARMv6 core, on what they are given *)

SubFlags(s, i, sum) == ViewSet(SetFlags(s, sum.value, sum.carry, sum.overflow, WBits), i.d, sum.value)
LoadWord(got, i) == IF Fine(got.core) THEN ViewSet(got.core, i.t, got.value) ELSE got.core
\* STREX: nothing is stored, and the register says so, where the reservation is gone.
StoreWordExclusive(s, i, address) ==
  IF ~ExclusiveMonitorsPass(s, address) THEN ViewSet(Cleared(s), i.d, 1)
  ELSE LET t == MemSet(Cleared(s), InView(address), Word, ViewGet(s, i.t), TRUE) IN IF Fine(t) THEN ViewSet(t, i.d, 0) ELSE t
Perform32(s, i) ==
  CASE i.op = "mov" -> ViewSet(s, i.d, i.imm)
    [] i.op = "add" -> ViewSet(s, i.d, ViewGet(s, i.n) + i.imm)
    [] i.op = "subs" -> SubFlags(s, i, AddWithCarry(ViewGet(s, i.n), BitNot(i.imm, WBits), 1, WBits))
    [] i.op = "b" -> BranchWritePc(s, ViewGet(s, PC) + i.imm)
    [] i.op = "bx" -> BxWritePc(s, ViewGet(s, i.m))
    [] i.op = "it" -> [s EXCEPT !.view.it = i.imm]
    [] i.op = "ldr" -> LoadWord(MemUGet(s, ViewGet(s, i.n) + i.imm, Word), i)
    [] i.op = "str" -> MemUSet(s, ViewGet(s, i.n) + i.imm, Word, ViewGet(s, i.t))
    [] i.op = "ldrex" -> LoadWord(MemGet([s EXCEPT !.reserved = Block(ViewGet(s, i.n))], ViewGet(s, i.n), Word, TRUE), i)
    [] i.op = "strex" -> StoreWordExclusive(s, i, ViewGet(s, i.n))
    [] i.op = "svc" -> Raise(s, [Exception("svc") EXCEPT !.immediate = i.imm])
Execute32(s, i) == IF i.op = "it" \/ ConditionPassed(s, i) THEN Perform32(s, i) ELSE s

-----------------------------------------------------------------------------
(* One cycle *)

\* MUTANT: the state of a block moves on even outside of one.
StepIt_Always(s, t) == IF Fine(t) THEN ItAdvance(t) ELSE t

\* Whether the state moves on was decided before the instruction, which may be IT itself.
StepIt(s, t) == IF InItBlock(s) /\ Fine(t) THEN ItAdvance(t) ELSE t
AdvanceView(s, bytes) == IF ~Fine(s) \/ s.view.branched THEN s ELSE [s EXCEPT !.view.pc = InView(@ + bytes)]

\* The PC of the core is put where the view was before the exception is taken.
Caught32(s, here, bytes) ==
  IF Fine(s) THEN s
  ELSE LET return == Behind(s.raised, here, InView(here + bytes))
       IN  TakeException([BranchTo(s, return) EXCEPT !.branched = FALSE], s.raised, return)

\* T32 code may be a halfword.  It is fetched as data.
Fetch32(s) == TranslateAddress(s, s.view.pc, FALSE, FALSE)
Executed32(s, i) ==
  AdvanceView(StepIt(s, Execute32([s EXCEPT !.view.branched = FALSE], i)), i.bytes)
EmulateA32Cycle(s, code) ==
  LET t == Fetch32(s)
  IN  IF ~Fine(t.core) THEN Caught32(t.core, s.view.pc, Word)
      ELSE IF t.pa \notin DOMAIN code THEN Caught32(Raise(t.core, Exception("undefined")), s.view.pc, Word)
      ELSE Caught32(Executed32(t.core, code[t.pa]), s.view.pc, code[t.pa].bytes)

\* Stores retire, in whatever state; then an instruction is run.
EmulateCycle(s, code) ==
  LET t == RetirePendingStores(Aged(s))
  IN  IF t.crashed THEN t ELSE IF t.psr.nrw = 1 THEN EmulateA32Cycle(t, code) ELSE EmulateA64Cycle(t, code)
=============================================================================
