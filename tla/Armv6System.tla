---------------------------- MODULE Armv6System ----------------------------
(***************************************************************************)
(* Branches, the status registers, exceptions and the ways back from them, *)
(* hints and coprocessors.  The extensions that the shipped configuration  *)
(* has not (Jazelle, ThumbEE) are left out.                                *)
(*                                                                         *)
(* raised is the Python exception an instruction ends with: an             *)
(* architectural one, or "stub" where the emulator has no implementation.  *)
(***************************************************************************)
EXTENDS Armv6LoadStore

All == {0, 1, 2, 3}   \* the bytes of a status register

-----------------------------------------------------------------------------
(* Branches *)

B(i, s) == IfPassed(i, s, BranchWritePc(s, Add(GetPc(s), i.imm32)))

\* i.target is the instruction set of the target, as CPSR.T has it.
BlBlxImmediate(i, s) ==
  LET linked == Set(s, 14, IF s.psr.t = 0 THEN Sub(GetPc(s), 4) ELSE SetSubstring(GetPc(s), 0, 0, 1))
      base == IF i.target = 0 THEN Align(GetPc(s), 4) ELSE GetPc(s)
  IN  IfPassed(i, s, BranchWritePc(SelectInstrSet(linked, i.target), Add(base, i.imm32)))

BlxRegister(i, s) ==
  LET link == IF s.psr.t = 0 THEN GetPc(s) - 4 ELSE GetPc(s) - 1
  IN  IfPassed(i, s, BxWritePc(Set(s, 14, link), Get(s, i.m)))

Bx(i, s) == IfPassed(i, s, BxWritePc(s, Get(s, i.m)))

\* JMCR.JE is always 0.
Bxj(i, s) ==
  IfPassed(i, s, IF HaveVirtExt /\ ~IsSecure(s) /\ s.psr.m # "hyp" /\ s.hstr_tjdbx = 1
                 THEN TakeHypTrapException(s) ELSE BxWritePc(s, Get(s, i.m)))

Cbz(i, s) ==
  IF i.nonzero = (Get(s, i.n) # 0) THEN BranchWritePc(s, Add(GetPc(s), i.imm32)) ELSE s

-----------------------------------------------------------------------------
(* Status registers *)

\* What MRS shows of CPSR, and of its fields an unprivileged program does not see.
Apsr(p) == [ZeroPsr EXCEPT !.n = p.n, !.z = p.z, !.c = p.c, !.v = p.v, !.q = p.q, !.ge = p.ge]
Readable(p) == [p EXCEPT !.it = 0, !.t = 0]
ReadableByUser(p) == [Apsr(p) EXCEPT !.e = 0, !.m = Reserved]

MrsApplication(i, s) == IfPassed(i, s, Set(s, i.d, Apsr(s.psr)))

MrsSystem(i, s) ==
  LET seen == IF CurrentModeIsNotUser(s) THEN Readable(s.psr) ELSE ReadableByUser(s.psr)
  IN  IfPassed(i, s, IF ~i.read_spsr THEN Set(s, i.d, seen)
                     ELSE IF CurrentModeIsUserOrSystem(s) THEN s ELSE Set(s, i.d, GetSpsr(s)))

MsrApplication(i, s, value) ==
  LET flags == IF i.write_nzcvq
               THEN [s.psr EXCEPT !.n = value.n, !.z = value.z, !.c = value.c, !.v = value.v, !.q = value.q]
               ELSE s.psr
  IN  [s EXCEPT !.psr = IF i.write_g THEN [flags EXCEPT !.ge = value.ge] ELSE flags]

MsrSystem(i, s, value) ==
  IF i.write_spsr THEN SpsrWriteByInstr(s, value, i.mask) ELSE CpsrWriteByInstr(s, value, i.mask, FALSE)

\* i.imm is the immediate as the fields of a status register.
MsrImmediateApplication(i, s) == IfPassed(i, s, MsrApplication(i, s, i.imm))
MsrRegisterApplication(i, s) == IfPassed(i, s, MsrApplication(i, s, Get(s, i.n)))
MsrImmediateSystem(i, s) == IfPassed(i, s, MsrSystem(i, s, i.imm))
MsrRegisterSystem(i, s) == IfPassed(i, s, MsrSystem(i, s, Get(s, i.n)))

\* i.affect: the masks to clear or to set; i.mode the mode, or Reserved to keep it.
\* There is no condition.
CpsArm(i, s) ==
  LET mask(name, bit) == IF name \in i.affect /\ i.enable THEN 0
                         ELSE IF name \in i.affect /\ i.disable THEN 1 ELSE bit
      masked == [s.psr EXCEPT !.a = mask("a", @), !.i = mask("i", @), !.f = mask("f", @)]
      value == IF i.change_mode THEN [masked EXCEPT !.m = i.mode] ELSE masked
  IN  IF CurrentModeIsNotUser(s) THEN CpsrWriteByInstr(s, value, All, FALSE) ELSE s
CpsThumb(i, s) == CpsArm(i, s)

Setend(i, s) == [s EXCEPT !.psr.e = i.set_bigend]
It(i, s) == [s EXCEPT !.psr.it = Chain(i.firstcond, i.mask, 4)]

-----------------------------------------------------------------------------
(* Exceptions *)

\* (CallSupervisor also leaves a syndrome for the hypervisor.)
Svc(i, s) == IfPassed(i, s, Raise(s, "svc"))
Udf(i, s) == IfPassed(i, s, Raise(s, "undef"))
Bkpt(i, s) == Raise(s, "stub")

\* The hypervisor's traps of the instructions of its guests.
Trapped(s, trap) == HaveVirtExt /\ ~IsSecure(s) /\ s.psr.m # "hyp" /\ s.hcr[trap] = 1

\* With SCD set in the secure world nothing happens.
Smc(i, s) ==
  IfPassed(i, s,
    CASE ~(HaveSecurityExt /\ CurrentModeIsNotUser(s)) -> Raise(s, "undef")
      [] HaveSecurityExt /\ CurrentModeIsNotUser(s) /\ Trapped(s, "tsc") -> TakeHypTrapException(s)
      [] HaveSecurityExt /\ CurrentModeIsNotUser(s) /\ ~Trapped(s, "tsc") /\ s.scr.scd = 1 ->
           IF IsSecure(s) THEN s ELSE Raise(s, "undef")
      [] OTHER -> Raise(s, "smc"))

-----------------------------------------------------------------------------
(* Returns from exceptions: CPSR from the SPSR, then PC in the instruction set *)
(* that is restored                                                            *)

\* MUTANT: the address is aligned for the instruction set that is left.
ExceptionReturn_AlignsFirst(s, psr, address) ==
  BranchTo(CpsrWriteByInstr(s, psr, All, TRUE), Align(address, IF s.psr.t = 1 THEN 2 ELSE 4))

ExceptionReturn(s, psr, address) == BranchWritePc(CpsrWriteByInstr(s, psr, All, TRUE), address)

Eret(i, s) ==
  LET address == IF s.psr.m = "hyp" THEN s.elr_hyp ELSE Get(s, 14)
  IN  IfPassed(i, s, IF CurrentModeIsUserOrSystem(s) THEN s ELSE ExceptionReturn(s, GetSpsr(s), address))

\* i.opcode: the data-processing operation that computes the address.
SubsPcLrArm(i, s) ==
  LET operand2 == IF i.register_form THEN Reg(i, s) ELSE i.imm32
      n == Get(s, i.n)
      address == CASE i.opcode = "and" -> And(n, operand2)
                   [] i.opcode = "eor" -> Eor(n, operand2)
                   [] i.opcode = "sub" -> Sub(n, operand2)
                   [] i.opcode = "rsb" -> Sub(operand2, n)
                   [] i.opcode = "add" -> Add(n, operand2)
                   [] i.opcode = "adc" -> Add(n, operand2 + s.psr.c)
                   [] i.opcode = "sbc" -> AddWithCarry(n, Not(operand2), s.psr.c).value
                   [] i.opcode = "rsc" -> AddWithCarry(Not(n), operand2, s.psr.c).value
                   [] i.opcode = "orr" -> Or(n, operand2)
                   [] i.opcode = "mov" -> operand2
                   [] i.opcode = "bic" -> BitClear(n, operand2)
                   [] i.opcode = "mvn" -> Not(operand2)
  IN  Privileged(i, s, ExceptionReturn(s, GetSpsr(s), address))

\* CPSR is not restored.
SubsPcLrThumb(i, s) ==
  IfPassed(i, s, IF CurrentModeIsUserOrSystem(s) THEN s ELSE BranchWritePc(s, Sub(Get(s, i.n), i.imm32)))

\* i.registers leaves PC out: it is always loaded, last.
LdmExceptionReturn(i, s) ==
  LET length == Bytes(i) + 4
      base == IF i.increment THEN Add(Get(s, i.n), length) ELSE Sub(Get(s, i.n), length)
      Based(t) == IF i.wback THEN Set(t, i.n, IF i.n \in i.registers THEN 0 ELSE base) ELSE t
      Return(a) == Loaded(a, ExceptionReturn(Based(a.state), GetSpsr(a.state), a.value))
      Finish(a) == Loaded(a, Return(MemAGet(a.state, a.value, 4)))
  IN  Privileged(i, s, Finish(LoadList(s, Start(i, s, length), i.registers, TRUE, FALSE, TRUE)))

Rfe(i, s) ==
  LET address == Start(i, s, 8)
      base == IF i.increment THEN Add(Get(s, i.n), 8) ELSE Sub(Get(s, i.n), 8)
      Return(a, pc) == Loaded(a, ExceptionReturn(WriteBack(i, a.state, base), a.value, pc))
      Finish(a) == Loaded(a, Return(MemAGet(a.state, Add(address, 4), 4), a.value))
  IN  IfPassed(i, s, IF s.psr.m = "hyp" THEN Raise(s, "undef")
                     ELSE IF CurrentModeIsNotUser(s) THEN Finish(MemAGet(s, address, 4)) ELSE s)

\* LR and SPSR to the stack of another mode.  The stack of a mode the non-secure
\* world may not enter is only reported.
SrsArm(i, s) ==
  LET base == GetRmode(s, 13, i.mode)
      lowest == IF i.increment THEN base ELSE Sub(base, 8)
      address == IF i.word_higher THEN Add(lowest, 4) ELSE lowest
      first == MemASet(s, address, 4, Get(s, 14))
      second == MemASet(first, Add(address, 4), 4, GetSpsr(s))
      written == IF i.wback THEN SetRmode(second, 13, i.mode, IF i.increment THEN Add(base, 8) ELSE Sub(base, 8))
                 ELSE second
  IN  Privileged(i, s, IF i.mode = "hyp" THEN s ELSE Then(first, Then(second, written)))
SrsThumb(i, s) == SrsArm(i, s)

-----------------------------------------------------------------------------
(* Hints and barriers: most are not implemented.  The wait flags are set and   *)
(* nothing reads them.                                                         *)

Nop(i, s) == s
Clrex(i, s) == s
Wfe(i, s) ==
  IfPassed(i, s, IF s.event THEN [s EXCEPT !.event = FALSE]
                 ELSE IF Trapped(s, "twe") THEN TakeHypTrapException(s)
                 ELSE [s EXCEPT !.waiting = @ \cup {"event"}])
Wfi(i, s) ==
  IfPassed(i, s, IF Trapped(s, "twi") THEN TakeHypTrapException(s)
                 ELSE [s EXCEPT !.waiting = @ \cup {"interrupt"}])

Stub(i, s) == IfPassed(i, s, Raise(s, "stub"))
Sev(i, s) == Stub(i, s)
Yield(i, s) == Stub(i, s)
Dsb(i, s) == Stub(i, s)
Isb(i, s) == Stub(i, s)
PldImmediate(i, s) == Stub(i, s)
PldLiteral(i, s) == Stub(i, s)
PldRegister(i, s) == Stub(i, s)

-----------------------------------------------------------------------------
(* Coprocessors: the access checks are made, what follows them is not          *)
(* implemented.  (The hypervisor's traps are left out.)                        *)

\* The coprocessors that CPACR and NSACR give access to.
Accessible(i, s) ==
  /\ IsSecure(s) \/ ~HaveSecurityExt \/ s.nsacr_cp[i.cp]
  /\ \/ HaveVirtExt /\ s.psr.m = "hyp"
     \/ s.cpacr[i.cp] \in {2, 3}
     \/ s.cpacr[i.cp] = 1 /\ CurrentModeIsNotUser(s)

\* i.form: a move of one word, of two, a transfer of memory or the unconditional
\* encodings; i.opc1, i.crd and i.low are fields of the encoding.
Decoded14(i, s) ==
  LET opc1 == IF i.form = "memory" THEN 0 ELSE i.opc1
  IN  /\ i.form # "unconditional"
      /\ i.form = "two" => opc1 = 0
      /\ i.form = "memory" => i.crd = 5
      /\ opc1 \in {0, 1, 6, 7}
      /\ opc1 = 6 => \/ i.unpredictable
                     \/ (CurrentModeIsNotUser(s) \/ (i.low.zero = 1 /\ ~(i.low.one = 1 /\ s.teecr_xed = 1)))
Decoded15(i, s) == i.form \in {"one", "two"}

Coprocessor(i, s) ==
  LET decoded == CASE i.cp = 14 -> Decoded14(i, s)
                   [] i.cp = 15 -> Decoded15(i, s)
                   [] OTHER     -> Accessible(i, s)
  IN  IfPassed(i, s, Raise(s, IF decoded THEN "stub" ELSE "undef"))

CdpCdp2(i, s) == Coprocessor(i, s)
LdcLdc2Immediate(i, s) == Coprocessor(i, s)
LdcLdc2Literal(i, s) == Coprocessor(i, s)
McrMcr2(i, s) == Coprocessor(i, s)
McrrMcrr2(i, s) == Coprocessor(i, s)
MrcMrc2(i, s) == Coprocessor(i, s)
MrrcMrrc2(i, s) == Coprocessor(i, s)
StcStc2(i, s) == Coprocessor(i, s)

-----------------------------------------------------------------------------
(* The cycle *)

\* take_reset, with the vector of SCTLR.V; bit 0 of it is cleared.
TakeReset(s) ==
  LET t == [s EXCEPT !.scr.ns = IF HaveSecurityExt THEN 0 ELSE @, !.vbar = 0]
  IN  BranchTo([t EXCEPT !.psr = [s.psr EXCEPT !.m = "svc", !.i = 1, !.f = 1, !.a = 1, !.it = 0,
                                               !.t = s.sctlr.te, !.e = s.sctlr.ee]],
               Align(ExcVectorBase(t), 2))

\* A fetch is a data access like any other: it goes through CPSR.E, and its aborts
\* are data aborts.
FetchInstruction(s, length) ==
  LET first == MemAGet(s, s.pc, IF s.psr.t = 1 THEN 2 ELSE 4).state
  IN  Then(first, IF s.psr.t = 1 /\ length = 4 THEN MemAGet(s, Add(s.pc, 2), 2).state ELSE first)

\* The IT state advances after an instruction in a block: whatever state is there by
\* then, also one that the instruction restored.
ExecuteInstruction(i, Opcode(_, _), s) ==
  LET after == Opcode(i, [s EXCEPT !.branched = FALSE])
  IN  Then(after, IF InItBlock(s) THEN ItAdvance(after) ELSE after)

IncrementPcIfNeeded(s, length) == IF s.branched THEN s ELSE [s EXCEPT !.pc = Add(@, length)]

TakeException(raising) ==
  LET s == [raising EXCEPT !.raised = "none"]
  IN  CASE raising.raised = "svc"   -> TakeSvcException(s)
        [] raising.raised = "smc"   -> TakeSmcException(s)
        [] raising.raised = "dabt"  -> TakeDataAbortException(s, FALSE, s.dfsr.status = 1)
        [] raising.raised = "undef" -> TakeUndefInstrException(s)
        [] OTHER -> raising

EmulateCycle(i, Opcode(_, _), s) ==
  LET fetched == FetchInstruction(s, i.length)
      executed == Then(fetched, ExecuteInstruction(i, Opcode, fetched))
  IN  IF executed.raised = "none" THEN IncrementPcIfNeeded(executed, i.length)
      ELSE TakeException(executed)
=============================================================================
