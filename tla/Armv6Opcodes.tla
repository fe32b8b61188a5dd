---------------------------- MODULE Armv6Opcodes ----------------------------
(***************************************************************************)
(* The opcode an instruction is decoded to (i.op is the name of its class) *)
(* and how instructions are written for the programs of the benches.       *)
(***************************************************************************)
EXTENDS Armv6System

DataProcessingOpcodes == {
  "AdcImmediate", "AdcRegister", "AdcRegisterShiftedRegister", "AddImmediateArm",
  "AddImmediateThumb", "AddRegisterArm", "AddRegisterShiftedRegister", "AddRegisterThumb",
  "AddSpPlusImmediate", "AddSpPlusRegisterArm", "AddSpPlusRegisterThumb", "Adr", "AndImmediate",
  "AndRegister", "AndRegisterShiftedRegister", "AsrImmediate", "AsrRegister", "Bfc", "Bfi",
  "BicImmediate", "BicRegister", "BicRegisterShiftedRegister", "Clz", "CmnImmediate",
  "CmnRegister", "CmnRegisterShiftedRegister", "CmpImmediate", "CmpRegister",
  "CmpRegisterShiftedRegister", "EorImmediate", "EorRegister", "EorRegisterShiftedRegister",
  "LslImmediate", "LslRegister", "LsrImmediate", "LsrRegister", "MovImmediate", "MovRegisterArm",
  "MovRegisterThumb", "Movt", "MvnImmediate", "MvnRegister", "MvnRegisterShiftedRegister",
  "OrnImmediate", "OrnRegister", "OrrImmediate", "OrrRegister", "OrrRegisterShiftedRegister",
  "Pkh", "Rbit", "Rev", "Rev16", "Revsh", "RorImmediate", "RorRegister", "Rrx", "RsbImmediate",
  "RsbRegister", "RsbRegisterShiftedRegister", "RscImmediate", "RscRegister",
  "RscRegisterShiftedRegister", "SbcImmediate", "SbcRegister", "SbcRegisterShiftedRegister",
  "Sbfx", "Sel", "SubImmediateArm", "SubImmediateThumb", "SubRegister",
  "SubRegisterShiftedRegister", "SubSpMinusImmediate", "SubSpMinusRegister", "TeqImmediate",
  "TeqRegister", "TeqRegisterShiftedRegister", "TstImmediate", "TstRegister",
  "TstRegisterShiftedRegister", "Ubfx"}

MediaOpcodes == {
  "Mla", "Mls", "Mul", "Qadd", "Qadd16", "Qadd8", "Qasx", "Qdadd", "Qdsub", "Qsax", "Qsub",
  "Qsub16", "Qsub8", "Sadd16", "Sadd8", "Sasx", "Sdiv", "Shadd16", "Shadd8", "Shasx", "Shsax",
  "Shsub16", "Shsub8", "Smla", "Smlad", "Smlal", "Smlald", "Smlalxy", "Smlaw", "Smlsd", "Smlsld",
  "Smmla", "Smmls", "Smmul", "Smuad", "Smul", "Smull", "Smulw", "Smusd", "Ssat", "Ssat16", "Ssax",
  "Ssub16", "Ssub8", "Sxtab", "Sxtab16", "Sxtah", "Sxtb", "Sxtb16", "Sxth", "Uadd16", "Uadd8",
  "Uasx", "Udiv", "Uhadd16", "Uhadd8", "Uhasx", "Uhsax", "Uhsub16", "Uhsub8", "Umaal", "Umlal",
  "Umull", "Uqadd16", "Uqadd8", "Uqasx", "Uqsax", "Uqsub16", "Uqsub8", "Usad8", "Usada8", "Usat",
  "Usat16", "Usax", "Usub16", "Usub8", "Uxtab", "Uxtab16", "Uxtah", "Uxtb", "Uxtb16", "Uxth"}

LoadStoreOpcodes == {
  "LdmArm", "LdmThumb", "LdmUserRegisters", "Ldmda", "Ldmdb", "Ldmib", "LdrImmediateArm",
  "LdrImmediateThumb", "LdrLiteral", "LdrRegisterArm", "LdrRegisterThumb", "LdrbImmediateArm",
  "LdrbImmediateThumb", "LdrbLiteral", "LdrbRegister", "Ldrbt", "LdrdImmediate", "LdrdLiteral",
  "LdrdRegister", "Ldrex", "Ldrexb", "Ldrexd", "Ldrexh", "LdrhImmediateArm", "LdrhImmediateThumb",
  "LdrhLiteral", "LdrhRegister", "Ldrht", "LdrsbImmediate", "LdrsbLiteral", "LdrsbRegister",
  "Ldrsbt", "LdrshImmediate", "LdrshLiteral", "LdrshRegister", "Ldrsht", "Ldrt", "PopArm",
  "PopThumb", "Push", "Stm", "StmUserRegisters", "Stmda", "Stmdb", "Stmib", "StrImmediateArm",
  "StrImmediateThumb", "StrRegister", "StrbImmediateArm", "StrbImmediateThumb", "StrbRegister",
  "Strbt", "StrdImmediate", "StrdRegister", "Strex", "Strexb", "Strexd", "Strexh",
  "StrhImmediateArm", "StrhImmediateThumb", "StrhRegister", "Strht", "Strt", "TbbTbh"}

SystemOpcodes == {
  "B", "Bkpt", "BlBlxImmediate", "BlxRegister", "Bx", "Bxj", "Cbz", "CdpCdp2", "Clrex", "CpsArm",
  "CpsThumb", "Dsb", "Eret", "Isb", "It", "LdcLdc2Immediate", "LdcLdc2Literal",
  "LdmExceptionReturn", "McrMcr2", "McrrMcrr2", "MrcMrc2", "MrrcMrrc2", "MrsApplication",
  "MrsSystem", "MsrImmediateApplication", "MsrImmediateSystem", "MsrRegisterApplication",
  "MsrRegisterSystem", "Nop", "PldImmediate", "PldLiteral", "PldRegister", "Rfe", "Setend", "Sev",
  "Smc", "SrsArm", "SrsThumb", "StcStc2", "SubsPcLrArm", "SubsPcLrThumb", "Svc", "Udf", "Wfe",
  "Wfi", "Yield"}

\* Registers, flags and bit fields.
DataProcessingOpcode(i, s) ==
  CASE i.op = "AdcImmediate" -> AdcImmediate(i, s) [] i.op = "AdcRegister" -> AdcRegister(i, s)
    [] i.op = "AdcRegisterShiftedRegister" -> AdcRegisterShiftedRegister(i, s)
    [] i.op = "AddImmediateArm" -> AddImmediateArm(i, s)
    [] i.op = "AddImmediateThumb" -> AddImmediateThumb(i, s)
    [] i.op = "AddRegisterArm" -> AddRegisterArm(i, s)
    [] i.op = "AddRegisterShiftedRegister" -> AddRegisterShiftedRegister(i, s)
    [] i.op = "AddRegisterThumb" -> AddRegisterThumb(i, s)
    [] i.op = "AddSpPlusImmediate" -> AddSpPlusImmediate(i, s)
    [] i.op = "AddSpPlusRegisterArm" -> AddSpPlusRegisterArm(i, s)
    [] i.op = "AddSpPlusRegisterThumb" -> AddSpPlusRegisterThumb(i, s) [] i.op = "Adr" -> Adr(i, s)
    [] i.op = "AndImmediate" -> AndImmediate(i, s) [] i.op = "AndRegister" -> AndRegister(i, s)
    [] i.op = "AndRegisterShiftedRegister" -> AndRegisterShiftedRegister(i, s)
    [] i.op = "AsrImmediate" -> AsrImmediate(i, s) [] i.op = "AsrRegister" -> AsrRegister(i, s)
    [] i.op = "Bfc" -> Bfc(i, s) [] i.op = "Bfi" -> Bfi(i, s) [] i.op = "BicImmediate" -> BicImmediate(i, s)
    [] i.op = "BicRegister" -> BicRegister(i, s)
    [] i.op = "BicRegisterShiftedRegister" -> BicRegisterShiftedRegister(i, s) [] i.op = "Clz" -> Clz(i, s)
    [] i.op = "CmnImmediate" -> CmnImmediate(i, s) [] i.op = "CmnRegister" -> CmnRegister(i, s)
    [] i.op = "CmnRegisterShiftedRegister" -> CmnRegisterShiftedRegister(i, s)
    [] i.op = "CmpImmediate" -> CmpImmediate(i, s) [] i.op = "CmpRegister" -> CmpRegister(i, s)
    [] i.op = "CmpRegisterShiftedRegister" -> CmpRegisterShiftedRegister(i, s)
    [] i.op = "EorImmediate" -> EorImmediate(i, s) [] i.op = "EorRegister" -> EorRegister(i, s)
    [] i.op = "EorRegisterShiftedRegister" -> EorRegisterShiftedRegister(i, s)
    [] i.op = "LslImmediate" -> LslImmediate(i, s) [] i.op = "LslRegister" -> LslRegister(i, s)
    [] i.op = "LsrImmediate" -> LsrImmediate(i, s) [] i.op = "LsrRegister" -> LsrRegister(i, s)
    [] i.op = "MovImmediate" -> MovImmediate(i, s) [] i.op = "MovRegisterArm" -> MovRegisterArm(i, s)
    [] i.op = "MovRegisterThumb" -> MovRegisterThumb(i, s) [] i.op = "Movt" -> Movt(i, s)
    [] i.op = "MvnImmediate" -> MvnImmediate(i, s) [] i.op = "MvnRegister" -> MvnRegister(i, s)
    [] i.op = "MvnRegisterShiftedRegister" -> MvnRegisterShiftedRegister(i, s)
    [] i.op = "OrnImmediate" -> OrnImmediate(i, s) [] i.op = "OrnRegister" -> OrnRegister(i, s)
    [] i.op = "OrrImmediate" -> OrrImmediate(i, s) [] i.op = "OrrRegister" -> OrrRegister(i, s)
    [] i.op = "OrrRegisterShiftedRegister" -> OrrRegisterShiftedRegister(i, s) [] i.op = "Pkh" -> Pkh(i, s)
    [] i.op = "Rbit" -> Rbit(i, s) [] i.op = "Rev" -> Rev(i, s) [] i.op = "Rev16" -> Rev16(i, s)
    [] i.op = "Revsh" -> Revsh(i, s) [] i.op = "RorImmediate" -> RorImmediate(i, s)
    [] i.op = "RorRegister" -> RorRegister(i, s) [] i.op = "Rrx" -> Rrx(i, s)
    [] i.op = "RsbImmediate" -> RsbImmediate(i, s) [] i.op = "RsbRegister" -> RsbRegister(i, s)
    [] i.op = "RsbRegisterShiftedRegister" -> RsbRegisterShiftedRegister(i, s)
    [] i.op = "RscImmediate" -> RscImmediate(i, s) [] i.op = "RscRegister" -> RscRegister(i, s)
    [] i.op = "RscRegisterShiftedRegister" -> RscRegisterShiftedRegister(i, s)
    [] i.op = "SbcImmediate" -> SbcImmediate(i, s) [] i.op = "SbcRegister" -> SbcRegister(i, s)
    [] i.op = "SbcRegisterShiftedRegister" -> SbcRegisterShiftedRegister(i, s) [] i.op = "Sbfx" -> Sbfx(i, s)
    [] i.op = "Sel" -> Sel(i, s) [] i.op = "SubImmediateArm" -> SubImmediateArm(i, s)
    [] i.op = "SubImmediateThumb" -> SubImmediateThumb(i, s) [] i.op = "SubRegister" -> SubRegister(i, s)
    [] i.op = "SubRegisterShiftedRegister" -> SubRegisterShiftedRegister(i, s)
    [] i.op = "SubSpMinusImmediate" -> SubSpMinusImmediate(i, s)
    [] i.op = "SubSpMinusRegister" -> SubSpMinusRegister(i, s) [] i.op = "TeqImmediate" -> TeqImmediate(i, s)
    [] i.op = "TeqRegister" -> TeqRegister(i, s)
    [] i.op = "TeqRegisterShiftedRegister" -> TeqRegisterShiftedRegister(i, s)
    [] i.op = "TstImmediate" -> TstImmediate(i, s) [] i.op = "TstRegister" -> TstRegister(i, s)
    [] i.op = "TstRegisterShiftedRegister" -> TstRegisterShiftedRegister(i, s) [] i.op = "Ubfx" -> Ubfx(i, s)

\* Multiplication, saturation, lanes and extension.
MediaOpcode(i, s) ==
  CASE i.op = "Mla" -> Mla(i, s) [] i.op = "Mls" -> Mls(i, s) [] i.op = "Mul" -> Mul(i, s)
    [] i.op = "Qadd" -> Qadd(i, s) [] i.op = "Qadd16" -> Qadd16(i, s) [] i.op = "Qadd8" -> Qadd8(i, s)
    [] i.op = "Qasx" -> Qasx(i, s) [] i.op = "Qdadd" -> Qdadd(i, s) [] i.op = "Qdsub" -> Qdsub(i, s)
    [] i.op = "Qsax" -> Qsax(i, s) [] i.op = "Qsub" -> Qsub(i, s) [] i.op = "Qsub16" -> Qsub16(i, s)
    [] i.op = "Qsub8" -> Qsub8(i, s) [] i.op = "Sadd16" -> Sadd16(i, s) [] i.op = "Sadd8" -> Sadd8(i, s)
    [] i.op = "Sasx" -> Sasx(i, s) [] i.op = "Sdiv" -> Sdiv(i, s) [] i.op = "Shadd16" -> Shadd16(i, s)
    [] i.op = "Shadd8" -> Shadd8(i, s) [] i.op = "Shasx" -> Shasx(i, s) [] i.op = "Shsax" -> Shsax(i, s)
    [] i.op = "Shsub16" -> Shsub16(i, s) [] i.op = "Shsub8" -> Shsub8(i, s) [] i.op = "Smla" -> Smla(i, s)
    [] i.op = "Smlad" -> Smlad(i, s) [] i.op = "Smlal" -> Smlal(i, s) [] i.op = "Smlald" -> Smlald(i, s)
    [] i.op = "Smlalxy" -> Smlalxy(i, s) [] i.op = "Smlaw" -> Smlaw(i, s) [] i.op = "Smlsd" -> Smlsd(i, s)
    [] i.op = "Smlsld" -> Smlsld(i, s) [] i.op = "Smmla" -> Smmla(i, s) [] i.op = "Smmls" -> Smmls(i, s)
    [] i.op = "Smmul" -> Smmul(i, s) [] i.op = "Smuad" -> Smuad(i, s) [] i.op = "Smul" -> Smul(i, s)
    [] i.op = "Smull" -> Smull(i, s) [] i.op = "Smulw" -> Smulw(i, s) [] i.op = "Smusd" -> Smusd(i, s)
    [] i.op = "Ssat" -> Ssat(i, s) [] i.op = "Ssat16" -> Ssat16(i, s) [] i.op = "Ssax" -> Ssax(i, s)
    [] i.op = "Ssub16" -> Ssub16(i, s) [] i.op = "Ssub8" -> Ssub8(i, s) [] i.op = "Sxtab" -> Sxtab(i, s)
    [] i.op = "Sxtab16" -> Sxtab16(i, s) [] i.op = "Sxtah" -> Sxtah(i, s) [] i.op = "Sxtb" -> Sxtb(i, s)
    [] i.op = "Sxtb16" -> Sxtb16(i, s) [] i.op = "Sxth" -> Sxth(i, s) [] i.op = "Uadd16" -> Uadd16(i, s)
    [] i.op = "Uadd8" -> Uadd8(i, s) [] i.op = "Uasx" -> Uasx(i, s) [] i.op = "Udiv" -> Udiv(i, s)
    [] i.op = "Uhadd16" -> Uhadd16(i, s) [] i.op = "Uhadd8" -> Uhadd8(i, s) [] i.op = "Uhasx" -> Uhasx(i, s)
    [] i.op = "Uhsax" -> Uhsax(i, s) [] i.op = "Uhsub16" -> Uhsub16(i, s) [] i.op = "Uhsub8" -> Uhsub8(i, s)
    [] i.op = "Umaal" -> Umaal(i, s) [] i.op = "Umlal" -> Umlal(i, s) [] i.op = "Umull" -> Umull(i, s)
    [] i.op = "Uqadd16" -> Uqadd16(i, s) [] i.op = "Uqadd8" -> Uqadd8(i, s) [] i.op = "Uqasx" -> Uqasx(i, s)
    [] i.op = "Uqsax" -> Uqsax(i, s) [] i.op = "Uqsub16" -> Uqsub16(i, s) [] i.op = "Uqsub8" -> Uqsub8(i, s)
    [] i.op = "Usad8" -> Usad8(i, s) [] i.op = "Usada8" -> Usada8(i, s) [] i.op = "Usat" -> Usat(i, s)
    [] i.op = "Usat16" -> Usat16(i, s) [] i.op = "Usax" -> Usax(i, s) [] i.op = "Usub16" -> Usub16(i, s)
    [] i.op = "Usub8" -> Usub8(i, s) [] i.op = "Uxtab" -> Uxtab(i, s) [] i.op = "Uxtab16" -> Uxtab16(i, s)
    [] i.op = "Uxtah" -> Uxtah(i, s) [] i.op = "Uxtb" -> Uxtb(i, s) [] i.op = "Uxtb16" -> Uxtb16(i, s)
    [] i.op = "Uxth" -> Uxth(i, s)

\* Loads and stores.
LoadStoreOpcode(i, s) ==
  CASE i.op = "LdmArm" -> LdmArm(i, s) [] i.op = "LdmThumb" -> LdmThumb(i, s)
    [] i.op = "LdmUserRegisters" -> LdmUserRegisters(i, s) [] i.op = "Ldmda" -> Ldmda(i, s)
    [] i.op = "Ldmdb" -> Ldmdb(i, s) [] i.op = "Ldmib" -> Ldmib(i, s)
    [] i.op = "LdrImmediateArm" -> LdrImmediateArm(i, s)
    [] i.op = "LdrImmediateThumb" -> LdrImmediateThumb(i, s) [] i.op = "LdrLiteral" -> LdrLiteral(i, s)
    [] i.op = "LdrRegisterArm" -> LdrRegisterArm(i, s) [] i.op = "LdrRegisterThumb" -> LdrRegisterThumb(i, s)
    [] i.op = "LdrbImmediateArm" -> LdrbImmediateArm(i, s)
    [] i.op = "LdrbImmediateThumb" -> LdrbImmediateThumb(i, s) [] i.op = "LdrbLiteral" -> LdrbLiteral(i, s)
    [] i.op = "LdrbRegister" -> LdrbRegister(i, s) [] i.op = "Ldrbt" -> Ldrbt(i, s)
    [] i.op = "LdrdImmediate" -> LdrdImmediate(i, s) [] i.op = "LdrdLiteral" -> LdrdLiteral(i, s)
    [] i.op = "LdrdRegister" -> LdrdRegister(i, s) [] i.op = "Ldrex" -> Ldrex(i, s)
    [] i.op = "Ldrexb" -> Ldrexb(i, s) [] i.op = "Ldrexd" -> Ldrexd(i, s) [] i.op = "Ldrexh" -> Ldrexh(i, s)
    [] i.op = "LdrhImmediateArm" -> LdrhImmediateArm(i, s)
    [] i.op = "LdrhImmediateThumb" -> LdrhImmediateThumb(i, s) [] i.op = "LdrhLiteral" -> LdrhLiteral(i, s)
    [] i.op = "LdrhRegister" -> LdrhRegister(i, s) [] i.op = "Ldrht" -> Ldrht(i, s)
    [] i.op = "LdrsbImmediate" -> LdrsbImmediate(i, s) [] i.op = "LdrsbLiteral" -> LdrsbLiteral(i, s)
    [] i.op = "LdrsbRegister" -> LdrsbRegister(i, s) [] i.op = "Ldrsbt" -> Ldrsbt(i, s)
    [] i.op = "LdrshImmediate" -> LdrshImmediate(i, s) [] i.op = "LdrshLiteral" -> LdrshLiteral(i, s)
    [] i.op = "LdrshRegister" -> LdrshRegister(i, s) [] i.op = "Ldrsht" -> Ldrsht(i, s)
    [] i.op = "Ldrt" -> Ldrt(i, s) [] i.op = "PopArm" -> PopArm(i, s) [] i.op = "PopThumb" -> PopThumb(i, s)
    [] i.op = "Push" -> Push(i, s) [] i.op = "Stm" -> Stm(i, s)
    [] i.op = "StmUserRegisters" -> StmUserRegisters(i, s) [] i.op = "Stmda" -> Stmda(i, s)
    [] i.op = "Stmdb" -> Stmdb(i, s) [] i.op = "Stmib" -> Stmib(i, s)
    [] i.op = "StrImmediateArm" -> StrImmediateArm(i, s)
    [] i.op = "StrImmediateThumb" -> StrImmediateThumb(i, s) [] i.op = "StrRegister" -> StrRegister(i, s)
    [] i.op = "StrbImmediateArm" -> StrbImmediateArm(i, s)
    [] i.op = "StrbImmediateThumb" -> StrbImmediateThumb(i, s) [] i.op = "StrbRegister" -> StrbRegister(i, s)
    [] i.op = "Strbt" -> Strbt(i, s) [] i.op = "StrdImmediate" -> StrdImmediate(i, s)
    [] i.op = "StrdRegister" -> StrdRegister(i, s) [] i.op = "Strex" -> Strex(i, s)
    [] i.op = "Strexb" -> Strexb(i, s) [] i.op = "Strexd" -> Strexd(i, s) [] i.op = "Strexh" -> Strexh(i, s)
    [] i.op = "StrhImmediateArm" -> StrhImmediateArm(i, s)
    [] i.op = "StrhImmediateThumb" -> StrhImmediateThumb(i, s) [] i.op = "StrhRegister" -> StrhRegister(i, s)
    [] i.op = "Strht" -> Strht(i, s) [] i.op = "Strt" -> Strt(i, s) [] i.op = "TbbTbh" -> TbbTbh(i, s)

\* Branches, status registers, exceptions, hints and coprocessors.
SystemOpcode(i, s) ==
  CASE i.op = "B" -> B(i, s) [] i.op = "Bkpt" -> Bkpt(i, s) [] i.op = "BlBlxImmediate" -> BlBlxImmediate(i, s)
    [] i.op = "BlxRegister" -> BlxRegister(i, s) [] i.op = "Bx" -> Bx(i, s) [] i.op = "Bxj" -> Bxj(i, s)
    [] i.op = "Cbz" -> Cbz(i, s) [] i.op = "CdpCdp2" -> CdpCdp2(i, s) [] i.op = "Clrex" -> Clrex(i, s)
    [] i.op = "CpsArm" -> CpsArm(i, s) [] i.op = "CpsThumb" -> CpsThumb(i, s) [] i.op = "Dsb" -> Dsb(i, s)
    [] i.op = "Eret" -> Eret(i, s) [] i.op = "Isb" -> Isb(i, s) [] i.op = "It" -> It(i, s)
    [] i.op = "LdcLdc2Immediate" -> LdcLdc2Immediate(i, s) [] i.op = "LdcLdc2Literal" -> LdcLdc2Literal(i, s)
    [] i.op = "LdmExceptionReturn" -> LdmExceptionReturn(i, s) [] i.op = "McrMcr2" -> McrMcr2(i, s)
    [] i.op = "McrrMcrr2" -> McrrMcrr2(i, s) [] i.op = "MrcMrc2" -> MrcMrc2(i, s)
    [] i.op = "MrrcMrrc2" -> MrrcMrrc2(i, s) [] i.op = "MrsApplication" -> MrsApplication(i, s)
    [] i.op = "MrsSystem" -> MrsSystem(i, s)
    [] i.op = "MsrImmediateApplication" -> MsrImmediateApplication(i, s)
    [] i.op = "MsrImmediateSystem" -> MsrImmediateSystem(i, s)
    [] i.op = "MsrRegisterApplication" -> MsrRegisterApplication(i, s)
    [] i.op = "MsrRegisterSystem" -> MsrRegisterSystem(i, s) [] i.op = "Nop" -> Nop(i, s)
    [] i.op = "PldImmediate" -> PldImmediate(i, s) [] i.op = "PldLiteral" -> PldLiteral(i, s)
    [] i.op = "PldRegister" -> PldRegister(i, s) [] i.op = "Rfe" -> Rfe(i, s)
    [] i.op = "Setend" -> Setend(i, s) [] i.op = "Sev" -> Sev(i, s) [] i.op = "Smc" -> Smc(i, s)
    [] i.op = "SrsArm" -> SrsArm(i, s) [] i.op = "SrsThumb" -> SrsThumb(i, s)
    [] i.op = "StcStc2" -> StcStc2(i, s) [] i.op = "SubsPcLrArm" -> SubsPcLrArm(i, s)
    [] i.op = "SubsPcLrThumb" -> SubsPcLrThumb(i, s) [] i.op = "Svc" -> Svc(i, s) [] i.op = "Udf" -> Udf(i, s)
    [] i.op = "Wfe" -> Wfe(i, s) [] i.op = "Wfi" -> Wfi(i, s) [] i.op = "Yield" -> Yield(i, s)

Opcodes == DataProcessingOpcodes \cup MediaOpcodes \cup LoadStoreOpcodes \cup SystemOpcodes

Opcode(i, s) ==
  CASE i.op \in DataProcessingOpcodes -> DataProcessingOpcode(i, s)
    [] i.op \in MediaOpcodes          -> MediaOpcode(i, s)
    [] i.op \in LoadStoreOpcodes      -> LoadStoreOpcode(i, s)
    [] i.op \in SystemOpcodes         -> SystemOpcode(i, s)
-----------------------------------------------------------------------------
(* Instructions for the programs of the benches: the fields that the       *)
(* decoders hand to the constructors of the opcodes.                       *)

VARIABLES
  job,   \* the program, its operands and instruction set: a record whose family names the bench
  cpu    \* the processor that runs it

NoRegisters == [name \in RName |-> 0]
NoSpsr == [mode \in Banked |-> ZeroPsr]
NoMemory == [word \in 0..(MemWords - 1) |-> 0]

Plain(value) == [form |-> "plain", byte |-> value, rotate |-> 0]

Blank ==
  [op |-> "Nop", length |-> 4, cond |-> 14, setflags |-> FALSE,
   d |-> 5, n |-> 1, m |-> 2, s |-> 3, a |-> 3, t |-> 5, t2 |-> 6, d_hi |-> 6, d_lo |-> 5,
   imm |-> Plain(0), imm16 |-> 0, imm32 |-> 0, shift |-> [type |-> "LSL", n |-> 0],
   lsbit |-> 0, msbit |-> 0, widthminus1 |-> 0, saturate_to |-> 0, rotation |-> 0,
   tb_form |-> FALSE, n_high |-> FALSE, m_high |-> FALSE, m_swap |-> FALSE, round |-> FALSE,
   add |-> TRUE, index |-> TRUE, wback |-> FALSE, register_form |-> FALSE, post_index |-> FALSE,
   registers |-> {}, increment |-> TRUE, word_higher |-> FALSE, unaligned_allowed |-> FALSE,
   is_tbh |-> FALSE, target |-> 0, nonzero |-> FALSE, firstcond |-> 0, mask |-> 0,
   write_spsr |-> FALSE, mode |-> "svc", affect |-> {}, enable |-> FALSE, disable |-> FALSE, change_mode |-> FALSE,
   opcode |-> "sub"]

Do(op, d, n, m) == [Blank EXCEPT !.op = op, !.d = d, !.n = n, !.m = m]
Flags(i) == [i EXCEPT !.setflags = TRUE]
When(i, cond) == [i EXCEPT !.cond = cond]
By(i, type, n) == [i EXCEPT !.shift = [type |-> type, n |-> n]]
With(i, value) == [i EXCEPT !.imm = Plain(value), !.imm32 = value]
Move(d, value) == With(Do("MovImmediate", d, 0, 0), value)

\* The opcodes that are one class in each instruction set.
InSet(t, arm, thumb) == IF t = 1 THEN thumb ELSE arm
AddRegister(t) == InSet(t, "AddRegisterArm", "AddRegisterThumb")
AddImmediate(t) == InSet(t, "AddImmediateArm", "AddImmediateThumb")
SubImmediate(t) == InSet(t, "SubImmediateArm", "SubImmediateThumb")
MoveRegister(t, d, m) == Do(InSet(t, "MovRegisterArm", "MovRegisterThumb"), d, 0, m)

\* ITE: the first instruction under the condition, the second under its negation.
Ite(cond) == [Blank EXCEPT !.op = "It", !.firstcond = cond, !.mask = IF cond % 2 = 1 THEN 4 ELSE 12]

\* PC as an instruction of the program reads it.
Ahead(address, t) == address + (IF t = 1 THEN 4 ELSE 8)
Jump(from, to, t) == With([Blank EXCEPT !.op = "B"], to - Ahead(from, t))

List(op, n, registers) == [Do(op, 0, n, 0) EXCEPT !.registers = registers, !.wback = TRUE]

\* The instruction at an address: every instruction is given four bytes, and after
\* two of them there is a NOP.
At(program, origin, address) ==
  IF (address - origin) % 4 = 2 THEN [Blank EXCEPT !.length = 2] ELSE program[(address - origin) \div 4 + 1]
=============================================================================
