----------------------------- MODULE Armv6_proofs -----------------------------
(***************************************************************************)
(* What a program of the ARMv6 core in user mode cannot do, whatever it    *)
(* executes.                                                               *)
(*                                                                         *)
(* Keeps(s, t) is what every instruction owes the state it leaves: the     *)
(* processor has its shape, the vectors are where they were and, if it was *)
(* in user mode, so are the masks, the registers of the other modes and    *)
(* every SPSR.  It is transitive, and the lemmas climb the model by it:    *)
(* registers and flags, memory, loads and stores, branches and status      *)
(* registers, every opcode, one cycle.  Exceptions leave user mode instead *)
(* of keeping; Steps says of a cycle that it does one or the other.        *)
(***************************************************************************)
EXTENDS Armv6Kernel, NaturalsInduction, WellFoundedInduction, TLAPS

\* The parts of a processor that the statements below are about.
Parts == {"psr", "R", "spsr", "pc", "branched", "raised"}
\* The fields of CPSR, the bits of the condition and of the mode among them.
PsrParts == {"n", "z", "c", "v", "q", "ge", "it", "e", "a", "i", "f", "t", "m"}

\* A processor has these parts, one SPSR for every mode that keeps one, and the registers.
Shaped(s) ==
  /\ Parts \subseteq DOMAIN s
  /\ PsrParts \subseteq DOMAIN s.psr
  /\ Banked \subseteq DOMAIN s.spsr
  /\ DOMAIN s.R = RName

\* Where vectors are.
SameVectors(s, t) == t.vbar = s.vbar /\ t.mvbar = s.mvbar /\ t.sctlr = s.sctlr /\ t.scr = s.scr

\* Still in user mode, with nothing of another mode changed.
Confined(s, t) ==
  /\ t.psr.m = "usr"
  /\ \A bit \in {"a", "i", "f"} : t.psr[bit] = s.psr[bit]
  /\ \A name \in RName : name[2] # "usr" => t.R[name] = s.R[name]
  /\ t.spsr = s.spsr

\* What an instruction owes the state it leaves.
Keeps(s, t) ==
  /\ Shaped(s) => Shaped(t)
  /\ Shaped(s) => SameVectors(s, t)
  /\ Shaped(s) /\ s.psr.m = "usr" => Confined(s, t)

\* Doing nothing keeps.
LEMMA KeepsSelf == ASSUME NEW s PROVE Keeps(s, s)
  BY DEF Keeps, SameVectors, Confined

\* One thing after the other keeps.
LEMMA KeepsBoth ==
  ASSUME NEW s, NEW t, NEW u, Keeps(s, t), Keeps(t, u)
  PROVE  Keeps(s, u)
  BY DEF Keeps, SameVectors, Confined

-----------------------------------------------------------------------------
(* Registers, flags, and the opcodes that compute *)

\* A register is written in the bank of the current mode.
LEMMA SetKeeps ==
  ASSUME NEW s, NEW n, NEW value
  PROVE  Keeps(s, Set(s, n, value))
<1>1. CASE ~Shaped(s)
  BY <1>1 DEF Keeps
<1>2. CASE Shaped(s)
  <2>1. PICK t : t = Set(s, n, value)
    OBVIOUS
  <2>2. Shaped(t) /\ SameVectors(s, t)
    BY <1>2, <2>1 DEF Set, SetRmode, Shaped, Parts, SameVectors
  <2>3. ASSUME s.psr.m = "usr" PROVE Confined(s, t)
    BY <1>2, <2>1, <2>3 DEF Set, SetRmode, LookUpRName, Shaped, Parts, Confined, RBankSelect, BadMode, Mode, RName
  <2> QED BY <2>1, <2>2, <2>3 DEF Keeps
<1> QED BY <1>1, <1>2

\* A branch writes PC only.
LEMMA BranchToKeeps ==
  ASSUME NEW s, NEW address
  PROVE  Keeps(s, BranchTo(s, address))
  BY DEF BranchTo, Keeps, Shaped, Parts, SameVectors, Confined

\* CPSR may be written as long as user mode keeps its mode and its masks.
LEMMA PsrKeeps ==
  ASSUME NEW s, NEW q, PsrParts \subseteq DOMAIN q,
         s.psr.m = "usr" => \A f \in {"m", "a", "i", "f"} : q[f] = s.psr[f]
  PROVE  Keeps(s, [s EXCEPT !.psr = q])
  BY DEF Keeps, Shaped, Parts, PsrParts, SameVectors, Confined

\* The fields of CPSR that a program in user mode may write.
FlagParts == {"n", "z", "c", "v", "q", "ge", "it", "e", "t"}
\* Each of them by itself.
LEMMA FlagKeeps ==
  ASSUME NEW s, NEW f \in FlagParts, NEW value
  PROVE  Keeps(s, [s EXCEPT !.psr[f] = value])
  BY DEF FlagParts, Keeps, Shaped, Parts, PsrParts, SameVectors, Confined

\* The sign and the zero.
LEMMA NzKeep ==
  ASSUME NEW s, NEW x, NEW y
  PROVE  Keeps(s, [s EXCEPT !.psr.n = x, !.psr.z = y])
<1>1. CASE Shaped(s)
  <2>1. PICK t : t = [s EXCEPT !.psr.n = x]
    OBVIOUS
  <2>2. [s EXCEPT !.psr.n = x, !.psr.z = y] = [t EXCEPT !.psr.z = y]
    BY <1>1, <2>1 DEF Shaped, Parts
  <2>3. Keeps(s, t) /\ Keeps(t, [t EXCEPT !.psr.z = y])
    BY <2>1, FlagKeeps DEF FlagParts
  <2> QED BY <2>2, <2>3, KeepsBoth
<1>2. CASE ~Shaped(s)
  BY <1>2 DEF Keeps
<1> QED BY <1>1, <1>2

\* The flags of a result, of one with a carry, and of one with an overflow.
LEMMA FlagsKeep ==
  ASSUME NEW s
  PROVE  \A r : /\ Keeps(s, FlagsNz(s, r))
                /\ Keeps(s, LogicalFlags(s, r))
                /\ Keeps(s, ArithmeticFlags(s, r))
<1>1. \A x : Keeps(s, FlagsNz(s, x))
  BY NzKeep DEF FlagsNz
<1>2. \A r : Keeps(s, LogicalFlags(s, r))
  <2> TAKE r
  <2>1. PICK t : t = FlagsNz(s, r.value)
    OBVIOUS
  <2>2. Keeps(t, [t EXCEPT !.psr.c = r.carry])
    BY FlagKeeps DEF FlagParts
  <2> QED BY <1>1, <2>1, <2>2, KeepsBoth DEF LogicalFlags
<1>3. \A r : Keeps(s, ArithmeticFlags(s, r))
  <2> TAKE r
  <2>1. PICK t : t = LogicalFlags(s, r)
    OBVIOUS
  <2>2. Keeps(t, [t EXCEPT !.psr.v = r.overflow])
    BY FlagKeeps DEF FlagParts
  <2> QED BY <1>2, <2>1, <2>2, KeepsBoth DEF ArithmeticFlags
<1> QED BY <1>1, <1>2, <1>3

\* A result goes to its register or to PC, with the flags it may set.
LEMMA WrittenKeeps ==
  ASSUME NEW i, NEW s, NEW value, NEW flagged, Keeps(s, flagged)
  PROVE  Keeps(s, Written(i, s, value, flagged))
  BY SetKeeps, BranchToKeeps, KeepsBoth DEF Written, AluWritePc, BranchWritePc

\* The results of the ALU.
LEMMA ArithmeticKeeps ==
  ASSUME NEW i, NEW s
  PROVE  \A r : Keeps(s, Arithmetic(i, s, r)) /\ Keeps(s, Logical(i, s, r)) /\ Keeps(s, Moved(i, s, r))
  BY WrittenKeeps, FlagsKeep DEF Arithmetic, Logical, Moved

\* Whatever is written to a register, to PC or to the flags.
Writes(i, s) ==
  /\ \A n, value : Keeps(s, Set(s, n, value))
  /\ \A r : Keeps(s, Arithmetic(i, s, r)) /\ Keeps(s, Logical(i, s, r)) /\ Keeps(s, Moved(i, s, r))
  /\ \A r : Keeps(s, ArithmeticFlags(s, r)) /\ Keeps(s, LogicalFlags(s, r))
  /\ \A address : Keeps(s, AluWritePc(s, address))
  /\ Keeps(s, s)

\* All of these keep.
LEMMA WritesKeep == ASSUME NEW i, NEW s PROVE Writes(i, s)
  BY SetKeeps, ArithmeticKeeps, FlagsKeep, BranchToKeeps, KeepsSelf DEF Writes, AluWritePc, BranchWritePc

\* Every opcode of data processing.
LEMMA DataProcessingKeeps ==
  ASSUME NEW i, NEW s, i.op \in DataProcessingOpcodes
  PROVE  Keeps(s, DataProcessingOpcode(i, s))
<1>1. CASE i.op \in {"AdcImmediate", "AdcRegister", "AdcRegisterShiftedRegister", "AddImmediateArm",
                     "AddImmediateThumb", "AddRegisterArm", "AddRegisterShiftedRegister", "AddRegisterThumb",
                     "AddSpPlusImmediate", "AddSpPlusRegisterArm", "AddSpPlusRegisterThumb", "Adr"}
  BY <1>1, WritesKeep DEF Writes, IfPassed, DataProcessingOpcode, AdcImmediate, AdcRegister,
                          AdcRegisterShiftedRegister, AddImmediateArm, AddImmediateThumb, AddRegisterArm,
                          AddRegisterShiftedRegister, AddRegisterThumb, AddSpPlusImmediate,
                          AddSpPlusRegisterArm, AddSpPlusRegisterThumb, Adr
<1>2. CASE i.op \in {"RsbImmediate", "RsbRegister", "RsbRegisterShiftedRegister", "RscImmediate", "RscRegister",
                     "RscRegisterShiftedRegister", "SbcImmediate", "SbcRegister", "SbcRegisterShiftedRegister",
                     "SubImmediateArm", "SubImmediateThumb", "SubRegister", "SubRegisterShiftedRegister",
                     "SubSpMinusImmediate", "SubSpMinusRegister"}
  BY <1>2, WritesKeep DEF Writes, IfPassed, DataProcessingOpcode, RsbImmediate, RsbRegister,
                          RsbRegisterShiftedRegister, RscImmediate, RscRegister, RscRegisterShiftedRegister,
                          SbcImmediate, SbcRegister, SbcRegisterShiftedRegister, SubImmediateArm,
                          SubImmediateThumb, SubRegister, SubRegisterShiftedRegister, SubSpMinusImmediate,
                          SubSpMinusRegister
<1>3. CASE i.op \in {"CmnImmediate", "CmnRegister", "CmnRegisterShiftedRegister", "CmpImmediate", "CmpRegister",
                     "CmpRegisterShiftedRegister", "TeqImmediate", "TeqRegister", "TeqRegisterShiftedRegister",
                     "TstImmediate", "TstRegister", "TstRegisterShiftedRegister"}
  BY <1>3, WritesKeep DEF Writes, IfPassed, DataProcessingOpcode, CmnImmediate, CmnRegister,
                          CmnRegisterShiftedRegister, CmpImmediate, CmpRegister, CmpRegisterShiftedRegister,
                          TeqImmediate, TeqRegister, TeqRegisterShiftedRegister, TstImmediate, TstRegister,
                          TstRegisterShiftedRegister, Combined
<1>4. CASE i.op \in {"AndImmediate", "AndRegister", "AndRegisterShiftedRegister", "BicImmediate", "BicRegister",
                     "BicRegisterShiftedRegister", "EorImmediate", "EorRegister", "EorRegisterShiftedRegister",
                     "OrnImmediate", "OrnRegister", "OrrImmediate", "OrrRegister", "OrrRegisterShiftedRegister"}
  BY <1>4, WritesKeep DEF Writes, IfPassed, DataProcessingOpcode, AndImmediate, AndRegister,
                          AndRegisterShiftedRegister, BicImmediate, BicRegister, BicRegisterShiftedRegister,
                          EorImmediate, EorRegister, EorRegisterShiftedRegister, OrnImmediate, OrnRegister,
                          OrrImmediate, OrrRegister, OrrRegisterShiftedRegister, Combined
<1>5. CASE i.op \in {"MovImmediate", "MovRegisterArm", "MovRegisterThumb", "Movt", "MvnImmediate",
                     "MvnRegister", "MvnRegisterShiftedRegister"}
  BY <1>5, WritesKeep DEF Writes, IfPassed, DataProcessingOpcode, MovImmediate, MovRegisterArm,
                          MovRegisterThumb, Movt, MvnImmediate, MvnRegister, MvnRegisterShiftedRegister
<1>6. CASE i.op \in {"AsrImmediate", "AsrRegister", "LslImmediate", "LslRegister", "LsrImmediate",
                     "LsrRegister", "RorImmediate", "RorRegister", "Rrx"}
  BY <1>6, WritesKeep DEF Writes, IfPassed, DataProcessingOpcode, AsrImmediate, AsrRegister, LslImmediate,
                          LslRegister, LsrImmediate, LsrRegister, RorImmediate, RorRegister, Rrx, ShiftedBy,
                          ShiftedByRegister
<1>7. CASE i.op \in {"Bfc", "Bfi", "Clz", "Pkh", "Rbit", "Rev", "Rev16", "Revsh", "Sbfx", "Sel", "Ubfx"}
  BY <1>7, WritesKeep DEF Writes, IfPassed, DataProcessingOpcode, Bfc, Bfi, Clz, Pkh, Rbit, Rev, Rev16, Revsh,
                          Sbfx, Sel, Ubfx
<1> QED
  BY <1>1, <1>2, <1>3, <1>4, <1>5, <1>6, <1>7 DEF DataProcessingOpcodes
\* Results of two words, results that may saturate, and the GE flags.
WideResults(i, s) ==
  /\ \A result : Keeps(s, SetPair(i, s, result)) /\ Keeps(s, LongResult(i, s, result))
  /\ \A result : Keeps(s, Fitted(i, s, result)) /\ Keeps(s, MostSignificant(i, s, result))
  /\ \A result : Keeps(s, Clamped(i, s, result)) /\ Keeps(s, ClampedDouble(i, s, result))
  /\ \A value, overflowed : Keeps(s, Saturated(Set(s, i.d, value), overflowed))
  /\ \A value, x : Keeps(s, FlagsNz(Set(s, i.d, value), x))
  /\ \A value, x, z : Keeps(s, [FlagsNz(Set(s, i.d, value), x) EXCEPT !.psr.z = z])
  /\ \A value, ge : Keeps(s, [Set(s, i.d, value) EXCEPT !.psr.ge = ge])
  /\ \A ge : Keeps(s, [s EXCEPT !.psr.ge = ge])

\* All of these keep.
LEMMA ResultsKeep == ASSUME NEW i, NEW s PROVE WideResults(i, s)
<1>1. \A t, ov : Keeps(t, Saturated(t, ov))
  BY FlagKeeps, KeepsSelf DEF Saturated, FlagParts
<1>2. \A value, ov : Keeps(s, Saturated(Set(s, i.d, value), ov))
  BY <1>1, SetKeeps, KeepsBoth
<1>3. \A result : Keeps(s, SetPair(i, s, result))
  BY SetKeeps, KeepsBoth DEF SetPair
<1>4. ASSUME NEW result PROVE Keeps(s, LongResult(i, s, result))
  <2>1. PICK t : t = SetPair(i, s, result)
    OBVIOUS
  <2> QED BY <1>3, <2>1, NzKeep, KeepsBoth DEF LongResult
<1>5. \A result : Keeps(s, Fitted(i, s, result)) /\ Keeps(s, Clamped(i, s, result))
  BY <1>2 DEF Fitted, Clamped
<1>6. \A result : Keeps(s, ClampedDouble(i, s, result)) /\ Keeps(s, MostSignificant(i, s, result))
  BY <1>1, <1>5, SetKeeps, KeepsBoth DEF ClampedDouble, MostSignificant
<1>7. \A value, x : Keeps(s, FlagsNz(Set(s, i.d, value), x))
  BY SetKeeps, FlagsKeep, KeepsBoth
<1>8. \A t, u, z : Keeps(t, u) => Keeps(t, [u EXCEPT !.psr.z = z]) /\ Keeps(t, [u EXCEPT !.psr.ge = z])
  BY FlagKeeps, KeepsBoth DEF FlagParts
<1> QED
  BY <1>2, <1>3, <1>4, <1>5, <1>6, <1>7, <1>8, SetKeeps, KeepsSelf DEF WideResults

\* Every opcode for multiplication, division, saturation and the lanes of a word.
LEMMA MediaKeeps ==
  ASSUME NEW i, NEW s, i.op \in MediaOpcodes
  PROVE  Keeps(s, MediaOpcode(i, s))
<1>1. CASE i.op \in {"Mla", "Mls", "Mul", "Smull", "Smlal", "Umull", "Umlal", "Umaal", "Smla", "Smul",
                     "Smlalxy", "Smlaw", "Smulw"}
  BY <1>1, WritesKeep, ResultsKeep DEF Writes, WideResults, IfPassed, MediaOpcode, Mla, Mls, Mul, Smull, Smlal, Umull, Umlal, Umaal, Smla,
                          Smul, Smlalxy, Smlaw, Smulw
<1>2. CASE i.op \in {"Smlad", "Smlsd", "Smuad", "Smusd", "Smlald", "Smlsld", "Smmul", "Smmla", "Smmls", "Sdiv",
                     "Udiv"}
  BY <1>2, WritesKeep, ResultsKeep DEF Writes, WideResults, IfPassed, MediaOpcode, Smlad, Smlsd, Smuad, Smusd, Smlald, Smlsld, Smmul,
                          Smmla, Smmls, Sdiv, Udiv
<1>3. CASE i.op \in {"Qadd", "Qsub", "Qdadd", "Qdsub", "Ssat", "Usat", "Ssat16", "Usat16", "Usad8", "Usada8"}
  BY <1>3, WritesKeep, ResultsKeep DEF Writes, WideResults, IfPassed, MediaOpcode, Qadd, Qsub, Qdadd, Qdsub, Ssat, Usat, Ssat16, Usat16,
                          Usad8, Usada8
<1>4. CASE i.op \in {"Sadd16", "Sadd8", "Ssub16", "Ssub8", "Sasx", "Ssax", "Uadd16", "Uadd8", "Usub16", "Usub8",
                     "Uasx", "Usax"}
  BY <1>4, WritesKeep, ResultsKeep DEF Writes, WideResults, IfPassed, MediaOpcode, Sadd16, Sadd8, Ssub16, Ssub8, Sasx, Ssax, Uadd16,
                          Uadd8, Usub16, Usub8, Uasx, Usax, ParallelGe, Parallel
<1>5. CASE i.op \in {"Shadd16", "Shadd8", "Shsub16", "Shsub8", "Shasx", "Shsax", "Uhadd16", "Uhadd8", "Uhsub16",
                     "Uhsub8", "Uhasx", "Uhsax"}
  BY <1>5, WritesKeep, ResultsKeep DEF Writes, WideResults, IfPassed, MediaOpcode, Shadd16, Shadd8, Shsub16, Shsub8, Shasx, Shsax,
                          Uhadd16, Uhadd8, Uhsub16, Uhsub8, Uhasx, Uhsax, Parallel
<1>6. CASE i.op \in {"Qadd16", "Qadd8", "Qsub16", "Qsub8", "Qasx", "Qsax", "Uqadd16", "Uqadd8", "Uqsub16",
                     "Uqsub8", "Uqasx", "Uqsax"}
  BY <1>6, WritesKeep, ResultsKeep DEF Writes, WideResults, IfPassed, MediaOpcode, Qadd16, Qadd8, Qsub16, Qsub8, Qasx, Qsax, Uqadd16,
                          Uqadd8, Uqsub16, Uqsub8, Uqasx, Uqsax, Parallel
<1>7. CASE i.op \in {"Sxtb", "Sxth", "Sxtb16", "Sxtab", "Sxtah", "Sxtab16", "Uxtb", "Uxth", "Uxtb16", "Uxtab",
                     "Uxtah", "Uxtab16"}
  BY <1>7, WritesKeep, ResultsKeep DEF Writes, WideResults, IfPassed, MediaOpcode, Sxtb, Sxth, Sxtb16, Sxtab, Sxtah, Sxtab16, Uxtb, Uxth,
                          Uxtb16, Uxtab, Uxtah, Uxtab16
<1> QED
  BY <1>1, <1>2, <1>3, <1>4, <1>5, <1>6, <1>7 DEF MediaOpcodes

-----------------------------------------------------------------------------
(* Memory *)

\* What no statement here is about may be written.
LEMMA OtherKeeps ==
  ASSUME NEW s, NEW f \in {"raised", "mem", "dfar", "dfsr", "event", "waiting"}, NEW value
  PROVE  Keeps(s, [s EXCEPT ![f] = value])
  BY DEF Keeps, Shaped, Parts, SameVectors, Confined

\* To raise an exception is to take a note of it; it is entered at the end of the cycle.
LEMMA RaiseKeeps ==
  ASSUME NEW s, NEW exception
  PROVE  Keeps(s, Raise(s, exception))
  BY OtherKeeps DEF Raise

\* A data abort notes its address and its cause where the memory system has them.
LEMMA DataAbortKeeps ==
  ASSUME NEW s, NEW va, NEW write, NEW fault
  PROVE  Keeps(s, DataAbort(s, va, write, fault))
<1>1. PICK dfsr : DataAbort(s, va, write, fault) = Raise([s EXCEPT !.dfar = va, !.dfsr = dfsr], "dabt")
  BY DEF DataAbort
<1>2. Keeps(s, [s EXCEPT !.dfar = va, !.dfsr = dfsr])
  <2>1. PICK t : t = [s EXCEPT !.dfar = va]
    OBVIOUS
  <2>2. Keeps(s, t) /\ Keeps(t, [t EXCEPT !.dfsr = dfsr])
    BY <2>1, OtherKeeps
  <2> QED BY <2>1, <2>2, KeepsBoth
<1> QED BY <1>1, <1>2, RaiseKeeps, KeepsBoth

\* An aligned store, or the abort that it ends in.
LEMMA MemWriteKeeps ==
  ASSUME NEW s, NEW pa, NEW size \in {1, 2, 4, 8}, NEW value
  PROVE  Keeps(s, MemWrite(s, pa, size, value))
<1>1. \A k, v : Keeps(s, [s EXCEPT !.mem[k] = v])
  BY OtherKeeps
<1>3. CASE ~Claimed(pa)
  BY <1>3, KeepsSelf DEF MemWrite
<1>4. CASE Claimed(pa) /\ size = 8
  <2>1. PICK k, v, j, w : /\ k = pa \div 4 /\ j = pa \div 4 + 1
                          /\ v = LowerChunk(value, WordBits) /\ w = value \div 2^WordBits
    OBVIOUS
  <2>2. MemWrite(s, pa, size, value) = [s EXCEPT !.mem[k] = v, !.mem[j] = w]
    BY <1>4, <2>1 DEF MemWrite
  <2>3. Keeps(s, [s EXCEPT !.mem[k] = v, !.mem[j] = w])
    BY DEF Keeps, Shaped, Parts, SameVectors, Confined
  <2> QED BY <2>2, <2>3
<1>5. CASE Claimed(pa) /\ size = 4
  BY <1>1, <1>5 DEF MemWrite
<1>6. CASE Claimed(pa) /\ size \in {1, 2}
  BY <1>1, <1>6 DEF MemWrite
<1> QED BY <1>3, <1>4, <1>5, <1>6

\* An access that has to be aligned, with the privilege it is made with.
LEMMA AccessKeeps ==
  ASSUME NEW s, NEW address, NEW size \in {1, 2, 4, 8}, NEW privileged, NEW aligned
  PROVE  /\ \A fault, write : Keeps(s, AbortA(s, address, size, write, fault))
         /\ \A value : Keeps(s, MemAWithPrivSet(s, address, size, privileged, aligned, value))
         /\ Keeps(s, MemAWithPrivGet(s, address, size, privileged, aligned).state)
<1>1. \A fault, write : Keeps(s, AbortA(s, address, size, write, fault))
  BY DataAbortKeeps DEF AbortA
<1>2. \A fault, value : Keeps(s, SetUnless(fault, s, address, size, value))
  BY <1>1, MemWriteKeeps DEF SetUnless
<1>3. \A fault : Keeps(s, GetUnless(fault, s, address, size).state)
  BY <1>1, KeepsSelf DEF GetUnless, Access
<1> QED BY <1>1, <1>2, <1>3 DEF MemAWithPrivSet, MemAWithPrivGet

\* Every nonempty set of numbers has a least one.
LEMMA LeastOfNumbers ==
  ASSUME NEW T \in SUBSET Nat, T # {}
  PROVE  \E n \in T : \A m \in T : ~(m < n)
<1>1. IsWellFoundedOn(OpToRel(<, Nat), Nat)
  BY NatLessThanWellFounded
<1>2. PICK n \in T : \A m \in T : ~(<<m, n>> \in OpToRel(<, Nat))
  BY <1>1, WFMin
<1> QED BY <1>2 DEF OpToRel

\* One byte of a misaligned store.
LEMMA PutOneKeeps ==
  ASSUME NEW s, NEW n, NEW address, NEW privileged, NEW value
  PROVE  Keeps(s, PutOne(s, n, address, privileged, value))
  BY AccessKeeps, KeepsSelf DEF PutOne, Then

\* The states that a misaligned store goes through.
Put(f, s, address, size, privileged, value) ==
  f = [k \in 0..size |-> IF k = 0 THEN s ELSE PutOne(f[k - 1], k - 1, address, privileged, value)]

\* There is such a function: were there none for some size, there would be none for the
\* least such size, which the function for the size before extends.
LEMMA PutExists ==
  ASSUME NEW s, NEW address, NEW privileged, NEW value
  PROVE  \A n \in Nat : \E f : Put(f, s, address, n, privileged, value)
<1> DEFINE Bad == {n \in Nat : ~ \E f : Put(f, s, address, n, privileged, value)}
<1> SUFFICES ASSUME Bad # {} PROVE FALSE
  OBVIOUS
<1>1. PICK n \in Bad : \A m \in Bad : ~(m < n)
  BY LeastOfNumbers
<1>2. CASE n = 0
  <2>1. Put([k \in 0..0 |-> s], s, address, 0, privileged, value)
    BY DEF Put
  <2> QED BY <1>2, <2>1
<1>3. CASE n # 0
  <2>1. n - 1 \in Nat /\ n - 1 \notin Bad
    BY <1>1, <1>3
  <2>2. PICK f : Put(f, s, address, n - 1, privileged, value)
    BY <2>1
  <2>3. \A k \in 0..n - 1 : f[k] = IF k = 0 THEN s ELSE PutOne(f[k - 1], k - 1, address, privileged, value)
    BY <2>2, Zenon DEF Put
  <2> DEFINE g == [k \in 0..n |-> IF k = n THEN PutOne(f[n - 1], n - 1, address, privileged, value) ELSE f[k]]
  <2>4. ASSUME NEW k \in 0..n
        PROVE  g[k] = IF k = 0 THEN s ELSE PutOne(g[k - 1], k - 1, address, privileged, value)
    BY <1>3, <2>3
  <2>5. g = [k \in 0..n |-> g[k]]
    OBVIOUS
  <2> HIDE DEF g
  <2>6. g = [k \in 0..n |-> IF k = 0 THEN s ELSE PutOne(g[k - 1], k - 1, address, privileged, value)]
    BY <2>4, <2>5, Zenon
  <2>7. Put(g, s, address, n, privileged, value)
    BY <2>6, Zenon DEF Put
  <2> QED BY <2>7
<1> QED BY <1>2, <1>3

\* Each of these states keeps.
LEMMA PutKeeps ==
  ASSUME NEW s, NEW address, NEW privileged, NEW value, NEW n \in Nat, NEW f,
         Put(f, s, address, n, privileged, value)
  PROVE  \A k \in 0..n : Keeps(s, f[k])
<1> DEFINE Bad == {k \in 0..n : ~Keeps(s, f[k])}
<1> SUFFICES ASSUME Bad # {} PROVE FALSE
  OBVIOUS
<1>0. Bad \subseteq Nat
  OBVIOUS
<1>1. PICK k \in Bad : \A m \in Bad : ~(m < k)
  <2> HIDE DEF Bad
  <2> QED BY <1>0, LeastOfNumbers
<1>2. f[k] = IF k = 0 THEN s ELSE PutOne(f[k - 1], k - 1, address, privileged, value)
  BY Zenon DEF Put
<1>3. CASE k = 0
  BY <1>2, <1>3, KeepsSelf DEF Access
<1>4. CASE k # 0
  <2>1. k - 1 \in 0..n /\ k - 1 \notin Bad
    BY <1>1, <1>4
  <2>2. Keeps(s, f[k - 1])
    BY <2>1
  <2>3. Keeps(f[k - 1], f[k])
    BY <1>2, <1>4, PutOneKeeps, KeepsSelf
  <2> QED BY <2>2, <2>3, KeepsBoth
<1> QED BY <1>3, <1>4

\* A misaligned store, byte after byte.
LEMMA PutBytesKeeps ==
  ASSUME NEW s, NEW address, NEW size \in Nat, NEW privileged, NEW value
  PROVE  Keeps(s, PutBytes(s, address, size, privileged, value))
<1> DEFINE f == CHOOSE f : Put(f, s, address, size, privileged, value)
<1>1. Put(f, s, address, size, privileged, value)
  BY PutExists
<1>2. PutBytes(s, address, size, privileged, value) = f[size]
  BY DEF PutBytes, Put
<1> HIDE DEF f
<1> QED BY <1>1, <1>2, PutKeeps

\* One byte of a misaligned load.
LEMMA GetOneKeeps ==
  ASSUME NEW a, NEW n, NEW address, NEW privileged
  PROVE  Keeps(a.state, GetOne(a, n, address, privileged).state)
  BY AccessKeeps, KeepsSelf DEF GetOne, Placed, Access

\* The states that a misaligned load goes through.
Got(f, s, address, size, privileged) ==
  f = [k \in 0..size |-> IF k = 0 THEN Access(s, 0) ELSE GetOne(f[k - 1], k - 1, address, privileged)]

\* There is such a function, as there is one for a store.
LEMMA GotExists ==
  ASSUME NEW s, NEW address, NEW privileged
  PROVE  \A n \in Nat : \E f : Got(f, s, address, n, privileged)
<1> DEFINE Bad == {n \in Nat : ~ \E f : Got(f, s, address, n, privileged)}
<1> SUFFICES ASSUME Bad # {} PROVE FALSE
  OBVIOUS
<1>1. PICK n \in Bad : \A m \in Bad : ~(m < n)
  BY LeastOfNumbers
<1>2. CASE n = 0
  <2>1. Got([k \in 0..0 |-> Access(s, 0)], s, address, 0, privileged)
    BY DEF Got
  <2> QED BY <1>2, <2>1
<1>3. CASE n # 0
  <2>1. n - 1 \in Nat /\ n - 1 \notin Bad
    BY <1>1, <1>3
  <2>2. PICK f : Got(f, s, address, n - 1, privileged)
    BY <2>1
  <2>3. \A k \in 0..n - 1 : f[k] = IF k = 0 THEN Access(s, 0) ELSE GetOne(f[k - 1], k - 1, address, privileged)
    BY <2>2, Zenon DEF Got
  <2> DEFINE g == [k \in 0..n |-> IF k = n THEN GetOne(f[n - 1], n - 1, address, privileged) ELSE f[k]]
  <2>4. ASSUME NEW k \in 0..n
        PROVE  g[k] = IF k = 0 THEN Access(s, 0) ELSE GetOne(g[k - 1], k - 1, address, privileged)
    BY <1>3, <2>3
  <2>5. g = [k \in 0..n |-> g[k]]
    OBVIOUS
  <2> HIDE DEF g
  <2>6. g = [k \in 0..n |-> IF k = 0 THEN Access(s, 0) ELSE GetOne(g[k - 1], k - 1, address, privileged)]
    BY <2>4, <2>5, Zenon
  <2>7. Got(g, s, address, n, privileged)
    BY <2>6, Zenon DEF Got
  <2> QED BY <2>7
<1> QED BY <1>2, <1>3

\* Each of these states keeps.
LEMMA GotKeeps ==
  ASSUME NEW s, NEW address, NEW privileged, NEW n \in Nat, NEW f,
         Got(f, s, address, n, privileged)
  PROVE  \A k \in 0..n : Keeps(s, f[k].state)
<1> DEFINE Bad == {k \in 0..n : ~Keeps(s, f[k].state)}
<1> SUFFICES ASSUME Bad # {} PROVE FALSE
  OBVIOUS
<1>0. Bad \subseteq Nat
  OBVIOUS
<1>1. PICK k \in Bad : \A m \in Bad : ~(m < k)
  <2> HIDE DEF Bad
  <2> QED BY <1>0, LeastOfNumbers
<1>2. f[k] = IF k = 0 THEN Access(s, 0) ELSE GetOne(f[k - 1], k - 1, address, privileged)
  BY Zenon DEF Got
<1>3. CASE k = 0
  BY <1>2, <1>3, KeepsSelf DEF Access
<1>4. CASE k # 0
  <2>1. k - 1 \in 0..n /\ k - 1 \notin Bad
    BY <1>1, <1>4
  <2>2. Keeps(s, f[k - 1].state)
    BY <2>1
  <2>3. Keeps(f[k - 1].state, f[k].state)
    BY <1>2, <1>4, GetOneKeeps, KeepsSelf
  <2> QED BY <2>2, <2>3, KeepsBoth
<1> QED BY <1>3, <1>4

\* A misaligned load, byte after byte.
LEMMA GetBytesKeeps ==
  ASSUME NEW s, NEW address, NEW size \in Nat, NEW privileged
  PROVE  Keeps(s, GetBytes(s, address, size, privileged).state)
<1> DEFINE f == CHOOSE f : Got(f, s, address, size, privileged)
<1>1. Got(f, s, address, size, privileged)
  BY GotExists
<1>2. GetBytes(s, address, size, privileged) = f[size]
  BY DEF GetBytes, Got
<1> HIDE DEF f
<1> QED BY <1>1, <1>2, GotKeeps

\* Whatever an instruction does to memory.
MemoryAccesses(s) ==
  /\ \A size \in {1, 2, 4, 8} : \A address, value :
       /\ Keeps(s, MemASet(s, address, size, value))
       /\ Keeps(s, MemUSet(s, address, size, value))
       /\ Keeps(s, MemUUnprivSet(s, address, size, value))
       /\ Keeps(s, MemAGet(s, address, size).state)
       /\ Keeps(s, MemUGet(s, address, size).state)
       /\ Keeps(s, MemUUnprivGet(s, address, size).state)
  /\ \A address, size : Keeps(s, ExclusiveMonitorsPass(s, address, size).state)
  /\ \A address, size : Keeps(s, SetExclusiveMonitors(s, address, size))
  /\ \A va, write, fault : Keeps(s, DataAbort(s, va, write, fault))

\* All of these keep.
LEMMA TransfersKeep == ASSUME NEW s PROVE MemoryAccesses(s)
<1>1. \A size \in {1, 2, 4, 8} : \A address, privileged, aligned, value :
        /\ Keeps(s, MemAWithPrivSet(s, address, size, privileged, aligned, value))
        /\ Keeps(s, MemAWithPrivGet(s, address, size, privileged, aligned).state)
  BY AccessKeeps
<1>2. \A size \in {1, 2, 4, 8} : \A address, privileged, value :
        Keeps(s, MemUWithPrivSet(s, address, size, privileged, value))
  BY <1>1, AccessKeeps, PutBytesKeeps DEF MemUWithPrivSet
<1>3. \A size \in {1, 2, 4, 8} : \A address, privileged :
        Keeps(s, MemUWithPrivGet(s, address, size, privileged).state)
  BY <1>1, AccessKeeps, GetBytesKeeps DEF MemUWithPrivGet, Reassembled, Access
<1>4. \A va, write, fault : Keeps(s, DataAbort(s, va, write, fault))
  BY DataAbortKeeps
<1>5. \A address, size : Keeps(s, ExclusiveMonitorsPass(s, address, size).state)
  BY <1>4, KeepsSelf DEF ExclusiveMonitorsPass, Access
<1>6. \A address, size : Keeps(s, SetExclusiveMonitors(s, address, size))
  BY <1>4, KeepsSelf DEF SetExclusiveMonitors
<1> QED
  BY <1>1, <1>2, <1>3, <1>4, <1>5, <1>6
     DEF MemoryAccesses, MemASet, MemAGet, MemUSet, MemUGet, MemUUnprivSet, MemUUnprivGet

-----------------------------------------------------------------------------
(* Loads and stores *)

\* A register of User mode, from any mode.
LEMMA SetRmodeKeeps ==
  ASSUME NEW s, NEW n, NEW value
  PROVE  Keeps(s, SetRmode(s, n, "usr", value))
<1>1. CASE ~Shaped(s)
  BY <1>1 DEF Keeps
<1>2. CASE Shaped(s)
  <2>1. PICK t : t = SetRmode(s, n, "usr", value)
    OBVIOUS
  <2>2. Shaped(t) /\ SameVectors(s, t)
    BY <1>2, <2>1 DEF SetRmode, Shaped, Parts, SameVectors
  <2>3. ASSUME s.psr.m = "usr" PROVE Confined(s, t)
    BY <1>2, <2>1, <2>3 DEF SetRmode, LookUpRName, Shaped, Parts, Confined, RBankSelect, BadMode, Mode, RName
  <2> QED BY <2>1, <2>2, <2>3 DEF Keeps
<1> QED BY <1>1, <1>2

\* One register of a list.
LEMMA LoadOneKeeps ==
  ASSUME NEW a, NEW n, NEW registers, NEW aligned, NEW user, NEW reduced
  PROVE  Keeps(a.state, LoadOne(a, n, registers, aligned, user, reduced).state)
<1>1. PICK b : b = ReadWord(a.state, a.value, aligned)
  OBVIOUS
<1>2. Keeps(a.state, b.state)
  BY <1>1, TransfersKeep DEF MemoryAccesses, ReadWord
<1>3. Keeps(b.state, SetLoaded(b, n, user))
  BY SetKeeps, SetRmodeKeeps, KeepsSelf DEF SetLoaded, Loaded
<1> QED BY <1>1, <1>2, <1>3, KeepsBoth, KeepsSelf DEF LoadOne, Access

\* One register of a list.
LEMMA StoreOneKeeps ==
  ASSUME NEW a, NEW n, NEW registers, NEW values, NEW aligned, NEW reduced
  PROVE  Keeps(a.state, StoreOne(a, n, registers, values, aligned, reduced).state)
  BY TransfersKeep, KeepsSelf DEF MemoryAccesses, WriteWord, StoreOne, Access

\* The states that the load of a list goes through.
ListLoaded(f, s, start, registers, aligned, user, reduced, size) ==
  f = [k \in 0..size |-> IF k = 0 THEN Access(s, start) ELSE LoadOne(f[k - 1], k - 1, registers, aligned, user, reduced)]

\* There is such a function, as there is one for the bytes.
LEMMA ListLoadedExists ==
  ASSUME NEW s, NEW start, NEW registers, NEW aligned, NEW user, NEW reduced
  PROVE  \A n \in Nat : \E f : ListLoaded(f, s, start, registers, aligned, user, reduced, n)
<1> DEFINE Bad == {n \in Nat : ~ \E f : ListLoaded(f, s, start, registers, aligned, user, reduced, n)}
<1> SUFFICES ASSUME Bad # {} PROVE FALSE
  OBVIOUS
<1>1. PICK n \in Bad : \A m \in Bad : ~(m < n)
  BY LeastOfNumbers
<1>2. CASE n = 0
  <2>1. ListLoaded([k \in 0..0 |-> Access(s, start)], s, start, registers, aligned, user, reduced, 0)
    BY DEF ListLoaded
  <2> QED BY <1>2, <2>1
<1>3. CASE n # 0
  <2>1. n - 1 \in Nat /\ n - 1 \notin Bad
    BY <1>1, <1>3
  <2>2. PICK f : ListLoaded(f, s, start, registers, aligned, user, reduced, n - 1)
    BY <2>1
  <2>3. \A k \in 0..n - 1 : f[k] = IF k = 0 THEN Access(s, start) ELSE LoadOne(f[k - 1], k - 1, registers, aligned, user, reduced)
    BY <2>2, Zenon DEF ListLoaded
  <2> DEFINE g == [k \in 0..n |-> IF k = n THEN LoadOne(f[n - 1], n - 1, registers, aligned, user, reduced) ELSE f[k]]
  <2>4. ASSUME NEW k \in 0..n
        PROVE  g[k] = IF k = 0 THEN Access(s, start) ELSE LoadOne(g[k - 1], k - 1, registers, aligned, user, reduced)
    BY <1>3, <2>3
  <2>5. g = [k \in 0..n |-> g[k]]
    OBVIOUS
  <2> HIDE DEF g
  <2>6. g = [k \in 0..n |-> IF k = 0 THEN Access(s, start) ELSE LoadOne(g[k - 1], k - 1, registers, aligned, user, reduced)]
    BY <2>4, <2>5, Zenon
  <2>7. ListLoaded(g, s, start, registers, aligned, user, reduced, n)
    BY <2>6, Zenon DEF ListLoaded
  <2> QED BY <2>7
<1> QED BY <1>2, <1>3

\* Each of these states keeps.
LEMMA ListLoadedKeeps ==
  ASSUME NEW s, NEW start, NEW registers, NEW aligned, NEW user, NEW reduced, NEW n \in Nat, NEW f,
         ListLoaded(f, s, start, registers, aligned, user, reduced, n)
  PROVE  \A k \in 0..n : Keeps(s, f[k].state)
<1> DEFINE Bad == {k \in 0..n : ~Keeps(s, f[k].state)}
<1> SUFFICES ASSUME Bad # {} PROVE FALSE
  OBVIOUS
<1>0. Bad \subseteq Nat
  OBVIOUS
<1>1. PICK k \in Bad : \A m \in Bad : ~(m < k)
  <2> HIDE DEF Bad
  <2> QED BY <1>0, LeastOfNumbers
<1>2. f[k] = IF k = 0 THEN Access(s, start) ELSE LoadOne(f[k - 1], k - 1, registers, aligned, user, reduced)
  BY Zenon DEF ListLoaded
<1>3. CASE k = 0
  BY <1>2, <1>3, KeepsSelf DEF Access
<1>4. CASE k # 0
  <2>1. k - 1 \in 0..n /\ k - 1 \notin Bad
    BY <1>1, <1>4
  <2>2. Keeps(s, f[k - 1].state)
    BY <2>1
  <2>3. Keeps(f[k - 1].state, f[k].state)
    BY <1>2, <1>4, LoadOneKeeps, KeepsSelf
  <2> QED BY <2>2, <2>3, KeepsBoth
<1> QED BY <1>3, <1>4

\* A list of registers, loaded in order.
LEMMA LoadListKeeps ==
  ASSUME NEW s, NEW start, NEW registers, NEW aligned, NEW user, NEW reduced
  PROVE  Keeps(s, LoadList(s, start, registers, aligned, user, reduced).state)
<1> DEFINE f == CHOOSE f : ListLoaded(f, s, start, registers, aligned, user, reduced, 15)
<1>1. ListLoaded(f, s, start, registers, aligned, user, reduced, 15)
  BY ListLoadedExists
<1>2. LoadList(s, start, registers, aligned, user, reduced) = f[15]
  BY DEF LoadList, ListLoaded
<1> HIDE DEF f
<1> QED BY <1>1, <1>2, ListLoadedKeeps

\* The states that the store of a list goes through.
ListStored(f, s, start, registers, values, aligned, reduced, size) ==
  f = [k \in 0..size |-> IF k = 0 THEN Access(s, start) ELSE StoreOne(f[k - 1], k - 1, registers, values, aligned, reduced)]

\* There is such a function.
LEMMA ListStoredExists ==
  ASSUME NEW s, NEW start, NEW registers, NEW values, NEW aligned, NEW reduced
  PROVE  \A n \in Nat : \E f : ListStored(f, s, start, registers, values, aligned, reduced, n)
<1> DEFINE Bad == {n \in Nat : ~ \E f : ListStored(f, s, start, registers, values, aligned, reduced, n)}
<1> SUFFICES ASSUME Bad # {} PROVE FALSE
  OBVIOUS
<1>1. PICK n \in Bad : \A m \in Bad : ~(m < n)
  BY LeastOfNumbers
<1>2. CASE n = 0
  <2>1. ListStored([k \in 0..0 |-> Access(s, start)], s, start, registers, values, aligned, reduced, 0)
    BY DEF ListStored
  <2> QED BY <1>2, <2>1
<1>3. CASE n # 0
  <2>1. n - 1 \in Nat /\ n - 1 \notin Bad
    BY <1>1, <1>3
  <2>2. PICK f : ListStored(f, s, start, registers, values, aligned, reduced, n - 1)
    BY <2>1
  <2>3. \A k \in 0..n - 1 : f[k] = IF k = 0 THEN Access(s, start) ELSE StoreOne(f[k - 1], k - 1, registers, values, aligned, reduced)
    BY <2>2, Zenon DEF ListStored
  <2> DEFINE g == [k \in 0..n |-> IF k = n THEN StoreOne(f[n - 1], n - 1, registers, values, aligned, reduced) ELSE f[k]]
  <2>4. ASSUME NEW k \in 0..n
        PROVE  g[k] = IF k = 0 THEN Access(s, start) ELSE StoreOne(g[k - 1], k - 1, registers, values, aligned, reduced)
    BY <1>3, <2>3
  <2>5. g = [k \in 0..n |-> g[k]]
    OBVIOUS
  <2> HIDE DEF g
  <2>6. g = [k \in 0..n |-> IF k = 0 THEN Access(s, start) ELSE StoreOne(g[k - 1], k - 1, registers, values, aligned, reduced)]
    BY <2>4, <2>5, Zenon
  <2>7. ListStored(g, s, start, registers, values, aligned, reduced, n)
    BY <2>6, Zenon DEF ListStored
  <2> QED BY <2>7
<1> QED BY <1>2, <1>3

\* Each of these states keeps.
LEMMA ListStoredKeeps ==
  ASSUME NEW s, NEW start, NEW registers, NEW values, NEW aligned, NEW reduced, NEW n \in Nat, NEW f,
         ListStored(f, s, start, registers, values, aligned, reduced, n)
  PROVE  \A k \in 0..n : Keeps(s, f[k].state)
<1> DEFINE Bad == {k \in 0..n : ~Keeps(s, f[k].state)}
<1> SUFFICES ASSUME Bad # {} PROVE FALSE
  OBVIOUS
<1>0. Bad \subseteq Nat
  OBVIOUS
<1>1. PICK k \in Bad : \A m \in Bad : ~(m < k)
  <2> HIDE DEF Bad
  <2> QED BY <1>0, LeastOfNumbers
<1>2. f[k] = IF k = 0 THEN Access(s, start) ELSE StoreOne(f[k - 1], k - 1, registers, values, aligned, reduced)
  BY Zenon DEF ListStored
<1>3. CASE k = 0
  BY <1>2, <1>3, KeepsSelf DEF Access
<1>4. CASE k # 0
  <2>1. k - 1 \in 0..n /\ k - 1 \notin Bad
    BY <1>1, <1>4
  <2>2. Keeps(s, f[k - 1].state)
    BY <2>1
  <2>3. Keeps(f[k - 1].state, f[k].state)
    BY <1>2, <1>4, StoreOneKeeps, KeepsSelf
  <2> QED BY <2>2, <2>3, KeepsBoth
<1> QED BY <1>3, <1>4

\* A list of registers, stored in order.
LEMMA StoreListKeeps ==
  ASSUME NEW s, NEW start, NEW registers, NEW values, NEW aligned, NEW reduced
  PROVE  Keeps(s, StoreList(s, start, registers, values, aligned, reduced).state)
<1> DEFINE f == CHOOSE f : ListStored(f, s, start, registers, values, aligned, reduced, 15)
<1>1. ListStored(f, s, start, registers, values, aligned, reduced, 15)
  BY ListStoredExists
<1>2. StoreList(s, start, registers, values, aligned, reduced) = f[15]
  BY DEF StoreList, ListStored
<1> HIDE DEF f
<1> QED BY <1>1, <1>2, ListStoredKeeps

\* One after the other, unless something is raised.
LEMMA ThenKeeps ==
  ASSUME NEW s, NEW t, NEW u, Keeps(s, t), Keeps(t, u)
  PROVE  Keeps(s, Then(t, u))
  BY KeepsBoth DEF Then

\* What is done with a loaded value.
LEMMA LoadedKeeps ==
  ASSUME NEW s, NEW a, NEW t, Keeps(s, a.state), Keeps(a.state, t)
  PROVE  Keeps(s, Loaded(a, t))
  BY KeepsBoth DEF Loaded

\* What follows an access.
Follows(i, s) ==
  /\ \A value : Keeps(s, WriteBack(i, s, value)) /\ Keeps(s, PostIndexed(i, s, value))
  /\ \A n, value : Keeps(s, Set(s, n, value))
  /\ \A address, data, target : Keeps(s, SetOrBranch(i, s, address, data, target))
  /\ \A address : Keeps(s, LoadWritePc(s, address)) /\ Keeps(s, BranchWritePc(s, address))
  /\ \A value : Keeps(s, SetDouble(i, s, value))
  /\ Keeps(s, s)

\* A loaded PC, and the instruction set it selects.
LEMMA SelectKeeps ==
  ASSUME NEW s
  PROVE  /\ \A address : Keeps(s, BranchWritePc(s, address))
         /\ \A address : Keeps(s, BxWritePc(s, address))
         /\ \A address : Keeps(s, LoadWritePc(s, address))
         /\ \A t : Keeps(s, SelectInstrSet(s, t))
<1>1. \A t : Keeps(s, SelectInstrSet(s, t))
  BY FlagKeeps DEF SelectInstrSet, FlagParts
<1> QED
  BY <1>1, BranchToKeeps, KeepsSelf, KeepsBoth DEF BranchWritePc, BxWritePc, LoadWritePc

\* All of these keep.
LEMMA FollowsKeep == ASSUME NEW i, NEW s PROVE Follows(i, s)
<1>1. \A value : Keeps(s, SetDouble(i, s, value))
  BY SetKeeps, KeepsBoth DEF SetDouble
<1> QED
  BY <1>1, SetKeeps, SelectKeeps, KeepsSelf DEF Follows, WriteBack, PostIndexed, SetOrBranch

\* Loads of one register.
LEMMA LoadKeeps ==
  ASSUME NEW i, NEW s, NEW offset,
         NEW as \in {"word", "half", "signed half", "byte", "signed byte"}
  PROVE  /\ Keeps(s, Load(i, s, offset, as))
         /\ Keeps(s, LoadLiteral(i, s, as))
         /\ Keeps(s, LoadUnpriv(i, s, as))
<1>0. SizeOf(as) \in {1, 2, 4, 8}
  BY DEF SizeOf
<1>1. \A a, base, value : Keeps(s, a.state) => Keeps(s, Loaded(a, Set(WriteBack(i, a.state, base), i.t, value)))
  BY FollowsKeep, LoadedKeeps, KeepsBoth, SetKeeps DEF Follows
<1>2. \A a, base, value : Keeps(s, a.state) => Keeps(s, Loaded(a, Set(PostIndexed(i, a.state, base), i.t, value)))
  BY FollowsKeep, LoadedKeeps, KeepsBoth, SetKeeps DEF Follows
<1>3. \A a, value : Keeps(s, a.state) => Keeps(s, Loaded(a, Set(a.state, i.t, value)))
  BY LoadedKeeps, SetKeeps
<1>4. Keeps(s, Load(i, s, offset, as))
  BY <1>0, <1>1, TransfersKeep, KeepsSelf DEF MemoryAccesses, Load, IfPassed
<1>5. Keeps(s, LoadLiteral(i, s, as))
  BY <1>0, <1>3, TransfersKeep, KeepsSelf DEF MemoryAccesses, LoadLiteral, IfPassed
<1>6. Keeps(s, LoadUnpriv(i, s, as))
  BY <1>0, <1>2, TransfersKeep, KeepsSelf DEF MemoryAccesses, LoadUnpriv, IfPassed, Unpriv
<1> QED BY <1>4, <1>5, <1>6

\* Loads of a word, some of which branch.
LEMMA LoadWordKeeps ==
  ASSUME NEW i, NEW s
  PROVE  /\ Keeps(s, LdrImmediateArm(i, s)) /\ Keeps(s, LdrLiteral(i, s))
         /\ Keeps(s, LdrRegisterArm(i, s)) /\ Keeps(s, LdrRegisterThumb(i, s))
         /\ Keeps(s, LdrshRegister(i, s))
<1>1. \A t, base, address, data, target :
        Keeps(t, SetOrBranch(i, WriteBack(i, t, base), address, data, target)) /\ Keeps(t, SetOrBranch(i, t, address, data, target))
  BY FollowsKeep, KeepsBoth DEF Follows
<1>2. \A a, base, address, data, target :
        Keeps(s, a.state) =>
          /\ Keeps(s, Loaded(a, SetOrBranch(i, WriteBack(i, a.state, base), address, data, target)))
          /\ Keeps(s, Loaded(a, SetOrBranch(i, a.state, address, data, target)))
  BY <1>1, LoadedKeeps
<1>3. \A a, base, value : Keeps(s, a.state) => Keeps(s, Loaded(a, Set(WriteBack(i, a.state, base), i.t, value)))
  BY FollowsKeep, LoadedKeeps, KeepsBoth, SetKeeps DEF Follows
<1>4. \A address : Keeps(s, MemUGet(s, address, 4).state) /\ Keeps(s, MemUGet(s, address, 2).state)
  BY TransfersKeep DEF MemoryAccesses
<1>5. Keeps(s, LdrImmediateArm(i, s)) /\ Keeps(s, LdrLiteral(i, s))
  BY <1>2, <1>4, KeepsSelf DEF LdrImmediateArm, LdrLiteral, IfPassed
<1>6. Keeps(s, LdrRegisterArm(i, s)) /\ Keeps(s, LdrRegisterThumb(i, s))
  BY <1>2, <1>4, KeepsSelf DEF LdrRegisterArm, LdrRegisterThumb, IfPassed
<1>7. Keeps(s, LdrshRegister(i, s))
  BY <1>3, <1>4 DEF LdrshRegister
<1> QED BY <1>5, <1>6, <1>7

\* Stores of one register.
LEMMA StoreKeeps ==
  ASSUME NEW i, NEW s, NEW offset, NEW as \in {"word", "half", "byte"}
  PROVE  Keeps(s, StoreTo(i, s, offset, as)) /\ Keeps(s, StoreUnpriv(i, s, as))
<1>0. SizeOf(as) \in {1, 2, 4, 8}
  BY DEF SizeOf
<1>1. \A t, value : Keeps(s, t) => Keeps(s, Then(t, WriteBack(i, t, value))) /\ Keeps(s, Then(t, PostIndexed(i, t, value)))
  BY FollowsKeep, ThenKeeps DEF Follows
<1>2. Keeps(s, StoreTo(i, s, offset, as))
  BY <1>0, <1>1, TransfersKeep, KeepsSelf DEF MemoryAccesses, StoreTo, IfPassed
<1>3. Keeps(s, StoreUnpriv(i, s, as))
  BY <1>0, <1>1, TransfersKeep, KeepsSelf DEF MemoryAccesses, StoreUnpriv, IfPassed, Unpriv
<1> QED BY <1>2, <1>3

\* Loads and stores of a pair of registers.
LEMMA DualKeeps ==
  ASSUME NEW i, NEW s, NEW offset
  PROVE  /\ \A address : Keeps(s, LoadDual(i, s, address))
         /\ Keeps(s, LoadDualBased(i, s, offset)) /\ Keeps(s, StoreDual(i, s, offset))
<1>1. \A t, address : Keeps(t, MemAGet(t, address, 4).state)
  BY TransfersKeep DEF MemoryAccesses
<1>2. \A t, address, value : Keeps(t, MemASet(t, address, 4, value))
  BY TransfersKeep DEF MemoryAccesses
<1>3. \A t, value : Keeps(t, WriteBack(i, t, value))
  BY FollowsKeep DEF Follows
<1>4. ASSUME NEW address PROVE Keeps(s, LoadDual(i, s, address))
  <2>1. PICK a : a = MemAGet(s, address, 4)
    OBVIOUS
  <2>2. PICK b : b = MemAGet(Set(a.state, i.t, a.value), Add(address, 4), 4)
    OBVIOUS
  <2>3. Keeps(s, a.state) /\ Keeps(a.state, b.state)
    BY <1>1, <2>1, <2>2, SetKeeps, KeepsBoth
  <2>4. Keeps(a.state, Loaded(b, Set(b.state, i.t2, b.value)))
    BY <2>3, SetKeeps, LoadedKeeps
  <2> QED BY <2>1, <2>2, <2>3, <2>4, LoadedKeeps DEF LoadDual
<1>5. Keeps(s, LoadDualBased(i, s, offset))
  BY <1>3, <1>4, ThenKeeps, KeepsSelf DEF LoadDualBased, IfPassed
<1>6. Keeps(s, StoreDual(i, s, offset))
  <2>1. PICK address : address = Address(i, s, offset)
    OBVIOUS
  <2>2. PICK t : t = MemASet(s, address, 4, Get(s, i.t))
    OBVIOUS
  <2>3. PICK u : u = MemASet(t, Add(address, 4), 4, Get(s, i.t2))
    OBVIOUS
  <2>4. Keeps(s, t) /\ Keeps(t, u)
    BY <1>2, <2>2, <2>3
  <2>5. Keeps(t, Then(u, WriteBack(i, u, OffsetAddr(i, s, offset))))
    BY <1>3, <2>4, ThenKeeps
  <2>6. Keeps(s, Then(t, Then(u, WriteBack(i, u, OffsetAddr(i, s, offset)))))
    BY <2>4, <2>5, ThenKeeps
  <2> QED BY <2>1, <2>2, <2>3, <2>6, KeepsSelf DEF StoreDual, IfPassed
<1> QED BY <1>4, <1>5, <1>6

\* Exclusive loads and stores.
LEMMA ExclusiveKeeps ==
  ASSUME NEW i, NEW s, NEW size \in {1, 2, 4, 8}
  PROVE  /\ \A address : Keeps(s, LoadExclusive(i, s, address, size)) /\ Keeps(s, Ldrexd(i, s))
         /\ \A address, checked, value : Keeps(s, StoreExclusive(i, s, address, checked, size, value))
<1>1. ASSUME NEW t, NEW address, NEW n \in {1, 2, 4, 8}, NEW single, Keeps(s, t)
      PROVE  Keeps(s, LoadMarked(t, address, n, single, i))
  <2>1. PICK a : a = MemAGet(t, address, n)
    OBVIOUS
  <2>2. Keeps(t, a.state)
    BY <2>1, TransfersKeep DEF MemoryAccesses
  <2>3. Keeps(t, Loaded(a, IF single THEN Set(a.state, i.t, a.value) ELSE SetDouble(i, a.state, a.value)))
    BY <2>2, LoadedKeeps, FollowsKeep DEF Follows
  <2> QED BY <1>1, <2>1, <2>3, ThenKeeps DEF LoadMarked
<1>2. \A address, n : Keeps(s, SetExclusiveMonitors(s, address, n))
  BY TransfersKeep DEF MemoryAccesses
<1>3. \A address : Keeps(s, LoadExclusive(i, s, address, size))
  BY <1>1, <1>2, KeepsSelf DEF LoadExclusive, IfPassed
<1>4. Keeps(s, Ldrexd(i, s))
  BY <1>1, <1>2, TransfersKeep, KeepsSelf DEF MemoryAccesses, Ldrexd, IfPassed
<1>5. ASSUME NEW address, NEW checked, NEW value
      PROVE  Keeps(s, StoreExclusive(i, s, address, checked, size, value))
  <2>1. PICK a : a = ExclusiveMonitorsPass(s, address, checked)
    OBVIOUS
  <2>2. Keeps(s, a.state)
    BY <2>1, TransfersKeep DEF MemoryAccesses
  <2>3. PICK t : t = MemASet(a.state, address, size, value)
    OBVIOUS
  <2>4. Keeps(a.state, Then(t, Set(t, i.d, 0)))
    BY <2>3, TransfersKeep, ThenKeeps, SetKeeps DEF MemoryAccesses
  <2>5. Keeps(s, Loaded(a, IF ~a.value THEN Set(a.state, i.d, 1) ELSE Then(t, Set(t, i.d, 0))))
    BY <2>2, <2>4, LoadedKeeps, SetKeeps
  <2> QED BY <2>1, <2>3, <2>5, KeepsSelf DEF StoreExclusive, IfPassed
<1> QED BY <1>3, <1>4, <1>5

\* A list, then PC, then the base.
LEMMA MultipleKeeps ==
  ASSUME NEW i, NEW s, NEW start, NEW base
  PROVE  /\ Keeps(s, LoadMultiple(i, s, start, base))
         /\ \A reduced : Keeps(s, StoreMultiple(i, s, start, base, reduced))
<1>1. \A t, address : Keeps(t, MemAGet(t, address, 4).state) /\ Keeps(t, MemUGet(t, address, 4).state)
  BY TransfersKeep DEF MemoryAccesses
<1>2. \A t, address, value : Keeps(t, MemASet(t, address, 4, value))
  BY TransfersKeep DEF MemoryAccesses
<1>3. Keeps(s, LoadMultiple(i, s, start, base))
  <2> DEFINE Based(t) == IF i.wback THEN Set(t, i.n, IF i.n \in i.registers THEN 0 ELSE base) ELSE t
  <2>1. PICK a : a = LoadList(s, start, i.registers, TRUE, FALSE, TRUE)
    OBVIOUS
  <2>2. PICK b : b = MemAGet(a.state, a.value, 4)
    OBVIOUS
  <2>3. Keeps(s, a.state) /\ Keeps(a.state, b.state)
    BY <1>1, <2>1, <2>2, LoadListKeeps
  <2>4. \A t : Keeps(t, Based(t))
    BY SetKeeps, KeepsSelf
  <2>5. LoadMultiple(i, s, start, base) =
          IfPassed(i, s, Loaded(a, IF 15 \notin i.registers THEN Based(a.state)
                                   ELSE Loaded(b, Based(LoadWritePc(b.state, b.value)))))
    BY <2>1, <2>2 DEF LoadMultiple
  <2> HIDE DEF Based
  <2>6. Keeps(a.state, Loaded(b, Based(LoadWritePc(b.state, b.value))))
    BY <2>3, <2>4, LoadedKeeps, SelectKeeps, KeepsBoth
  <2>7. Keeps(s, Loaded(a, IF 15 \notin i.registers THEN Based(a.state)
                           ELSE Loaded(b, Based(LoadWritePc(b.state, b.value)))))
    BY <2>3, <2>4, <2>6, LoadedKeeps
  <2> QED BY <2>5, <2>7, KeepsSelf DEF IfPassed
<1>4. ASSUME NEW reduced PROVE Keeps(s, StoreMultiple(i, s, start, base, reduced))
  <2>1. PICK values : values = [n \in i.registers \ {15} |-> IF n = i.n /\ i.wback /\ n # Min(i.registers) THEN 0 ELSE Get(s, n)]
    OBVIOUS
  <2>2. PICK a : a = StoreList(s, start, i.registers, values, 0..14, reduced)
    OBVIOUS
  <2>3. PICK t : t = IF 15 \in i.registers THEN MemASet(a.state, a.value, 4, PcStoreValue(a.state)) ELSE a.state
    OBVIOUS
  <2>4. Keeps(s, a.state) /\ Keeps(a.state, t)
    BY <1>2, <2>2, <2>3, StoreListKeeps, KeepsSelf
  <2>5. Keeps(a.state, Then(t, IF i.wback THEN Set(t, i.n, base) ELSE t))
    BY <2>4, ThenKeeps, SetKeeps, KeepsSelf
  <2>6. Keeps(s, Loaded(a, Then(t, IF i.wback THEN Set(t, i.n, base) ELSE t)))
    BY <2>4, <2>5, LoadedKeeps
  <2> QED BY <2>1, <2>2, <2>3, <2>6, KeepsSelf DEF StoreMultiple, IfPassed
<1> QED BY <1>3, <1>4

\* PUSH and POP.
LEMMA StackKeeps ==
  ASSUME NEW i, NEW s
  PROVE  /\ \A reduced, base : Keeps(s, Pop(i, s, reduced, base))
         /\ Keeps(s, Push(i, s))
<1>1. \A t, address, aligned : Keeps(t, ReadWord(t, address, aligned).state)
  BY TransfersKeep DEF MemoryAccesses, ReadWord
<1>2. \A t, address, aligned, value : Keeps(t, WriteWord(t, address, aligned, value))
  BY TransfersKeep DEF MemoryAccesses, WriteWord
<1>3. ASSUME NEW reduced, NEW base PROVE Keeps(s, Pop(i, s, reduced, base))
  <2> DEFINE aligned == ~i.unaligned_allowed
             Based(t) == Set(t, 13, IF 13 \in i.registers THEN 0 ELSE base)
  <2>1. PICK a : a = LoadList(s, Get(s, 13), i.registers, aligned, FALSE, reduced)
    OBVIOUS
  <2>2. PICK b : b = ReadWord(a.state, a.value, aligned)
    OBVIOUS
  <2>3. Keeps(s, a.state) /\ Keeps(a.state, b.state)
    BY <1>1, <2>1, <2>2, LoadListKeeps
  <2>4. \A t : Keeps(t, Based(t))
    BY SetKeeps
  <2>5. PICK c : /\ Pop(i, s, reduced, base) = IfPassed(i, s, Loaded(a, c))
                 /\ c = CASE 15 \notin i.registers -> Based(a.state)
                          [] 15 \in i.registers /\ ~aligned /\ a.value % 4 # 0 -> Based(a.state)
                          [] OTHER -> Loaded(b, Based(LoadWritePc(b.state, b.value)))
    BY <2>1, <2>2 DEF Pop
  <2> HIDE DEF Based, aligned
  <2>6. Keeps(a.state, Loaded(b, Based(LoadWritePc(b.state, b.value))))
    BY <2>3, <2>4, LoadedKeeps, SelectKeeps, KeepsBoth
  <2>7. Keeps(a.state, c)
    BY <2>4, <2>5, <2>6
  <2> QED BY <2>3, <2>5, <2>7, LoadedKeeps, KeepsSelf DEF IfPassed
<1>4. Keeps(s, Push(i, s))
  <2> DEFINE base == Sub(Get(s, 13), Bytes(i))
             unknown == {13} \ {Min(i.registers)}
             aligned == IF i.unaligned_allowed THEN unknown ELSE 0..14
  <2>1. PICK values : values = [n \in i.registers \ {15} |-> IF n \in unknown THEN 0 ELSE Get(s, n)]
    OBVIOUS
  <2>2. PICK a : a = StoreList(s, base, i.registers, values, aligned, TRUE)
    OBVIOUS
  <2>3. PICK t : t = IF 15 \in i.registers THEN WriteWord(a.state, a.value, ~i.unaligned_allowed, PcStoreValue(a.state)) ELSE a.state
    OBVIOUS
  <2>4. Keeps(s, a.state) /\ Keeps(a.state, t)
    BY <1>2, <2>2, <2>3, StoreListKeeps, KeepsSelf
  <2>5. Keeps(a.state, Then(t, Set(t, 13, base)))
    BY <2>4, ThenKeeps, SetKeeps
  <2>6. Keeps(s, Loaded(a, Then(t, Set(t, 13, base))))
    BY <2>4, <2>5, LoadedKeeps
  <2> QED BY <2>1, <2>2, <2>3, <2>6, KeepsSelf DEF Push, IfPassed
<1> QED BY <1>3, <1>4

\* A privileged instruction does nothing in user mode.
LEMMA PrivilegedKeeps ==
  ASSUME NEW i, NEW s, NEW t, s.psr.m # "usr" => Keeps(s, t)
  PROVE  Keeps(s, Privileged(i, s, t))
  BY RaiseKeeps, KeepsSelf DEF Privileged, IfPassed, CurrentModeIsUserOrSystem

\* The registers of User mode, loaded or stored by a handler; and the table branches.
LEMMA UserListKeeps ==
  ASSUME NEW i, NEW s
  PROVE  Keeps(s, LdmUserRegisters(i, s)) /\ Keeps(s, StmUserRegisters(i, s)) /\ Keeps(s, TbbTbh(i, s))
<1>1. Keeps(s, LdmUserRegisters(i, s))
  BY LoadListKeeps, PrivilegedKeeps DEF LdmUserRegisters
<1>2. Keeps(s, StmUserRegisters(i, s))
  <2>1. PICK values : values = [n \in i.registers \ {15} |-> GetRmode(s, n, "usr")]
    OBVIOUS
  <2>2. PICK a : a = StoreList(s, Start(i, s, Bytes(i)), i.registers, values, 0..14, TRUE)
    OBVIOUS
  <2>3. PICK t : t = IF 15 \in i.registers THEN MemASet(a.state, a.value, 4, PcStoreValue(a.state)) ELSE a.state
    OBVIOUS
  <2>4. Keeps(s, a.state) /\ Keeps(a.state, t)
    BY <2>2, <2>3, StoreListKeeps, TransfersKeep, KeepsSelf DEF MemoryAccesses
  <2>5. Keeps(s, Loaded(a, t))
    BY <2>4, LoadedKeeps
  <2> QED BY <2>1, <2>2, <2>3, <2>5, PrivilegedKeeps DEF StmUserRegisters
<1>3. Keeps(s, TbbTbh(i, s))
  <2>1. PICK address : address = IF i.is_tbh THEN Add(Get(s, i.n), LowerChunk(2 * Get(s, i.m), WordBits))
                                 ELSE Add(Get(s, i.n), Get(s, i.m))
    OBVIOUS
  <2>2. PICK a : a = MemUGet(s, address, IF i.is_tbh THEN 2 ELSE 1)
    OBVIOUS
  <2>3. Keeps(s, a.state)
    BY <2>2, TransfersKeep DEF MemoryAccesses
  <2>4. Keeps(s, Loaded(a, BranchWritePc(a.state, Add(GetPc(a.state), 2 * a.value))))
    BY <2>3, LoadedKeeps, SelectKeeps
  <2> QED BY <2>1, <2>2, <2>4, KeepsSelf DEF TbbTbh, IfPassed
<1> QED BY <1>1, <1>2, <1>3

\* Every load and store.
LEMMA LoadStoreKeeps ==
  ASSUME NEW i, NEW s, i.op \in LoadStoreOpcodes
  PROVE  Keeps(s, LoadStoreOpcode(i, s))
<1>1. CASE i.op \in {"LdrImmediateArm", "LdrImmediateThumb", "LdrLiteral", "LdrRegisterArm", "LdrRegisterThumb",
                     "LdrshRegister"}
  BY <1>1, LoadWordKeeps
     DEF LoadStoreOpcode, LdrImmediateArm, LdrImmediateThumb
<1>2. CASE i.op \in {"LdrbImmediateArm", "LdrbImmediateThumb", "LdrbLiteral", "LdrbRegister", "LdrhImmediateArm",
                     "LdrhImmediateThumb", "LdrhLiteral", "LdrhRegister"}
  BY <1>2, LoadKeeps
     DEF LoadStoreOpcode, LdrbImmediateArm, LdrbImmediateThumb, LdrbLiteral, LdrbRegister, LdrhImmediateArm,
         LdrhImmediateThumb, LdrhLiteral, LdrhRegister
<1>3. CASE i.op \in {"LdrsbImmediate", "LdrsbLiteral", "LdrsbRegister", "LdrshImmediate", "LdrshLiteral", "Ldrt",
                     "Ldrbt", "Ldrht", "Ldrsbt", "Ldrsht"}
  BY <1>3, LoadKeeps
     DEF LoadStoreOpcode, LdrsbImmediate, LdrsbLiteral, LdrsbRegister, LdrshImmediate, LdrshLiteral, Ldrt, Ldrbt,
         Ldrht, Ldrsbt, Ldrsht
<1>4. CASE i.op \in {"StrImmediateArm", "StrImmediateThumb", "StrRegister", "StrbImmediateArm",
                     "StrbImmediateThumb", "StrbRegister", "StrhImmediateArm", "StrhImmediateThumb", "StrhRegister",
                     "Strt", "Strbt", "Strht"}
  BY <1>4, StoreKeeps
     DEF LoadStoreOpcode, StrImmediateArm, StrImmediateThumb, StrRegister, StrbImmediateArm, StrbImmediateThumb,
         StrbRegister, StrhImmediateArm, StrhImmediateThumb, StrhRegister, Strt, Strbt, Strht
<1>5. CASE i.op \in {"LdrdImmediate", "LdrdLiteral", "LdrdRegister", "StrdImmediate", "StrdRegister"}
  BY <1>5, DualKeeps, KeepsSelf
     DEF LoadStoreOpcode, IfPassed, LdrdImmediate, LdrdLiteral, LdrdRegister, StrdImmediate, StrdRegister
<1>6. CASE i.op \in {"Ldrex", "Ldrexb", "Ldrexh", "Ldrexd", "Strex", "Strexb", "Strexh", "Strexd"}
  BY <1>6, ExclusiveKeeps
     DEF LoadStoreOpcode, Ldrex, Ldrexb, Ldrexh, Strex, Strexb, Strexh, Strexd
<1>7. CASE i.op \in {"LdmArm", "LdmThumb", "Ldmib", "Ldmdb", "Ldmda", "Stm", "Stmib", "Stmdb", "Stmda"}
  BY <1>7, MultipleKeeps
     DEF LoadStoreOpcode, LdmArm, LdmThumb, Ldmib, Ldmdb, Ldmda, Stm, Stmib, Stmdb, Stmda
<1>8. CASE i.op \in {"PopArm", "PopThumb", "Push", "LdmUserRegisters", "StmUserRegisters", "TbbTbh"}
  BY <1>8, StackKeeps, UserListKeeps
     DEF LoadStoreOpcode, PopArm, PopThumb
<1> QED
  BY <1>1, <1>2, <1>3, <1>4, <1>5, <1>6, <1>7, <1>8 DEF LoadStoreOpcodes

-----------------------------------------------------------------------------
(* Branches, status registers, returns and hints *)

\* In user mode an instruction writes no mask and no mode, and no SPSR.
LEMMA StatusWriteKeeps ==
  ASSUME NEW s, NEW value, NEW bytes
  PROVE  /\ \A return : Keeps(s, CpsrWriteByInstr(s, value, bytes, return))
         /\ Keeps(s, SpsrWriteByInstr(s, value, bytes))
<1>1. ASSUME NEW return PROVE Keeps(s, CpsrWriteByInstr(s, value, bytes, return))
  BY DEF CpsrWriteByInstr, CurrentModeIsNotUser, Keeps, Shaped, Parts, PsrParts, SameVectors, Confined
<1>2. Keeps(s, SpsrWriteByInstr(s, value, bytes))
  <2>1. PICK q : SpsrWriteByInstr(s, value, bytes) = SetSpsr(s, q)
    BY DEF SpsrWriteByInstr
  <2>2. Keeps(s, SetSpsr(s, q))
    BY DEF SetSpsr, Banked, Keeps, Shaped, Parts, SameVectors, Confined
  <2> QED BY <2>1, <2>2
<1> QED BY <1>1, <1>2

\* The return by a load, which user mode does not have.
LEMMA ExceptionReturnKeeps ==
  ASSUME NEW s, NEW psr, NEW address
  PROVE  Keeps(s, ExceptionReturn(s, psr, address))
<1>1. PICK t : t = CpsrWriteByInstr(s, psr, All, TRUE)
  OBVIOUS
<1> QED BY <1>1, StatusWriteKeeps, SelectKeeps, KeepsBoth DEF ExceptionReturn

\* Branches and calls.
LEMMA BranchesKeep ==
  ASSUME NEW i, NEW s
  PROVE  /\ Keeps(s, B(i, s)) /\ Keeps(s, BlBlxImmediate(i, s)) /\ Keeps(s, BlxRegister(i, s))
         /\ Keeps(s, Bx(i, s)) /\ Keeps(s, Bxj(i, s)) /\ Keeps(s, Cbz(i, s))
<1>1. Keeps(s, BlBlxImmediate(i, s))
  <2>1. PICK linked : linked = Set(s, 14, IF s.psr.t = 0 THEN Sub(GetPc(s), 4) ELSE SetSubstring(GetPc(s), 0, 0, 1))
    OBVIOUS
  <2>2. Keeps(s, SelectInstrSet(linked, i.target))
    BY <2>1, SetKeeps, SelectKeeps, KeepsBoth
  <2>3. \A address : Keeps(s, BranchWritePc(SelectInstrSet(linked, i.target), address))
    BY <2>2, SelectKeeps, KeepsBoth
  <2> QED BY <2>1, <2>3, KeepsSelf DEF BlBlxImmediate, IfPassed
<1>2. Keeps(s, BlxRegister(i, s))
  <2>1. \A link, address : Keeps(s, BxWritePc(Set(s, 14, link), address))
    BY SetKeeps, SelectKeeps, KeepsBoth
  <2> QED BY <2>1, KeepsSelf DEF BlxRegister, IfPassed
<1>3. Keeps(s, B(i, s)) /\ Keeps(s, Bx(i, s)) /\ Keeps(s, Cbz(i, s))
  BY SelectKeeps, KeepsSelf DEF B, Bx, Cbz, IfPassed
<1>4. Keeps(s, Bxj(i, s))
  BY KernelAssumption, SelectKeeps, KeepsSelf DEF Bxj, IfPassed
<1> QED BY <1>1, <1>2, <1>3, <1>4

\* Writes to the status registers.
LEMMA StatusKeeps ==
  ASSUME NEW i, NEW s
  PROVE  /\ \A value : Keeps(s, MsrApplication(i, s, value)) /\ Keeps(s, MsrSystem(i, s, value))
         /\ Keeps(s, CpsArm(i, s))
<1>1. ASSUME NEW value PROVE Keeps(s, MsrApplication(i, s, value))
  <2>1. CASE ~Shaped(s)
    BY <2>1 DEF Keeps
  <2>2. CASE Shaped(s)
    <3>1. PICK flags : flags = IF i.write_nzcvq
                               THEN [s.psr EXCEPT !.n = value.n, !.z = value.z, !.c = value.c, !.v = value.v, !.q = value.q]
                               ELSE s.psr
      OBVIOUS
    <3>2. PsrParts \subseteq DOMAIN flags /\ \A f \in {"m", "a", "i", "f"} : flags[f] = s.psr[f]
      BY <2>2, <3>1 DEF Shaped, Parts, PsrParts
    <3>3. PICK q : q = IF i.write_g THEN [flags EXCEPT !.ge = value.ge] ELSE flags
      OBVIOUS
    <3>4. PsrParts \subseteq DOMAIN q /\ \A f \in {"m", "a", "i", "f"} : q[f] = s.psr[f]
      BY <3>2, <3>3
    <3> QED BY <3>1, <3>3, <3>4, PsrKeeps DEF MsrApplication
  <2> QED BY <2>1, <2>2
<1>2. \A value : Keeps(s, MsrSystem(i, s, value))
  BY StatusWriteKeeps DEF MsrSystem
<1>3. Keeps(s, CpsArm(i, s))
  BY StatusWriteKeeps, KeepsSelf DEF CpsArm
<1> QED BY <1>1, <1>2, <1>3

\* Any register of any mode, but not from user mode.
LEMMA PrivilegedSetKeeps ==
  ASSUME NEW s, NEW t, NEW n, NEW mode, NEW value, Keeps(s, t), s.psr.m # "usr"
  PROVE  Keeps(s, SetRmode(t, n, mode, value))
  BY DEF SetRmode, Keeps, Shaped, Parts, SameVectors

\* The state a handler stores, on the stack of any mode.
LEMMA SrsKeeps == ASSUME NEW i, NEW s PROVE Keeps(s, SrsArm(i, s))
<1>1. PICK lowest : lowest = IF i.increment THEN GetRmode(s, 13, i.mode) ELSE Sub(GetRmode(s, 13, i.mode), 8)
  OBVIOUS
<1>2. PICK address : address = IF i.word_higher THEN Add(lowest, 4) ELSE lowest
  OBVIOUS
<1>3. PICK first : first = MemASet(s, address, 4, Get(s, 14))
  OBVIOUS
<1>4. PICK second : second = MemASet(first, Add(address, 4), 4, GetSpsr(s))
  OBVIOUS
<1>5. PICK written :
        written = IF i.wback
                  THEN SetRmode(second, 13, i.mode,
                                IF i.increment THEN Add(GetRmode(s, 13, i.mode), 8) ELSE Sub(GetRmode(s, 13, i.mode), 8))
                  ELSE second
  OBVIOUS
<1>6. SrsArm(i, s) = Privileged(i, s, IF i.mode = "hyp" THEN s ELSE Then(first, Then(second, written)))
  BY <1>1, <1>2, <1>3, <1>4, <1>5 DEF SrsArm
<1>7. Keeps(s, first) /\ Keeps(first, second)
  BY <1>3, <1>4, TransfersKeep DEF MemoryAccesses
<1>8. ASSUME s.psr.m # "usr" PROVE Keeps(s, Then(first, Then(second, written)))
  BY <1>5, <1>7, <1>8, KeepsBoth, PrivilegedSetKeeps DEF Then
<1> QED BY <1>6, <1>8, KeepsSelf, PrivilegedKeeps

\* The returns from exceptions, and ERET.
LEMMA ReturnsKeep ==
  ASSUME NEW i, NEW s
  PROVE  /\ Keeps(s, Eret(i, s)) /\ Keeps(s, SubsPcLrArm(i, s)) /\ Keeps(s, SubsPcLrThumb(i, s))
         /\ Keeps(s, LdmExceptionReturn(i, s)) /\ Keeps(s, Rfe(i, s))
<1>1. \A t, address : Keeps(t, MemAGet(t, address, 4).state)
  BY TransfersKeep DEF MemoryAccesses
<1>2. Keeps(s, Eret(i, s))
  BY ExceptionReturnKeeps, KeepsSelf DEF Eret, IfPassed
<1>3. Keeps(s, SubsPcLrArm(i, s))
  <2>1. PICK address : SubsPcLrArm(i, s) = Privileged(i, s, ExceptionReturn(s, GetSpsr(s), address))
    BY DEF SubsPcLrArm
  <2> QED BY <2>1, ExceptionReturnKeeps, PrivilegedKeeps
<1>4. Keeps(s, SubsPcLrThumb(i, s))
  BY SelectKeeps, KeepsSelf DEF SubsPcLrThumb, IfPassed
<1>5. Keeps(s, LdmExceptionReturn(i, s))
  <2> DEFINE length == Bytes(i) + 4
             base == IF i.increment THEN Add(Get(s, i.n), length) ELSE Sub(Get(s, i.n), length)
             Based(t) == IF i.wback THEN Set(t, i.n, IF i.n \in i.registers THEN 0 ELSE base) ELSE t
  <2>1. PICK a : a = LoadList(s, Start(i, s, length), i.registers, TRUE, FALSE, TRUE)
    OBVIOUS
  <2>2. PICK b : b = MemAGet(a.state, a.value, 4)
    OBVIOUS
  <2>3. Keeps(s, a.state) /\ Keeps(a.state, b.state)
    BY <1>1, <2>1, <2>2, LoadListKeeps
  <2>4. \A t : Keeps(t, Based(t))
    BY SetKeeps, KeepsSelf
  <2>5. LdmExceptionReturn(i, s) =
          Privileged(i, s, Loaded(a, Loaded(b, ExceptionReturn(Based(b.state), GetSpsr(b.state), b.value))))
    BY <2>1, <2>2 DEF LdmExceptionReturn
  <2> HIDE DEF Based
  <2>6. Keeps(a.state, Loaded(b, ExceptionReturn(Based(b.state), GetSpsr(b.state), b.value)))
    BY <2>3, <2>4, LoadedKeeps, ExceptionReturnKeeps, KeepsBoth
  <2> QED BY <2>3, <2>5, <2>6, LoadedKeeps, PrivilegedKeeps
<1>6. Keeps(s, Rfe(i, s))
  <2> DEFINE address == Start(i, s, 8)
             base == IF i.increment THEN Add(Get(s, i.n), 8) ELSE Sub(Get(s, i.n), 8)
  <2>1. PICK a : a = MemAGet(s, address, 4)
    OBVIOUS
  <2>2. PICK b : b = MemAGet(a.state, Add(address, 4), 4)
    OBVIOUS
  <2>3. Keeps(s, a.state) /\ Keeps(a.state, b.state)
    BY <1>1, <2>1, <2>2
  <2>4. Keeps(b.state, ExceptionReturn(WriteBack(i, b.state, base), b.value, a.value))
    BY FollowsKeep, ExceptionReturnKeeps, KeepsBoth DEF Follows
  <2>5. Keeps(s, Loaded(a, Loaded(b, ExceptionReturn(WriteBack(i, b.state, base), b.value, a.value))))
    BY <2>3, <2>4, LoadedKeeps
  <2>6. Rfe(i, s) = IfPassed(i, s, IF s.psr.m = "hyp" THEN Raise(s, "undef")
                                   ELSE IF CurrentModeIsNotUser(s)
                                   THEN Loaded(a, Loaded(b, ExceptionReturn(WriteBack(i, b.state, base), b.value, a.value)))
                                   ELSE s)
    BY <2>1, <2>2 DEF Rfe
  <2> QED BY <2>5, <2>6, RaiseKeeps, KeepsSelf DEF IfPassed
<1> QED BY <1>2, <1>3, <1>4, <1>5, <1>6

\* Waits, calls, coprocessors, breakpoints, and what changes the state of execution alone.
LEMMA HintsKeep ==
  ASSUME NEW i, NEW s
  PROVE  /\ Keeps(s, Wfe(i, s)) /\ Keeps(s, Wfi(i, s)) /\ Keeps(s, Smc(i, s))
         /\ Keeps(s, Stub(i, s)) /\ Keeps(s, Coprocessor(i, s)) /\ Keeps(s, Svc(i, s)) /\ Keeps(s, Udf(i, s))
         /\ Keeps(s, Bkpt(i, s)) /\ Keeps(s, Setend(i, s)) /\ Keeps(s, It(i, s))
<1>1. \A trap : ~Trapped(s, trap)
  BY KernelAssumption DEF Trapped
<1>2. Keeps(s, Wfe(i, s)) /\ Keeps(s, Wfi(i, s))
  BY <1>1, OtherKeeps, KeepsSelf DEF Wfe, Wfi, IfPassed
<1>3. Keeps(s, Smc(i, s))
  BY <1>1, RaiseKeeps, KeepsSelf DEF Smc, IfPassed
<1>4. Keeps(s, Stub(i, s)) /\ Keeps(s, Svc(i, s)) /\ Keeps(s, Udf(i, s)) /\ Keeps(s, Bkpt(i, s))
  BY RaiseKeeps, KeepsSelf DEF Stub, Svc, Udf, Bkpt, IfPassed
<1>5. Keeps(s, Coprocessor(i, s))
  BY RaiseKeeps, KeepsSelf DEF Coprocessor, IfPassed
<1>6. Keeps(s, Setend(i, s)) /\ Keeps(s, It(i, s))
  BY FlagKeeps DEF Setend, It, FlagParts
<1> QED BY <1>2, <1>3, <1>4, <1>5, <1>6

\* Every branch, return, hint and instruction for a status register or a coprocessor.
LEMMA SystemKeeps ==
  ASSUME NEW i, NEW s, i.op \in SystemOpcodes
  PROVE  Keeps(s, SystemOpcode(i, s))
<1>1. CASE i.op \in {"B", "BlBlxImmediate", "BlxRegister", "Bx", "Bxj", "Cbz"}
  BY <1>1, BranchesKeep
     DEF SystemOpcode
<1>2. CASE i.op \in {"MrsApplication", "MrsSystem", "MsrImmediateApplication", "MsrRegisterApplication",
                     "MsrImmediateSystem", "MsrRegisterSystem", "CpsArm", "CpsThumb"}
  BY <1>2, StatusKeeps, SetKeeps, KeepsSelf
     DEF SystemOpcode, IfPassed, MrsApplication, MrsSystem, MsrImmediateApplication, MsrRegisterApplication,
         MsrImmediateSystem, MsrRegisterSystem, CpsThumb
<1>3. CASE i.op \in {"Eret", "SubsPcLrArm", "SubsPcLrThumb", "LdmExceptionReturn", "Rfe", "SrsArm", "SrsThumb"}
  BY <1>3, ReturnsKeep, SrsKeeps
     DEF SystemOpcode, SrsThumb
<1>4. CASE i.op \in {"Wfe", "Wfi", "Smc", "Svc", "Udf", "Bkpt", "Setend", "It", "Nop", "Clrex"}
  BY <1>4, HintsKeep, KeepsSelf
     DEF SystemOpcode, Nop, Clrex
<1>5. CASE i.op \in {"Sev", "Yield", "Dsb", "Isb", "PldImmediate", "PldLiteral", "PldRegister"}
  BY <1>5, HintsKeep
     DEF SystemOpcode, Sev, Yield, Dsb, Isb, PldImmediate, PldLiteral, PldRegister
<1>6. CASE i.op \in {"CdpCdp2", "LdcLdc2Immediate", "LdcLdc2Literal", "McrMcr2", "McrrMcrr2", "MrcMrc2",
                     "MrrcMrrc2", "StcStc2"}
  BY <1>6, HintsKeep
     DEF SystemOpcode, CdpCdp2, LdcLdc2Immediate, LdcLdc2Literal, McrMcr2, McrrMcrr2, MrcMrc2, MrrcMrrc2, StcStc2
<1> QED
  BY <1>1, <1>2, <1>3, <1>4, <1>5, <1>6 DEF SystemOpcodes

-----------------------------------------------------------------------------
(* A cycle, and the exceptions it may end with *)

\* The opcodes of the four groups are different ones.
LEMMA GroupsDiffer ==
  /\ DataProcessingOpcodes \cap MediaOpcodes = {}
  /\ (DataProcessingOpcodes \cup MediaOpcodes) \cap LoadStoreOpcodes = {}
  /\ (DataProcessingOpcodes \cup MediaOpcodes \cup LoadStoreOpcodes) \cap SystemOpcodes = {}
  BY DEF DataProcessingOpcodes, MediaOpcodes, LoadStoreOpcodes, SystemOpcodes

\* Any of the opcodes, with any fields.
LEMMA OpcodeKeeps ==
  ASSUME NEW i, NEW s, i.op \in Opcodes
  PROVE  Keeps(s, Opcode(i, s))
  BY GroupsDiffer, DataProcessingKeeps, MediaKeeps, LoadStoreKeeps, SystemKeeps DEF Opcodes, Opcode

\* The step through an IT block.
LEMMA ItAdvanceKeeps == ASSUME NEW s PROVE Keeps(s, ItAdvance(s))
  BY FlagKeeps DEF ItAdvance, FlagParts

\* Up to the exception that it may end with, a cycle keeps.
LEMMA ExecutedKeeps ==
  ASSUME NEW i, NEW s, i.op \in Opcodes
  PROVE  \E t : /\ Keeps(s, t)
                /\ EmulateCycle(i, Opcode, s) = t \/ EmulateCycle(i, Opcode, s) = TakeException(t)
<1>1. PICK fetched : fetched = FetchInstruction(s, i.length)
  OBVIOUS
<1>2. Keeps(s, fetched)
  BY <1>1, TransfersKeep, ThenKeeps, KeepsSelf DEF MemoryAccesses, FetchInstruction, Then
<1>3. PICK after : after = Opcode(i, [fetched EXCEPT !.branched = FALSE])
  OBVIOUS
<1>4. Keeps(fetched, after)
  <2>1. Keeps(fetched, [fetched EXCEPT !.branched = FALSE])
    BY DEF Keeps, Shaped, Parts, SameVectors, Confined
  <2> QED BY <1>3, <2>1, OpcodeKeeps, KeepsBoth
<1>5. PICK executed : executed = Then(fetched, ExecuteInstruction(i, Opcode, fetched))
  OBVIOUS
<1>6. ExecuteInstruction(i, Opcode, fetched) = Then(after, IF InItBlock(fetched) THEN ItAdvance(after) ELSE after)
  BY <1>3 DEF ExecuteInstruction
<1>7. Keeps(fetched, ExecuteInstruction(i, Opcode, fetched))
  BY <1>4, <1>6, ThenKeeps, ItAdvanceKeeps, KeepsSelf
<1>8. Keeps(s, executed)
  BY <1>2, <1>5, <1>7, ThenKeeps
<1>9. Keeps(executed, IncrementPcIfNeeded(executed, i.length))
  BY DEF IncrementPcIfNeeded, Keeps, Shaped, Parts, SameVectors, Confined
<1>10. EmulateCycle(i, Opcode, s) = IF executed.raised = "none" THEN IncrementPcIfNeeded(executed, i.length)
                                    ELSE TakeException(executed)
  BY <1>1, <1>5 DEF EmulateCycle
<1> QED BY <1>8, <1>9, <1>10, KeepsBoth

\* The kernel's processor: its vectors are where it has put them.
Kernels(s) ==
  /\ Shaped(s)
  /\ s.vbar = VectorBase /\ s.mvbar = MonitorBase /\ s.sctlr.v = 0 /\ s.sctlr.ve = 0 /\ s.scr.irq = 0

\* User mode has been left, to a vector.
Entered(t) == t.pc \in Vectors /\ t.psr.m # "usr" /\ t.psr.i = 1 /\ t.spsr[t.psr.m].m = "usr"

\* What a step may do.
Steps(s, t) ==
  /\ Kernels(s) => Kernels(t)
  /\ Kernels(s) /\ s.psr.m = "usr" => Confined(s, t) \/ Entered(t)

\* To keep is one of the things a step may do.
LEMMA KeepsSteps == ASSUME NEW s, NEW t, Keeps(s, t) PROVE Steps(s, t)
  BY DEF Keeps, Steps, Kernels, SameVectors

\* A cycle that keeps and then takes an exception.
LEMMA StepsAfter ==
  ASSUME NEW s, NEW t, NEW u, Keeps(s, t), Steps(t, u)
  PROVE  Steps(s, u)
<1>1. ASSUME Kernels(s) PROVE Kernels(t) /\ Kernels(u)
  BY <1>1 DEF Keeps, Steps, Kernels, SameVectors
<1>2. ASSUME Kernels(s), s.psr.m = "usr" PROVE Confined(s, u) \/ Entered(u)
  <2>1. Confined(s, t) /\ t.psr.m = "usr" /\ Kernels(t)
    BY <1>1, <1>2 DEF Keeps, Confined, Kernels
  <2>2. Confined(t, u) \/ Entered(u)
    BY <2>1 DEF Steps
  <2> QED BY <2>1, <2>2 DEF Confined
<1> QED BY <1>1, <1>2 DEF Steps

\* The vectors are words.
LEMMA VectorAddress ==
  ASSUME NEW s, s.vbar = VectorBase, s.sctlr.v = 0, NEW offset \in {4, 8, 16, 24, 28}
  PROVE  Vector(s, offset) \in Vectors
<1>1. WordBits \in Nat
  BY ByteAssumption DEF WordBits
<1>2. Vector(s, offset) = (VectorBase + offset) % 2^WordBits
  BY KernelAssumption DEF Vector, ExcVectorBase, Add, ToUnsigned, VectorBase
<1>3. (VectorBase + offset) % 2^WordBits = VectorBase + offset
  BY <1>1, KernelAssumption DEF VectorBase, UserCode
<1> QED BY <1>2, <1>3 DEF Vectors, VectorMode

\* The return to the secure world, which precedes the entry from the monitor.
LEMMA LeaveMonitorSteps ==
  ASSUME NEW s
  PROVE  Kernels(s) => /\ Kernels(LeaveMonitor(s))
                       /\ s.psr.m = "usr" => LeaveMonitor(s) = s
  BY DEF LeaveMonitor, Kernels, Shaped, Parts

\* The entry of a mode at its vector.
LEMMA EnterModeSteps ==
  ASSUME NEW s, NEW mode \in Banked \ {"hyp"}, NEW lr, NEW masks, NEW target, NEW left,
         Kernels(s), Kernels(left), target \in Vectors
  PROVE  /\ Kernels(EnterMode(left, mode, s.psr, lr, masks, target))
         /\ s.psr.m = "usr" => Entered(EnterMode(left, mode, s.psr, lr, masks, target))
<1>1. PICK p : p = HandlerPsr(left, mode, left.sctlr.te, left.sctlr.ee)
  OBVIOUS
<1>2. PsrParts \subseteq DOMAIN p /\ p.m = mode
  BY <1>1 DEF HandlerPsr, Kernels, Shaped, PsrParts
<1>3. PICK q : q = [p EXCEPT !.i = 1, !.a = IF "a" \in masks THEN 1 ELSE @, !.f = IF "f" \in masks THEN 1 ELSE @]
  OBVIOUS
<1>4. PsrParts \subseteq DOMAIN q /\ q.m = mode /\ q.i = 1
  BY <1>2, <1>3 DEF PsrParts
<1>5. PICK t : t = EnterMode(left, mode, s.psr, lr, masks, target)
  OBVIOUS
<1>6. t = BranchTo([left EXCEPT !.psr = q, !.spsr[mode] = s.psr, !.R[<<14, mode>>] = lr], target)
  BY <1>1, <1>3, <1>5 DEF EnterMode
<1>7. Kernels(t)
  BY <1>4, <1>6 DEF BranchTo, Kernels, Shaped, Parts
<1>8. t.pc = target /\ t.psr = q /\ t.spsr[mode] = s.psr
  BY <1>6 DEF BranchTo, Kernels, Shaped, Parts
<1> QED BY <1>4, <1>5, <1>7, <1>8 DEF Entered, Banked

\* The entry of the monitor at its own vector.
LEMMA EnterMonitorSteps ==
  ASSUME NEW s, NEW lr, NEW offset \in {8, 28}, NEW left, Kernels(s), Kernels(left)
  PROVE  /\ Kernels(EnterMonitorMode(left, s.psr, lr, offset))
         /\ s.psr.m = "usr" => Entered(EnterMonitorMode(left, s.psr, lr, offset))
<1>1. PICK p : p = HandlerPsr(left, "mon", left.sctlr.te, left.sctlr.ee)
  OBVIOUS
<1>2. PsrParts \subseteq DOMAIN p /\ p.m = "mon"
  BY <1>1 DEF HandlerPsr, Kernels, Shaped, PsrParts
<1>3. PICK q : q = [p EXCEPT !.a = 1, !.f = 1, !.i = 1]
  OBVIOUS
<1>4. PsrParts \subseteq DOMAIN q /\ q.m = "mon" /\ q.i = 1
  BY <1>2, <1>3 DEF PsrParts
<1>5. PICK t : t = EnterMonitorMode(left, s.psr, lr, offset)
  OBVIOUS
<1>6. t = BranchTo([left EXCEPT !.psr = q, !.spsr["mon"] = s.psr, !.R[<<14, "mon">>] = lr], left.mvbar + offset)
  BY <1>1, <1>3, <1>5 DEF EnterMonitorMode
<1>7. Kernels(t)
  BY <1>4, <1>6 DEF BranchTo, Kernels, Shaped, Parts
<1>8. t.pc = MonitorBase + offset /\ t.psr = q /\ t.spsr["mon"] = s.psr
  BY <1>6 DEF BranchTo, Kernels, Shaped, Parts, Banked
<1>9. MonitorBase + offset \in Vectors
  BY DEF Vectors
<1> QED BY <1>4, <1>5, <1>7, <1>8, <1>9 DEF Entered

\* An exception is taken by one of five entries, or not at all.
LEMMA TakeExceptionSteps == ASSUME NEW s PROVE Steps(s, TakeException(s))
<1> SUFFICES ASSUME Kernels(s)
    PROVE  /\ Kernels(TakeException(s))
           /\ s.psr.m = "usr" => Confined(s, TakeException(s)) \/ Entered(TakeException(s))
  BY DEF Steps
<1>1. PICK t : t = [s EXCEPT !.raised = "none"]
  OBVIOUS
<1>2. Kernels(t) /\ t.psr = s.psr
  BY <1>1 DEF Kernels, Shaped, Parts
<1>3. \A u : ~TakenToHyp(u) /\ ~TrappedToHyp(u)
  BY KernelAssumption DEF TakenToHyp, TrappedToHyp
<1>4. \A u : Kernels(u) => Kernels(ItAdvance(u)) /\ ItAdvance(u).psr.m = u.psr.m
  BY DEF ItAdvance, Kernels, Shaped, Parts, PsrParts
<1>5. PICK u : u = ItAdvance(t)
  OBVIOUS
<1>6. Kernels(u) /\ u.psr.m = s.psr.m
  BY <1>2, <1>4, <1>5
<1>7. \A w \in {t, u} : Kernels(LeaveMonitor(w)) /\ \A offset \in {4, 8, 16} : Vector(w, offset) \in Vectors
  BY <1>2, <1>6, LeaveMonitorSteps, VectorAddress DEF Kernels
<1>8. CASE s.raised = "svc"
  <2>1. TakeException(s) = TakeSvcException(t)
    BY <1>1, <1>8 DEF TakeException
  <2>2. PICK lr : TakeSvcException(t) = EnterMode(LeaveMonitor(u), "svc", u.psr, lr, {}, Vector(u, 8))
    BY <1>3, <1>5 DEF TakeSvcException
  <2>3. Kernels(LeaveMonitor(u)) /\ Vector(u, 8) \in Vectors
    BY <1>7
  <2>4. /\ Kernels(TakeException(s))
        /\ u.psr.m = "usr" => Entered(TakeException(s))
    BY <1>6, <2>1, <2>2, <2>3, EnterModeSteps DEF Banked
  <2> QED BY <1>6, <2>4
<1>9. CASE s.raised = "smc"
  <2>1. TakeException(s) = TakeSmcException(t)
    BY <1>1, <1>9 DEF TakeException
  <2>2. PICK lr : TakeSmcException(t) = EnterMonitorMode(LeaveMonitor(u), u.psr, lr, 8)
    BY <1>5 DEF TakeSmcException
  <2> QED BY <1>6, <1>7, <2>1, <2>2, EnterMonitorSteps
<1>10. CASE s.raised = "dabt"
  <2>1. TakeException(s) = TakeDataAbortException(t, FALSE, t.dfsr.status = 1)
    BY <1>1, <1>10 DEF TakeException
  <2>2. PICK lr, masks : TakeDataAbortException(t, FALSE, t.dfsr.status = 1) =
                           EnterMode(LeaveMonitor(t), "abt", t.psr, lr, masks, Vector(t, 16))
    BY <1>3, KernelAssumption DEF TakeDataAbortException
  <2>3. Kernels(t) /\ Kernels(LeaveMonitor(t)) /\ Vector(t, 16) \in Vectors
    BY <1>2, <1>7
  <2>4. "abt" \in Banked \ {"hyp"}
    BY DEF Banked
  <2>5. /\ Kernels(EnterMode(LeaveMonitor(t), "abt", t.psr, lr, masks, Vector(t, 16)))
        /\ t.psr.m = "usr" => Entered(EnterMode(LeaveMonitor(t), "abt", t.psr, lr, masks, Vector(t, 16)))
    BY <2>3, <2>4, EnterModeSteps
  <2> QED BY <1>2, <2>1, <2>2, <2>5
<1>11. CASE s.raised = "undef"
  <2>1. TakeException(s) = TakeUndefInstrException(t)
    BY <1>1, <1>11 DEF TakeException
  <2>2. PICK lr : TakeUndefInstrException(t) = EnterMode(LeaveMonitor(t), "und", t.psr, lr, {}, Vector(t, 4))
    BY <1>3 DEF TakeUndefInstrException
  <2>3. Kernels(LeaveMonitor(t)) /\ Vector(t, 4) \in Vectors
    BY <1>7
  <2>4. /\ Kernels(TakeException(s))
        /\ t.psr.m = "usr" => Entered(TakeException(s))
    BY <1>2, <2>1, <2>2, <2>3, EnterModeSteps DEF Banked
  <2> QED BY <1>2, <2>4
<1>12. CASE s.raised \notin {"svc", "smc", "dabt", "undef"}
  <2>1. TakeException(s) = s
    BY <1>12 DEF TakeException
  <2> QED BY <2>1 DEF Confined
<1> QED BY <1>8, <1>9, <1>10, <1>11, <1>12

\* One cycle of any instruction, whatever its fields: it keeps the vectors, and in user
\* mode it stays confined or enters an exception, at its vector, with IRQs masked.
THEOREM CycleSteps ==
  ASSUME NEW i, NEW s, i.op \in Opcodes
  PROVE  Steps(s, EmulateCycle(i, Opcode, s))
<1>1. PICK t : /\ Keeps(s, t)
               /\ EmulateCycle(i, Opcode, s) = t \/ EmulateCycle(i, Opcode, s) = TakeException(t)
  BY ExecutedKeeps
<1>2. Steps(s, t)
  BY <1>1, KeepsSteps
<1>3. Steps(s, TakeException(t))
  BY <1>1, TakeExceptionSteps, StepsAfter
<1> QED BY <1>1, <1>2, <1>3

\* Hyp mode, which no processor without the virtualization extension enters, would
\* keep the vectors as well.
LEMMA EnterHypKernels ==
  ASSUME NEW s, NEW lr, NEW offset, Kernels(s)
  PROVE  Kernels(EnterHypMode(s, s.psr, lr, offset))
<1>1. PICK p : p = HandlerPsr(s, "hyp", s.hsctlr.te, s.hsctlr.ee)
  OBVIOUS
<1>2. PsrParts \subseteq DOMAIN p
  BY <1>1 DEF HandlerPsr, Kernels, Shaped, PsrParts
<1>3. PICK q : q = [p EXCEPT !.a = IF s.scr.ea = 0 THEN 1 ELSE @,
                             !.f = IF s.scr.fiq = 0 THEN 1 ELSE @,
                             !.i = IF s.scr.irq = 0 THEN 1 ELSE @]
  OBVIOUS
<1>4. PsrParts \subseteq DOMAIN q
  BY <1>2, <1>3 DEF PsrParts
<1>5. EnterHypMode(s, s.psr, lr, offset) =
        BranchTo([s EXCEPT !.psr = q, !.spsr["hyp"] = s.psr, !.elr_hyp = lr], s.hvbar + offset)
  BY <1>1, <1>3 DEF EnterHypMode
<1> QED BY <1>4, <1>5 DEF BranchTo, Kernels, Shaped, Parts

\* An interrupt is taken by one of three entries; from User mode, to its vector.
LEMMA InterruptSteps ==
  ASSUME NEW s
  PROVE  Steps(s, TakePhysicalIrqException(s, 0)) /\ Steps(s, TakePhysicalFiqException(s, 0))
<1> SUFFICES ASSUME Kernels(s)
    PROVE  /\ Kernels(TakePhysicalIrqException(s, 0)) /\ Kernels(TakePhysicalFiqException(s, 0))
           /\ s.psr.m = "usr" => Entered(TakePhysicalIrqException(s, 0)) /\ Entered(TakePhysicalFiqException(s, 0))
  BY DEF Steps
<1>1. Kernels(LeaveMonitor(s)) /\ Vector(s, 24) \in Vectors /\ Vector(s, 28) \in Vectors
  BY LeaveMonitorSteps, VectorAddress DEF Kernels
<1>2. s.sctlr.ve # 1 /\ s.scr.irq # 1
  BY DEF Kernels
<1>3. CASE s.psr.m = "hyp"
  <2>1. \E lr : TakePhysicalIrqException(s, 0) = EnterHypMode(s, s.psr, lr, 24)
    BY <1>2, <1>3 DEF TakePhysicalIrqException
  <2>2. \/ \E lr : TakePhysicalFiqException(s, 0) = EnterHypMode(s, s.psr, lr, 28)
        \/ \E lr : TakePhysicalFiqException(s, 0) = EnterMonitorMode(LeaveMonitor(s), s.psr, lr, 28)
    BY <1>3 DEF TakePhysicalFiqException
  <2> QED BY <1>1, <1>3, <2>1, <2>2, EnterHypKernels, EnterMonitorSteps
<1>4. CASE s.psr.m # "hyp"
  <2>1. \E lr, masks : TakePhysicalIrqException(s, 0) = EnterMode(LeaveMonitor(s), "irq", s.psr, lr, masks, Vector(s, 24))
    BY <1>2, <1>4, KernelAssumption DEF TakePhysicalIrqException, Choose
  <2>2. \/ \E lr, masks : TakePhysicalFiqException(s, 0) = EnterMode(LeaveMonitor(s), "fiq", s.psr, lr, masks, Vector(s, 28))
        \/ \E lr : TakePhysicalFiqException(s, 0) = EnterMonitorMode(LeaveMonitor(s), s.psr, lr, 28)
    BY <1>2, <1>4, KernelAssumption DEF TakePhysicalFiqException, Choose
  <2>3. /\ Kernels(TakePhysicalIrqException(s, 0))
        /\ s.psr.m = "usr" => Entered(TakePhysicalIrqException(s, 0))
    BY <1>1, <2>1, EnterModeSteps DEF Banked
  <2>4. /\ Kernels(TakePhysicalFiqException(s, 0))
        /\ s.psr.m = "usr" => Entered(TakePhysicalFiqException(s, 0))
    BY <1>1, <2>2, EnterModeSteps, EnterMonitorSteps DEF Banked
  <2> QED BY <2>3, <2>4
<1> QED BY <1>3, <1>4

-----------------------------------------------------------------------------
(* Whatever is executed is an instruction of the processor *)

\* An instruction whose opcode is op.
Coded(i, op) == "op" \in DOMAIN i /\ i.op = op

\* Setting the opcode sets it.
LEMMA BlankCoded ==
  \A op : Coded([Blank EXCEPT !.op = op], op) /\ Coded(Blank, "Nop")
  BY DEF Coded, Blank

\* The fields that are set after the opcode leave it alone.
LEMMA FieldsCoded ==
  ASSUME NEW i, NEW op, Coded(i, op)
  PROVE  \A v : /\ Coded([i EXCEPT !.d = v], op) /\ Coded([i EXCEPT !.n = v], op) /\ Coded([i EXCEPT !.m = v], op)
                /\ Coded([i EXCEPT !.t = v], op) /\ Coded([i EXCEPT !.t2 = v], op) /\ Coded([i EXCEPT !.imm = v], op)
                /\ Coded([i EXCEPT !.imm32 = v], op) /\ Coded([i EXCEPT !.length = v], op)
                /\ Coded([i EXCEPT !.cond = v], op) /\ Coded([i EXCEPT !.setflags = v], op)
                /\ Coded([i EXCEPT !.mode = v], op) /\ Coded([i EXCEPT !.wback = v], op)
                /\ Coded([i EXCEPT !.increment = v], op) /\ Coded([i EXCEPT !.index = v], op)
                /\ Coded([i EXCEPT !.registers = v], op) /\ Coded([i EXCEPT !.mask = v], op)
                /\ Coded([i EXCEPT !.firstcond = v], op) /\ Coded([i EXCEPT !.target = v], op)
                /\ Coded([i EXCEPT !.affect = v], op) /\ Coded([i EXCEPT !.enable = v], op)
                /\ Coded([i EXCEPT !.disable = v], op) /\ Coded([i EXCEPT !.change_mode = v], op)
  BY DEF Coded

\* So do the abbreviations of the programs.
LEMMA WithCoded ==
  ASSUME NEW i, NEW op, Coded(i, op)
  PROVE  \A v : Coded(With(i, v), op) /\ Coded(Flags(i), op) /\ Coded(When(i, v), op)
  BY DEF Coded, With, Flags, When

\* An instruction of three registers.
LEMMA DoCoded == \A op, d, n, m : Coded(Do(op, d, n, m), op)
<1> TAKE op, d, n, m
<1> QED BY BlankCoded DEF Do, Coded

\* A move.
LEMMA MoveCoded == \A d, v : Coded(Move(d, v), "MovImmediate")
  BY DoCoded, WithCoded DEF Move

\* A jump.
LEMMA JumpCoded == \A from, to, t : Coded(Jump(from, to, t), "B")
  BY BlankCoded, WithCoded DEF Jump

\* A list of registers.
LEMMA ListCoded == \A op, n, registers : Coded(List(op, n, registers), op)
<1> TAKE op, n, registers
<1> QED BY DoCoded DEF List, Coded

\* Programs of which every instruction has an opcode.
Executable(program) == Len(program) \in Nat /\ \A k \in 1..Len(program) : program[k].op \in Opcodes

\* The opcodes of the programs.
Used ==
  {"Nop", "B", "Bx", "BlBlxImmediate", "It", "Svc", "Smc", "Udf", "AddRegisterArm", "AddRegisterThumb", "AddImmediateArm",
   "SubImmediateArm", "AdcRegister", "SubRegister", "MovImmediate", "StrImmediateArm", "StrImmediateThumb",
   "LdrImmediateArm", "LdrImmediateThumb", "StrdImmediate", "LdrdImmediate", "Stm", "Stmdb", "LdmArm", "LdmThumb", "CpsArm",
   "MsrRegisterSystem", "Rfe",
   "SubsPcLrArm", "SrsArm", "LdmExceptionReturn", "LdmUserRegisters", "StmUserRegisters"}

\* They are opcodes of the processor.
LEMMA UsedOpcodes == Used \subseteq Opcodes
<1>1. \A op \in {"AddRegisterArm", "AddRegisterThumb", "AddImmediateArm", "SubImmediateArm", "AdcRegister", "SubRegister",
                 "MovImmediate"} : op \in Opcodes
  BY DEF Opcodes, DataProcessingOpcodes
<1>2. \A op \in {"StrImmediateArm", "StrImmediateThumb", "LdrImmediateArm", "LdrImmediateThumb", "StrdImmediate",
                 "LdrdImmediate", "Stm", "Stmdb", "LdmArm", "LdmThumb", "LdmUserRegisters", "StmUserRegisters"} : op \in Opcodes
  BY DEF Opcodes, LoadStoreOpcodes
<1>3. \A op \in {"Nop", "B", "Bx", "BlBlxImmediate", "It", "Svc", "Smc", "Udf", "CpsArm", "MsrRegisterSystem", "Rfe",
                 "SubsPcLrArm", "SrsArm", "LdmExceptionReturn"} : op \in Opcodes
  BY DEF Opcodes, SystemOpcodes
<1> QED BY <1>1, <1>2, <1>3 DEF Used

\* An instruction with one of these opcodes is one of the processor's.
LEMMA CodedUsed == ASSUME NEW i, NEW op \in Used, Coded(i, op) PROVE i.op \in Opcodes
  BY UsedOpcodes DEF Coded

\* Programs of one to eight instructions.
LEMMA TuplesExecutable ==
  \A a, b, c, d, e, f, g, h :
    /\ a.op \in Opcodes => Executable(<<a>>)
    /\ a.op \in Opcodes /\ b.op \in Opcodes /\ c.op \in Opcodes /\ d.op \in Opcodes =>
         /\ Executable(<<a, b, c, d>>)
         /\ e.op \in Opcodes =>
              /\ Executable(<<a, b, c, d, e>>)
              /\ f.op \in Opcodes =>
                   /\ Executable(<<a, b, c, d, e, f>>)
                   /\ g.op \in Opcodes =>
                        /\ Executable(<<a, b, c, d, e, f, g>>)
                        /\ h.op \in Opcodes => Executable(<<a, b, c, d, e, f, g, h>>)
    /\ a.op \in Opcodes /\ b.op \in Opcodes /\ c.op \in Opcodes => Executable(<<a, b, c>>)
  BY DEF Executable

\* A program of no instruction.
LEMMA EmptyExecutable == Executable(<<>>)
  BY DEF Executable

\* What the handlers are made of.
LEMMA HandlerItems ==
  /\ Blank.op \in Opcodes
  /\ \A k : SubsPcLr(k).op \in Opcodes /\ LowerLr(k).op \in Opcodes
  /\ \A mode : Srs(mode).op \in Opcodes /\ EnterSvc(mode).op \in Opcodes
  /\ Rfe13.op \in Opcodes /\ [Blank EXCEPT !.op = "Smc"].op \in Opcodes
  /\ \A registers : LdmReturn(registers).op \in Opcodes
  /\ \A ns : TryMonitor(ns).op \in Opcodes
  /\ UserList("StmUserRegisters").op \in Opcodes /\ UserList("LdmUserRegisters").op \in Opcodes /\ OtherThread.op \in Opcodes
<1>1. \A op \in Used : [Blank EXCEPT !.op = op].op \in Opcodes
  BY BlankCoded, CodedUsed
<1>2. Blank.op \in Opcodes /\ [Blank EXCEPT !.op = "Smc"].op \in Opcodes
  BY <1>1, BlankCoded, CodedUsed DEF Used
<1>3. \A k : SubsPcLr(k).op \in Opcodes
  <2> TAKE k
  <2>1. Coded(With(Blank, k), "Nop")
    BY BlankCoded, WithCoded
  <2>2. Coded(SubsPcLr(k), "SubsPcLrArm")
    BY <2>1 DEF SubsPcLr, Coded
  <2> QED BY <2>2, CodedUsed DEF Used
<1>4. \A k : LowerLr(k).op \in Opcodes
  BY DoCoded, WithCoded, CodedUsed DEF LowerLr, Used
<1>5. \A mode : Srs(mode).op \in Opcodes
  <2> TAKE mode
  <2>1. Coded(Srs(mode), "SrsArm")
    BY BlankCoded DEF Srs, Coded
  <2> QED BY <2>1, CodedUsed DEF Used
<1>6. \A mode : EnterSvc(mode).op \in Opcodes
  <2> TAKE mode
  <2>1. Coded(EnterSvc(mode), "CpsArm")
    BY BlankCoded DEF EnterSvc, Coded
  <2> QED BY <2>1, CodedUsed DEF Used
<1>7. Rfe13.op \in Opcodes
  <2>1. Coded(Rfe13, "Rfe")
    BY BlankCoded DEF Rfe13, Coded
  <2> QED BY <2>1, CodedUsed DEF Used
<1>8. \A registers : LdmReturn(registers).op \in Opcodes
  BY ListCoded, CodedUsed DEF LdmReturn, Used
<1>9. \A ns : TryMonitor(ns).op \in Opcodes
  <2> TAKE ns
  <2>1. Coded(TryMonitor(ns), "CpsArm") \/ Coded(TryMonitor(ns), "Nop")
    BY BlankCoded DEF TryMonitor, Coded
  <2> QED BY <2>1, CodedUsed DEF Used
<1>10. \A op \in Used : Coded(UserList(op), op)
  BY ListCoded DEF UserList, Coded
<1>11. Coded(OtherThread, "LdmUserRegisters")
  BY <1>10, FieldsCoded DEF OtherThread, Used
<1>12. UserList("StmUserRegisters").op \in Opcodes /\ UserList("LdmUserRegisters").op \in Opcodes /\ OtherThread.op \in Opcodes
  BY <1>10, <1>11, CodedUsed DEF Used
<1> QED BY <1>2, <1>3, <1>4, <1>5, <1>6, <1>7, <1>8, <1>9, <1>12

\* The handlers of every style.
LEMMA HandlersExecutable ==
  ASSUME NEW j, NEW mode, j.style \in HandlerStyles
  PROVE  Executable(Handler(j, mode))
<1>1. \A d, v, k : /\ Move(d, v).op \in Opcodes /\ Flags(Move(d, v)).op \in Opcodes
                   /\ With(Do("SubImmediateArm", d, v, 0), k).op \in Opcodes
                   /\ With(Do("AddImmediateArm", d, v, 0), k).op \in Opcodes
  BY MoveCoded, WithCoded, DoCoded, CodedUsed DEF Used
<1>2. \A n, registers : List("Stmdb", n, registers).op \in Opcodes /\ List("LdmArm", n, registers).op \in Opcodes
  BY ListCoded, CodedUsed DEF Used
<1>3. CASE j.style = "direct"
  BY <1>3, EmptyExecutable DEF Handler
<1>4. CASE j.style = "stack"
  <2>1. PICK a, b : /\ a.op \in Opcodes /\ b.op \in Opcodes
                    /\ Handler(j, mode) = <<LowerLr(LinkOffset(j, mode)), Srs(mode), a, b, Rfe13>>
    BY <1>1, <1>4, HandlerItems DEF Handler
  <2> QED BY <2>1, HandlerItems, TuplesExecutable
<1>5. CASE j.style = "list"
  BY <1>1, <1>2, <1>5, HandlerItems, TuplesExecutable DEF Handler
<1>6. CASE j.style = "nested"
  BY <1>1, <1>2, <1>6, HandlerItems, TuplesExecutable DEF Handler
<1>7. CASE j.style = "switch"
  BY <1>1, <1>2, <1>7, HandlerItems, TuplesExecutable DEF Handler
<1> QED BY <1>3, <1>4, <1>5, <1>6, <1>7 DEF HandlerStyles

\* The program that tries what is denied.
LEMMA AttemptsExecutable == Executable(Attempts)
<1>1. \A op \in Used : \A n, registers : Coded(List(op, n, registers), op) /\ Coded([Blank EXCEPT !.op = op], op)
  BY ListCoded, BlankCoded
<1>2. PICK a, b, c, d, e, f, g, h :
        /\ a = [Blank EXCEPT !.op = "CpsArm", !.affect = {"a", "i", "f"}, !.disable = TRUE, !.change_mode = TRUE, !.mode = "svc"]
        /\ b = [Blank EXCEPT !.op = "MsrRegisterSystem", !.n = 7, !.mask = {0}]
        /\ c = [Blank EXCEPT !.op = "Rfe", !.n = 4, !.wback = TRUE]
        /\ d = [Blank EXCEPT !.op = "SubsPcLrArm", !.n = 14]
        /\ e = [List("LdmExceptionReturn", 4, {5}) EXCEPT !.wback = FALSE]
        /\ f = [Blank EXCEPT !.op = "SrsArm", !.mode = "svc", !.wback = TRUE]
        /\ g = [List("LdmUserRegisters", 4, {13, 14}) EXCEPT !.wback = FALSE]
        /\ h = [Blank EXCEPT !.op = "Smc"]
  OBVIOUS
<1>3. Coded(a, "CpsArm") /\ Coded(b, "MsrRegisterSystem") /\ Coded(c, "Rfe") /\ Coded(d, "SubsPcLrArm")
  BY <1>2, BlankCoded DEF Coded
<1>4. Coded(e, "LdmExceptionReturn") /\ Coded(f, "SrsArm") /\ Coded(g, "LdmUserRegisters") /\ Coded(h, "Smc")
  BY <1>1, <1>2 DEF Coded, Used
<1>5. /\ a.op \in Opcodes /\ b.op \in Opcodes /\ c.op \in Opcodes /\ d.op \in Opcodes
      /\ e.op \in Opcodes /\ f.op \in Opcodes /\ g.op \in Opcodes /\ h.op \in Opcodes
  BY <1>3, <1>4, CodedUsed DEF Used
<1>6. Executable(<<a, b, c, d, e, f, g, h>>)
  BY <1>5, TuplesExecutable
<1> QED BY <1>2, <1>6 DEF Attempts

\* What the user's programs are made of.
LEMMA UserItems ==
  /\ \A op \in Used : \A d, n, m, v : /\ Do(op, d, n, m).op \in Opcodes /\ Flags(Do(op, d, n, m)).op \in Opcodes
                                      /\ Immediate(op, n, v).op \in Opcodes /\ List(op, n, v).op \in Opcodes
  /\ \A d, v : Move(d, v).op \in Opcodes /\ Flags(Move(d, v)).op \in Opcodes /\ When(Move(d, v), NoCond).op \in Opcodes
  /\ \A from, to, t : Jump(from, to, t).op \in Opcodes
  /\ Blank.op \in Opcodes
<1>1. \A op \in Used : \A d, n, m : Do(op, d, n, m).op \in Opcodes /\ Flags(Do(op, d, n, m)).op \in Opcodes
  BY DoCoded, WithCoded, CodedUsed
<1>2. \A op \in Used : \A n, v : Immediate(op, n, v).op \in Opcodes
  <2> TAKE op \in Used
  <2> TAKE n, v
  <2>1. Coded([Do(op, 5, n, 4) EXCEPT !.t = 5], op)
    BY DoCoded, FieldsCoded
  <2>2. Coded(Immediate(op, n, v), op)
    BY <2>1, WithCoded DEF Immediate
  <2> QED BY <2>2, CodedUsed
<1>3. \A op \in Used : \A n, v : List(op, n, v).op \in Opcodes
  BY ListCoded, CodedUsed
<1>4. \A d, v : Move(d, v).op \in Opcodes /\ Flags(Move(d, v)).op \in Opcodes /\ When(Move(d, v), NoCond).op \in Opcodes
  BY MoveCoded, WithCoded, CodedUsed DEF Used
<1>5. \A from, to, t : Jump(from, to, t).op \in Opcodes
  BY JumpCoded, CodedUsed DEF Used
<1> QED BY <1>1, <1>2, <1>3, <1>4, <1>5, HandlerItems

\* The programs of the user.
LEMMA UserExecutable ==
  ASSUME NEW name \in UserPrograms, NEW t
  PROVE  Executable(UserProgram(name, t))
<1> DEFINE short(op) == [Blank EXCEPT !.op = op, !.length = IF t = 1 THEN 2 ELSE 4]
           store == InSet(t, "StrImmediateArm", "StrImmediateThumb")
           load == InSet(t, "LdrImmediateArm", "LdrImmediateThumb")
           multiple == InSet(t, "LdmArm", "LdmThumb")
           function == UserCode + 20
<1>1. \A op \in Used : Coded(short(op), op) /\ short(op).op \in Opcodes /\ When(short(op), NoCond).op \in Opcodes
  <2> TAKE op \in Used
  <2>1. Coded(short(op), op)
    BY BlankCoded DEF Coded
  <2> HIDE DEF short
  <2> QED BY <2>1, WithCoded, CodedUsed
<1>2. store \in Used /\ load \in Used /\ multiple \in Used
  BY DEF InSet, Used
<1> HIDE DEF short, store, load, multiple, function
<1>3. CASE name = "flow"
  <2>1. Flags(Do(AddRegister(t), 1, 1, 1)).op \in Opcodes
    BY UserItems DEF AddRegister, InSet, Used
  <2>2. short("Svc").op \in Opcodes /\ Do("AdcRegister", 2, 2, 2).op \in Opcodes /\ Flags(Do("SubRegister", 3, 3, 1)).op \in Opcodes
    BY <1>1, UserItems DEF Used
  <2>3. UserProgram(name, t) =
          <<Flags(Do(AddRegister(t), 1, 1, 1)), short("Svc"), Do("AdcRegister", 2, 2, 2), Flags(Do("SubRegister", 3, 3, 1))>>
    BY <1>3 DEF UserProgram, short
  <2> QED BY <2>1, <2>2, <2>3, TuplesExecutable
<1>4. CASE name = "block"
  <2>1. Coded(Ite(0), "It")
    BY BlankCoded DEF Ite, Coded
  <2>2. [Ite(0) EXCEPT !.mask = 3].op \in Opcodes
    BY <2>1, FieldsCoded, CodedUsed DEF Used
  <2>3. Flags(Do("SubRegister", 6, 1, 1)).op \in Opcodes /\ When(short("Svc"), NoCond).op \in Opcodes
    BY <1>1, UserItems DEF Used
  <2>4. UserProgram(name, t) =
          <<Flags(Do("SubRegister", 6, 1, 1)), [Ite(0) EXCEPT !.mask = 3], When(short("Svc"), NoCond), When(Move(5, 1), NoCond),
            When(Move(5, 2), NoCond), Move(6, 3)>>
    BY <1>4 DEF UserProgram, short
  <2> QED BY <2>2, <2>3, <2>4, UserItems, TuplesExecutable
<1>5. CASE name = "undef"
  <2>1. UserProgram(name, t) = <<Flags(Move(5, 0)), short("Udf"), Move(6, 1)>>
    BY <1>5 DEF UserProgram, short
  <2>2. short("Udf").op \in Opcodes
    BY <1>1 DEF Used
  <2> QED BY <2>1, <2>2, UserItems, TuplesExecutable
<1>6. CASE name = "reach"
  <2>1. PICK a, b, c, d, e, f, g, h :
          /\ a = [Immediate(load, 1, 4) EXCEPT !.wback = TRUE]
          /\ b = [Immediate(store, 2, 4) EXCEPT !.t = 3, !.wback = TRUE, !.index = FALSE]
          /\ c = List("Stm", 1, {2, 3})
          /\ d = [Immediate("StrdImmediate", 1, 0) EXCEPT !.t = 4, !.t2 = 5]
          /\ e = [Immediate("LdrdImmediate", 1, 0) EXCEPT !.t = 6, !.t2 = 7]
          /\ f = [List(multiple, 1, {1, 2}) EXCEPT !.wback = FALSE]
          /\ g = [Immediate(store, 1, 4) EXCEPT !.t = 3, !.wback = TRUE, !.index = FALSE]
          /\ h = Immediate(store, 1, 28)
    OBVIOUS
  <2>2. \A op \in Used : \A n, v : Coded(Immediate(op, n, v), op)
    <3> TAKE op \in Used
    <3> TAKE n, v
    <3>1. Coded([Do(op, 5, n, 4) EXCEPT !.t = 5], op)
      BY DoCoded, FieldsCoded
    <3> QED BY <3>1, WithCoded DEF Immediate
  <2>3. /\ Coded(a, load) /\ Coded(b, store) /\ Coded(d, "StrdImmediate") /\ Coded(e, "LdrdImmediate")
        /\ Coded(g, store) /\ Coded(h, store)
    BY <1>2, <2>1, <2>2 DEF Coded, Used
  <2>4. Coded(c, "Stm") /\ Coded(f, multiple)
    <3>1. Coded(List(multiple, 1, {1, 2}), multiple)
      BY ListCoded
    <3> QED BY <2>1, <3>1, ListCoded, FieldsCoded
  <2>5. /\ a.op \in Opcodes /\ b.op \in Opcodes /\ c.op \in Opcodes /\ d.op \in Opcodes
        /\ e.op \in Opcodes /\ f.op \in Opcodes /\ g.op \in Opcodes /\ h.op \in Opcodes
    BY <1>2, <2>3, <2>4, CodedUsed DEF Used
  <2>6. UserProgram(name, t) = <<a, b, c, d, e, f, g, h>>
    BY <1>6, <2>1 DEF UserProgram, store, load, multiple
  <2> QED BY <2>5, <2>6, TuplesExecutable
<1>7. CASE name = "attempt"
  BY <1>7, AttemptsExecutable DEF UserProgram
<1>8. CASE name = "jump"
  <2>1. UserProgram(name, t) = <<Do("Bx", 0, 0, 3)>>
    BY <1>8 DEF UserProgram
  <2>2. Do("Bx", 0, 0, 3).op \in Opcodes
    BY UserItems DEF Used
  <2> QED BY <2>1, <2>2, TuplesExecutable
<1>9. CASE name = "call"
  <2>1. PICK call : call = With([Blank EXCEPT !.op = "BlBlxImmediate", !.target = 1 - t], function - Align(Ahead(UserCode, t), 4))
    OBVIOUS
  <2>2. Coded([Blank EXCEPT !.op = "BlBlxImmediate", !.target = 1 - t], "BlBlxImmediate")
    BY BlankCoded DEF Coded
  <2>3. call.op \in Opcodes
    BY <2>1, <2>2, WithCoded, CodedUsed DEF Used
  <2>4. Do("Bx", 0, 0, 14).op \in Opcodes
    BY UserItems DEF Used
  <2>5. UserProgram(name, t) =
          <<call, Move(6, 3), Jump(UserCode + 8, UserCode + 28, t), Blank, Blank, Move(5, 2), Do("Bx", 0, 0, 14)>>
    BY <1>9, <2>1 DEF UserProgram, function
  <2> QED BY <2>3, <2>4, <2>5, UserItems, TuplesExecutable
<1> QED BY <1>3, <1>4, <1>5, <1>6, <1>7, <1>8, <1>9 DEF UserPrograms

\* What is fetched from a program is an instruction of it, or none.
LEMMA WithinExecutable ==
  ASSUME NEW program, Executable(program), NEW origin \in Nat, NEW address
  PROVE  Within(program, origin, address).op \in Opcodes
<1>1. Blank.op \in Opcodes
  BY HandlerItems
<1>2. Coded([Blank EXCEPT !.length = 2], "Nop")
  BY BlankCoded DEF Coded
<1>3. [Blank EXCEPT !.length = 2].op \in Opcodes
  BY <1>2, CodedUsed DEF Used
<1>4. ASSUME address \in origin..(origin + 4 * Len(program) - 1)
      PROVE  (address - origin) \div 4 + 1 \in 1..Len(program)
  BY <1>4 DEF Executable
<1> QED BY <1>1, <1>3, <1>4 DEF Within, At, Executable

\* The opcode of whatever is executed is one of the processor's.
LEMMA InstructionExecutable ==
  ASSUME NEW j, j.name \in Programs, j.style \in Styles, NEW address
  PROVE  InstructionAt(j, address).op \in Opcodes
<1>1. j.name \in UserPrograms /\ j.style \in HandlerStyles
  BY KernelAssumption
<1>2. \A mode : Executable(Handler(j, mode))
  BY <1>1, HandlersExecutable
<1>3. Executable(UserProgram(j.name, j.t))
  BY <1>1, UserExecutable
<1>4. Within(UserProgram(j.name, j.t), UserCode, address).op \in Opcodes
  BY <1>3, WithinExecutable DEF UserCode
<1>5. ASSUME address \in KernelCode..(KernelCode + 199)
      PROVE  LET mode == CHOOSE m \in DOMAIN HandlerAt : address \in HandlerAt[m]..(HandlerAt[m] + 39)
             IN  Within(Handler(j, mode), HandlerAt[mode], address).op \in Opcodes
  <2>1. \E m \in DOMAIN HandlerAt : address \in HandlerAt[m]..(HandlerAt[m] + 39)
    BY <1>5 DEF HandlerAt, KernelCode
  <2>2. \A m \in DOMAIN HandlerAt : HandlerAt[m] \in Nat
    BY DEF HandlerAt, KernelCode
  <2>3. PICK mode : mode = CHOOSE m \in DOMAIN HandlerAt : address \in HandlerAt[m]..(HandlerAt[m] + 39)
    OBVIOUS
  <2>4. mode \in DOMAIN HandlerAt
    BY <2>1, <2>3
  <2>5. Within(Handler(j, mode), HandlerAt[mode], address).op \in Opcodes
    BY <1>2, <2>2, <2>4, WithinExecutable
  <2> QED BY <2>3, <2>5
<1>6. \A k, from, to, t : SubsPcLr(k).op \in Opcodes /\ Jump(from, to, t).op \in Opcodes
  BY HandlerItems, UserItems
<1> HIDE DEF HandlerAt
<1> QED BY <1>4, <1>5, <1>6 DEF InstructionAt

-----------------------------------------------------------------------------
(* The bench and the kernel *)

\* The bench of programs that must agree is never the kernel's, and in the kernel's the
\* processor keeps its shape and its vectors whatever it executes.
BenchInv ==
  /\ "family" \in DOMAIN job
  /\ InKernel => /\ Kernels(cpu)
                 /\ job.name \in Programs /\ job.style \in Styles
                 /\ ~Chosen

\* The kernel starts with its vectors in place.
LEMMA BootedKernels == ASSUME NEW j PROVE Kernels(Booted(j))
<1>1. PsrParts \subseteq DOMAIN ZeroPsr
  BY DEF PsrParts, ZeroPsr
<1>2. PsrParts \subseteq DOMAIN Booted(j).psr
  BY <1>1 DEF Booted
<1>3. DOMAIN Booted(j).R = RName
  BY DEF Booted, NoRegisters
<1>4. DOMAIN Booted(j).spsr = Banked
  BY DEF Booted, NoSpsr
<1>5. /\ Parts \subseteq DOMAIN Booted(j)
      /\ Booted(j).vbar = VectorBase /\ Booted(j).mvbar = MonitorBase
      /\ Booted(j).sctlr.v = 0 /\ Booted(j).sctlr.ve = 0 /\ Booted(j).scr.irq = 0
  BY DEF Booted, Parts
<1> QED BY <1>2, <1>3, <1>4, <1>5 DEF Kernels, Shaped

\* Initially.
LEMMA BenchInit == Init => BenchInv
<1>1. ASSUME RoutineInit PROVE BenchInv
  <2>1. PICK t \in Bit, family \in Families : job = [t |-> t, family |-> family]
    BY <1>1 DEF RoutineInit
  <2> QED BY <2>1 DEF BenchInv, InKernel, Families
<1>2. ASSUME KernelInit PROVE BenchInv
  <2>1. PICK name \in Programs, style \in Styles, t \in Bit, memory \in Memories, ns \in Bit, skip \in BOOLEAN :
          job = [family |-> "kernel", name |-> name, style |-> style, t |-> t, memory |-> memory, ns |-> ns, skip |-> skip]
    BY <1>2 DEF KernelInit
  <2>2. Kernels(cpu)
    BY <1>2, BootedKernels DEF KernelInit
  <2> QED BY <2>1, <2>2 DEF BenchInv, Chosen
<1> QED BY <1>1, <1>2 DEF Init

\* A job of the other bench: whatever its details, it has another family.
Foreign(j) == "family" \in DOMAIN j /\ j.family # "kernel"

\* The family of a job is the one it is given.
LEMMA JobFamily ==
  \A family, name, t, operands : /\ "family" \in DOMAIN Job(family, name, t, operands)
                                 /\ Job(family, name, t, operands).family = family
  BY DEF Job

\* A choice of such a job makes the bench's job one.
LEMMA AssignForeign == \A j : Foreign(j) /\ Assign(j) => Foreign(job)'
  BY DEF Assign, Foreign

\* Every step of that bench stays in it.
LEMMA RoutineForeign ==
  ASSUME BenchInv, RoutineNext, ~InKernel
  PROVE  Foreign(job)'
<1>1. CASE Open("wide") /\ Wide(job.t)
  BY <1>1, JobFamily DEF Wide, Assign, Foreign
<1>2. CASE Open("compare") /\ Compare(job.t)
  <2>1. \A t, name, operands, v, w, x :
          /\ Foreign([Job("compare", name, t, operands) EXCEPT !.cond = v, !.way = w])
          /\ Foreign([Job("compare", "Cbz", t, operands) EXCEPT !.cond = v])
    BY DEF Job, Foreign
  <2> QED BY <1>2, <2>1, AssignForeign, Zenon DEF Compare
<1>3. CASE Open("lanes") /\ LaneJob(job.t)
  BY <1>3, JobFamily DEF LaneJob, Assign, Foreign
<1>4. CASE Open("fused") /\ Fused(job.t)
  <2>1. \A t, name, operands, v, w, x :
          /\ Foreign([Job("fused", name, t, operands) EXCEPT !.k = v, !.type = w, !.carry = x])
          /\ Foreign([Job("fused", name, t, operands) EXCEPT !.type = v, !.carry = w, !.way = x])
    BY DEF Job, Foreign
  <2> QED BY <1>4, <2>1, AssignForeign, Zenon DEF Fused
<1>5. CASE Open("immediate") /\ ImmediateJob(job.t)
  BY <1>5, JobFamily DEF ImmediateJob, Assign, Foreign
<1>6. CASE Open("product") /\ ProductJob(job.t)
  BY <1>6, JobFamily DEF ProductJob, Assign, Foreign
<1>7. CASE Open("division") /\ DivisionJob(job.t)
  BY <1>7, JobFamily DEF DivisionJob, Assign, Foreign
<1>8. CASE Open("bits") /\ BitJob(job.t)
  <2>1. \A t, name, operands, v, w, x :
          /\ Foreign([Job("bits", name, t, operands) EXCEPT !.k = v])
          /\ Foreign([Job("bits", name, t, operands) EXCEPT !.k = v, !.width = w])
          /\ Foreign(Job("bits", name, t, operands))
    BY DEF Job, Foreign
  <2> QED BY <1>8, <2>1, AssignForeign, Zenon DEF BitJob
<1>9. CASE Open("saturate") /\ SaturationJob(job.t)
  <2>1. \A t, name, operands, v, w, x :
          /\ Foreign([Job("saturate", name, t, operands) EXCEPT !.k = v, !.width = w])
          /\ Foreign(Job("saturate", name, t, operands))
    BY DEF Job, Foreign
  <2> QED BY <1>9, <2>1, AssignForeign, Zenon DEF SaturationJob
<1>10. CASE Open("transfer") /\ TransferJob(job.t)
  <2>1. \A t, name, operands, v, w, x :
          /\ Foreign([Job("transfer", "none", t, operands) EXCEPT !.pair = v, !.way = w, !.e = x])
    BY DEF Job, Foreign
  <2> QED BY <1>10, <2>1, AssignForeign, Zenon DEF TransferJob
<1>11. CASE Open("list") /\ ListJob(job.t)
  BY <1>11, JobFamily DEF ListJob, Assign, Foreign
<1>12. CASE Open("call") /\ CallJob(job.t)
  <2>1. \A t, name, operands, v, w, x :
          /\ Foreign([Job("call", name, t, operands) EXCEPT !.k = v, !.way = w])
          /\ Foreign([Job("table", "TbbTbh", t, operands) EXCEPT !.k = v])
    BY DEF Job, Foreign
  <2> QED BY <1>12, <2>1, AssignForeign, Zenon DEF CallJob
<1>13. CASE Open("skip") /\ SkipJob(job.t)
  BY <1>13, JobFamily DEF SkipJob, Assign, Foreign
<1>14. CASE Run \/ (Halfway /\ Again) \/ End
  <2>1. Foreign(job)
    BY DEF BenchInv, Foreign, InKernel
  <2>2. job' = job \/ \E v : job' = [job EXCEPT !.first = v]
    BY <1>14 DEF Run, Again, End, routineVars
  <2> QED BY <2>1, <2>2 DEF Foreign
<1> HIDE DEF BenchInv
<1> QED BY <1>1, <1>2, <1>3, <1>4, <1>5, <1>6, <1>7, <1>8, <1>9, <1>10, <1>11, <1>12, <1>13, <1>14 DEF RoutineNext

\* It takes no step of the kernel's.
LEMMA RoutineNotInKernel ==
  ASSUME BenchInv, RoutineNext, InKernel
  PROVE  FALSE
<1>1. ~Chosen /\ job.family = "kernel"
  BY DEF BenchInv, InKernel
<1>2. ~Run /\ ~Halfway /\ ~End
  BY <1>1 DEF Run, Halfway, Finished, End, Ended
<1>3. \A family : Open(family) => family = "kernel"
  BY <1>1 DEF Open
<1> QED BY <1>2, <1>3 DEF RoutineNext

\* What the processor does, in a cycle or to take an interrupt.
LEMMA KernelSteps ==
  ASSUME BenchInv, KernelNext
  PROVE  InKernel /\ UNCHANGED job /\ Steps(cpu, cpu')
<1>1. CASE Step
  <2>1. InKernel /\ UNCHANGED job /\ cpu' = EmulateCycle(Current, Opcode, cpu)
    BY <1>1 DEF Step
  <2>2. Current.op \in Opcodes
    BY <2>1, InstructionExecutable DEF BenchInv, Current
  <2> QED BY <2>1, <2>2, CycleSteps
<1>2. CASE TakeIrq
  BY <1>2, InterruptSteps DEF TakeIrq, Interrupt
<1>3. CASE TakeFiq
  BY <1>3, InterruptSteps DEF TakeFiq, Interrupt
<1> QED BY <1>1, <1>2, <1>3 DEF KernelNext

\* Every step.
LEMMA BenchStep == BenchInv /\ [Next]_kernelVars => BenchInv'
<1> SUFFICES ASSUME BenchInv, [Next]_kernelVars
    PROVE  BenchInv'
  OBVIOUS
<1>1. CASE RoutineNext
  <2>1. Foreign(job)'
    BY <1>1, RoutineForeign, RoutineNotInKernel
  <2> QED BY <2>1 DEF Foreign, BenchInv, InKernel
<1>2. CASE KernelNext
  <2>1. InKernel /\ UNCHANGED job /\ Steps(cpu, cpu')
    BY <1>2, KernelSteps
  <2>2. Kernels(cpu)'
    BY <2>1 DEF BenchInv, Steps
  <2> QED BY <2>1, <2>2 DEF BenchInv, InKernel, Chosen
<1>3. CASE UNCHANGED kernelVars
  BY <1>3 DEF kernelVars, BenchInv, InKernel, Chosen
<1> QED BY <1>1, <1>2, <1>3 DEF Next

\* Whatever a program in user mode executes, whichever interrupts come in between, it
\* leaves user mode only by an exception, to its vector, with IRQs masked and its own
\* mode in the SPSR; until it does, the masks, the registers of the other modes and
\* every SPSR are as they were.
THEOREM UserStaysConfined == Spec => UserConfined
<1>1. Init => BenchInv
  BY BenchInit
<1>2. BenchInv /\ [Next]_kernelVars => BenchInv'
  BY BenchStep
<1>3. BenchInv /\ [Next]_kernelVars =>
        [InKernel /\ cpu.psr.m = "usr" =>
           IF cpu'.psr.m = "usr"
           THEN /\ \A bit \in {"a", "i", "f"} : cpu'.psr[bit] = cpu.psr[bit]
                /\ \A name \in RName : name[2] # "usr" => cpu'.R[name] = cpu.R[name]
                /\ cpu'.spsr = cpu.spsr
           ELSE cpu'.pc \in Vectors /\ cpu'.psr.i = 1 /\ cpu'.spsr[cpu'.psr.m].m = "usr"]_kernelVars
  <2> SUFFICES ASSUME BenchInv, Next, InKernel, cpu.psr.m = "usr"
      PROVE  Confined(cpu, cpu') \/ Entered(cpu')
    BY DEF Confined, Entered
  <2>1. KernelNext
    BY RoutineNotInKernel DEF Next
  <2>2. Steps(cpu, cpu') /\ Kernels(cpu)
    BY <2>1, KernelSteps DEF BenchInv
  <2> QED BY <2>2 DEF Steps
<1> QED BY <1>1, <1>2, <1>3, PTL DEF Spec, UserConfined
=============================================================================
