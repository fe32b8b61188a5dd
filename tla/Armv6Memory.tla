---------------------------- MODULE Armv6Memory ----------------------------
(***************************************************************************)
(* Memory accesses of arm_v6.py: alignment, byte order, protection by the  *)
(* PMSA regions or the VMSA short-descriptor tables, aborts, and the       *)
(* little-endian hub behind them, on the shipped configuration             *)
(* (ARMv6, no virtualization extension).                                   *)
(*                                                                         *)
(* Memory is words; a word may hold a status register record.  Translation *)
(* tables are functions to descriptors, and of the memory attributes only  *)
(* those that something reads are kept: the type and shareability.         *)
(***************************************************************************)
EXTENDS Armv6Registers, SequencesExt

CONSTANTS
  MemWords,        \* BOUND: words of RAM, from address 0: an even number
  MinSubregions,   \* log2 of the least region that has subregions: 8
  Size             \* log2 of a small and large page, section and supersection: 12, 16, 20, 24

ASSUME MemoryAssumption ==
  /\ MemWords \in Nat \ {0} /\ MemWords % 2 = 0 /\ 4 * MemWords <= 2^WordBits
  /\ MinSubregions \in Nat
  /\ Size \in [{"small", "large", "section", "supersection"} -> Nat]

-----------------------------------------------------------------------------
(* An instruction is abandoned as soon as it raises an exception *)

Raise(s, exception) == [s EXCEPT !.raised = exception]
Then(s, t) == IF s.raised = "none" THEN t ELSE s

\* What an access returns, and its use once it has not aborted.
Access(s, value) == [state |-> s, value |-> value]
Loaded(access, t) == IF access.state.raised = "none" THEN t ELSE access.state

-----------------------------------------------------------------------------
(* MemoryControllerHub: what nobody claims reads as zero and ignores writes *)

Claimed(pa) == pa \in 0..(4 * MemWords - 1)

MemRead(s, pa, size) ==
  LET low == (pa % 4) * ByteBits
      word == s.mem[pa \div 4]
  IN  CASE ~Claimed(pa) -> 0
        [] Claimed(pa) /\ size = 8 -> Chain(s.mem[pa \div 4 + 1], word, WordBits)
        [] Claimed(pa) /\ size = 4 -> word
        [] Claimed(pa) /\ size < 4 -> Substring(word, low + size * ByteBits - 1, low)

MemWrite(s, pa, size, value) ==
  LET low == (pa % 4) * ByteBits
  IN  CASE ~Claimed(pa) -> s
        [] Claimed(pa) /\ size = 8 ->
             [s EXCEPT !.mem[pa \div 4] = LowerChunk(value, WordBits), !.mem[pa \div 4 + 1] = value \div 2^WordBits]
        [] Claimed(pa) /\ size = 4 -> [s EXCEPT !.mem[pa \div 4] = value]
        [] Claimed(pa) /\ size < 4 ->
             [s EXCEPT !.mem[pa \div 4] = SetSubstring(@, low + size * ByteBits - 1, low, value)]

-----------------------------------------------------------------------------
(* Aborts *)

EncodePmsafsr(dtype) == [ALIGNMENT |-> 1, PERMISSION |-> 13, BACKGROUND |-> 0][dtype]

EncodeSdfsr(dtype, level) ==
  CASE dtype = "ACCESS_FLAG" -> IF level = 1 THEN 3 ELSE 6
    [] dtype = "ALIGNMENT"   -> 1
    [] dtype = "PERMISSION"  -> 13 + 2 * BitAt(level, 1)
    [] dtype = "DOMAIN"      -> 9 + 2 * BitAt(level, 1)
    [] dtype = "TRANSLATION" -> 5 + 2 * BitAt(level, 1)

\* DFSR holds a domain only where the kind of fault makes it known.
DomainValid(dtype, level) ==
  dtype \in {"DOMAIN", "PERMISSION"} \/ (level = 2 /\ dtype \in {"TRANSLATION", "ACCESS_FLAG"})

\* data_abort: DFAR and DFSR, then DataAbortException.
DataAbort(s, va, write, fault) ==
  LET dfsr == IF s.memarch = "VMSA"
              THEN [write |-> write, status |-> EncodeSdfsr(fault.dtype, fault.level),
                    domain |-> IF DomainValid(fault.dtype, fault.level) THEN fault.domain ELSE 0]
              ELSE [write |-> write, status |-> EncodePmsafsr(fault.dtype), domain |-> 0]
  IN  Raise([s EXCEPT !.dfar = va, !.dfsr = dfsr], "dabt")

Fault(dtype, level, domain) == [dtype |-> dtype, level |-> level, domain |-> domain]
AlignmentFault == Fault("ALIGNMENT", 0, 0)
NoFault == Fault("none", 0, 0)

-----------------------------------------------------------------------------
(* Attributes and permissions *)

Attributes(type, shareable) == [type |-> type, shareable |-> shareable]

\* default_memory_attributes looks at bits 39:37 of a 32-bit address, which are 0.
DefaultMemoryAttributes(s) == Attributes("NORMAL", s.sctlr.c = 0)

DefaultTexDecode(texcb, sbit) ==
  CASE texcb = 0 -> Attributes("STRONGLY_ORDERED", TRUE)
    [] texcb \in {1, 8} -> Attributes("DEVICE", TRUE)
    [] texcb \in {2, 3, 4, 7} \cup 16..31 -> Attributes("NORMAL", sbit = 1)
    [] OTHER -> Attributes("NORMAL", FALSE)

\* PRRR gives each of the eight TEX[0]CB values a type and each S bit a meaning.
RemappedTexDecode(s, texcb, sbit) ==
  LET region == texcb % 8
      type == s.prrr.tr[region]
  IN  CASE region = 6 \/ type = 3 -> Attributes("NORMAL", FALSE)
        [] type = 0 -> Attributes("STRONGLY_ORDERED", TRUE)
        [] type = 1 -> Attributes("DEVICE", TRUE)
        [] type = 2 -> Attributes("NORMAL", s.prrr.ns[sbit] = 1)

\* MUTANT: what only privileged modes may access is kept from user loads alone.
Forbidden_UserWrites(s, ap, write, privileged) ==
  LET bits == IF s.sctlr.afe = 1 THEN 1 + 2 * (ap \div 2) ELSE ap
  IN  \/ bits = 0
      \/ bits = 1 /\ ~privileged /\ ~write
      \/ bits = 2 /\ ~privileged /\ write
      \/ bits = 5 /\ (~privileged \/ write)
      \/ bits = 6 /\ write
      \/ bits = 7 /\ write /\ s.memarch = "VMSA"

\* check_permission.  (AP 4 is unpredictable and allowed; so is 7 under PMSA.)
Forbidden(s, ap, write, privileged) ==
  LET bits == IF s.sctlr.afe = 1 THEN 1 + 2 * (ap \div 2) ELSE ap
  IN  \/ bits = 0
      \/ bits = 1 /\ ~privileged
      \/ bits = 2 /\ ~privileged /\ write
      \/ bits = 5 /\ (~privileged \/ write)
      \/ bits = 6 /\ write
      \/ bits = 7 /\ write /\ s.memarch = "VMSA"

-----------------------------------------------------------------------------
(* translate_address_p: the regions of the MPU *)

InRegion(region, va) ==
  /\ region.en = 1
  /\ \/ region.lsbit = WordBits
     \/ Substring(va, WordBits - 1, region.lsbit) = region.base \div 2^region.lsbit
  /\ region.lsbit >= MinSubregions =>
       Substring(va, region.lsbit - 1, region.lsbit - 3) \notin region.disabled

\* The region of the highest number decides; 0 when there is none.
Deciding(s, va) ==
  LET hits == {r \in DOMAIN s.regions : InRegion(s.regions[r], va)}
  IN  IF hits = {} THEN 0 ELSE Max(hits)

RegionFault(s, r, write, privileged) ==
  CASE s.sctlr.m = 0 -> NoFault
    [] s.sctlr.m = 1 /\ r = 0 /\ (s.sctlr.br = 0 \/ ~privileged) -> Fault("BACKGROUND", 0, 0)
    [] s.sctlr.m = 1 /\ Forbidden(s, IF r = 0 THEN 3 ELSE s.regions[r].ap, write, privileged) ->
         Fault("PERMISSION", 0, 0)
    [] OTHER -> NoFault
FaultP(s, va, write, privileged) == RegionFault(s, Deciding(s, va), write, privileged)

AttributesP(s, va) ==
  LET r == Deciding(s, va)
  IN  IF s.sctlr.m = 0 \/ r = 0 THEN DefaultMemoryAttributes(s)
      ELSE DefaultTexDecode(s.regions[r].texcb, s.regions[r].s)

-----------------------------------------------------------------------------
(* translate_address_v: the walk of the short-descriptor tables *)

\* fcse_translate: a process ID in the top seven bits of a small address.
FcseTranslate(s, va) ==
  IF va < 2^(WordBits - s.fcse.bits) THEN Chain(s.fcse.pid, va, WordBits - s.fcse.bits) ELSE va

\* TTBCR.N splits the addresses between two tables; both are disabled by PD1.
UsesTable0(s, mva) == s.ttbcr.n = 0 \/ mva \div 2^(WordBits - s.ttbcr.n) = 0
Disabled(s) == HaveSecurityExt /\ s.ttbcr.pd1 = 1

FirstLevel(s, mva) ==
  (IF UsesTable0(s, mva) THEN s.ttbr0 ELSE s.ttbr1)[mva \div 2^Size["section"]]

\* The descriptor that maps mva, with the level it is found at.
SecondLevel(l1, mva) ==
  IF l1.kind = "table"
  THEN [l1.table[Substring(mva, Size["section"] - 1, Size["small"])] EXCEPT !.domain = l1.domain] ELSE l1
Descriptor(s, mva) == SecondLevel(FirstLevel(s, mva), mva)

Level(d) == IF d.kind \in {"section", "supersection"} THEN 1 ELSE 2

\* translation_table_walk_sd, which has found d after a first-level descriptor of
\* some kind.  (The hardware access flag, SCTLR.HA, is a stub.)
WalkFault(s, first, d) ==
  CASE Disabled(s) -> Fault("TRANSLATION", 1, 0)
    [] ~Disabled(s) /\ first = "fault" -> Fault("TRANSLATION", 1, 0)
    [] ~Disabled(s) /\ first = "table" /\ d.kind = "fault" -> Fault("TRANSLATION", 2, d.domain)
    [] ~Disabled(s) /\ d.kind # "fault" /\ s.sctlr.afe = 1 /\ d.ap % 2 = 0 ->
         Fault("ACCESS_FLAG", Level(d), IF Level(d) = 1 THEN 0 ELSE d.domain)
    [] OTHER -> NoFault

\* check_domain: 1 is a client, whose permissions are checked; 3 is a manager.
DomainFault(s, d, write, privileged) ==
  CASE s.dacr[d.domain] = 0 -> Fault("DOMAIN", Level(d), d.domain)
    [] s.dacr[d.domain] = 1 /\ Forbidden(s, d.ap, write, privileged) -> Fault("PERMISSION", Level(d), d.domain)
    [] OTHER -> NoFault

AttributesV(s, d) ==
  IF s.sctlr.m = 0 THEN Attributes("STRONGLY_ORDERED", TRUE)
  ELSE RemappedTexDecode(s, d.texcb, d.s)

\* The first thing in the way of an access through d: the walk, the alignment, the
\* domain.
DescriptorFault(s, d, walk, write, privileged, aligned) ==
  CASE s.sctlr.m = 1 /\ walk # NoFault -> walk
    [] ~aligned /\ AttributesV(s, d).type # "NORMAL" -> AlignmentFault
    [] s.sctlr.m = 1 -> DomainFault(s, d, write, privileged)
    [] OTHER -> NoFault
FaultV(s, mva, write, privileged, aligned) ==
  LET d == Descriptor(s, mva)
  IN  DescriptorFault(s, d, WalkFault(s, FirstLevel(s, mva).kind, d), write, privileged, aligned)

\* The output address keeps the offset into the page or section.
PhysicalAddress(s, mva) ==
  LET d == Descriptor(s, mva)
  IN  IF s.sctlr.m = 0 THEN mva ELSE Chain(d.base, LowerChunk(mva, Size[d.kind]), Size[d.kind])

-----------------------------------------------------------------------------
(* mem_a and mem_u *)

\* translate_address: what stands in the way of an access, and where it goes.
TranslationFault(s, va, write, privileged, aligned) ==
  IF s.memarch = "VMSA" THEN FaultV(s, FcseTranslate(s, va), write, privileged, aligned)
  ELSE FaultP(s, va, write, privileged)
FaultAddress(s, va) == IF s.memarch = "VMSA" THEN FcseTranslate(s, va) ELSE va
Translate(s, va) == IF s.memarch = "VMSA" THEN PhysicalAddress(s, FcseTranslate(s, va)) ELSE va
Shareable(s, va) ==
  (IF s.memarch = "VMSA" THEN AttributesV(s, Descriptor(s, FcseTranslate(s, va))) ELSE AttributesP(s, va)).shareable

\* mem_a's alignment check: misaligned accesses fault, or ignore the low bits.
Strict(s) == s.sctlr.a = 1 \/ s.sctlr.u = 1
MisalignedA(s, va, size) == va # Align(va, size) /\ Strict(s)

InOrder(s, value, size) == IF s.psr.e = 1 THEN BigEndianReverse(value, size) ELSE value

FaultA(s, address, size, privileged, write, aligned) ==
  IF MisalignedA(s, address, size) THEN AlignmentFault
  ELSE TranslationFault(s, Align(address, size), write, privileged, aligned)

AbortA(s, address, size, write, fault) ==
  DataAbort(s, FaultAddress(s, IF fault = AlignmentFault THEN address ELSE Align(address, size)), write, fault)

\* The access, once it is known what stands in its way.
SetUnless(fault, s, address, size, value) ==
  IF fault # NoFault THEN AbortA(s, address, size, TRUE, fault)
  ELSE MemWrite(s, Translate(s, Align(address, size)), size, InOrder(s, value, size))
GetUnless(fault, s, address, size) ==
  IF fault # NoFault THEN Access(AbortA(s, address, size, FALSE, fault), 0)
  ELSE Access(s, InOrder(s, MemRead(s, Translate(s, Align(address, size)), size), size))

MemAWithPrivSet(s, address, size, privileged, aligned, value) ==
  SetUnless(FaultA(s, address, size, privileged, TRUE, aligned), s, address, size, value)
MemAWithPrivGet(s, address, size, privileged, aligned) ==
  GetUnless(FaultA(s, address, size, privileged, FALSE, aligned), s, address, size)

MemASet(s, address, size, value) ==
  MemAWithPrivSet(s, address, size, CurrentModeIsNotUser(s), TRUE, value)
MemAGet(s, address, size) == MemAWithPrivGet(s, address, size, CurrentModeIsNotUser(s), TRUE)

\* mem_u: without SCTLR.U and A the low bits are ignored, with A they fault, with
\* U a misaligned access is made byte by byte.
Effective(s, address, size) == IF Strict(s) THEN address ELSE Align(address, size)
UnalignedFault(s) == s.psr.m # "hyp" /\ s.sctlr.a = 1

\* Byte by byte; after an abort there are no more.
PutOne(s, n, address, privileged, value) ==
  Then(s, MemAWithPrivSet(s, address + n, 1, privileged, FALSE, ByteOf(value, n)))
PutBytes(s, address, size, privileged, value) ==
  LET put[k \in 0..size] == IF k = 0 THEN s ELSE PutOne(put[k - 1], k - 1, address, privileged, value)
  IN  put[size]

Placed(byte, value, n) == Access(byte.state, value + byte.value * 2^(ByteBits * n))
GetOne(a, n, address, privileged) ==
  IF a.state.raised # "none" THEN a
  ELSE Placed(MemAWithPrivGet(a.state, address + n, 1, privileged, FALSE), a.value, n)
GetBytes(s, address, size, privileged) ==
  LET got[k \in 0..size] == IF k = 0 THEN Access(s, 0) ELSE GetOne(got[k - 1], k - 1, address, privileged)
  IN  got[size]
Reassembled(bytes, s, size) == Access(bytes.state, InOrder(s, bytes.value, size))

\* MUTANT: a misaligned store does not look at the byte order.
MemUWithPrivSet_Native(s, given, size, privileged, value) ==
  IF Effective(s, given, size) = Align(given, size)
  THEN MemAWithPrivSet(s, Effective(s, given, size), size, privileged, TRUE, value)
  ELSE IF UnalignedFault(s) THEN AbortA(s, given, size, TRUE, AlignmentFault)
  ELSE PutBytes(s, given, size, privileged, value)

MemUWithPrivSet(s, given, size, privileged, value) ==
  IF Effective(s, given, size) = Align(given, size)
  THEN MemAWithPrivSet(s, Effective(s, given, size), size, privileged, TRUE, value)
  ELSE IF UnalignedFault(s) THEN AbortA(s, given, size, TRUE, AlignmentFault)
  ELSE PutBytes(s, given, size, privileged, InOrder(s, value, size))

MemUWithPrivGet(s, given, size, privileged) ==
  IF Effective(s, given, size) = Align(given, size)
  THEN MemAWithPrivGet(s, Effective(s, given, size), size, privileged, TRUE)
  ELSE IF UnalignedFault(s) THEN Access(AbortA(s, given, size, FALSE, AlignmentFault), 0)
  ELSE Reassembled(GetBytes(s, given, size, privileged), s, size)

MemUUnprivGet(s, address, size) == MemUWithPrivGet(s, address, size, FALSE)
MemUUnprivSet(s, address, size, value) == MemUWithPrivSet(s, address, size, FALSE, value)
MemUGet(s, address, size) == MemUWithPrivGet(s, address, size, CurrentModeIsNotUser(s))
MemUSet(s, address, size, value) == MemUWithPrivSet(s, address, size, CurrentModeIsNotUser(s), value)

\* exclusive_monitors_pass: the monitors are stubs that never pass, but the address
\* is checked, and an abort is one of a store.
ExclusiveMonitorsPass(s, address, size) ==
  LET Checked(fault) ==
        IF fault # NoFault THEN Access(DataAbort(s, FaultAddress(s, address), TRUE, fault), FALSE)
        ELSE Access(s, FALSE)
  IN  Checked(IF address # Align(address, size) THEN AlignmentFault
              ELSE TranslationFault(s, address, TRUE, CurrentModeIsNotUser(s), TRUE))

SetExclusiveMonitors(s, address, size) ==
  LET Checked(fault) == IF fault # NoFault THEN DataAbort(s, FaultAddress(s, address), FALSE, fault) ELSE s
  IN  Checked(TranslationFault(s, address, FALSE, CurrentModeIsNotUser(s), TRUE))
=============================================================================
