----------------------------- MODULE A64Memory -----------------------------
(***************************************************************************)
(* How an A64 instruction reaches memory: the walk of the translation      *)
(* tables of both stages and what it caches (mmu.py), then the store       *)
(* buffer and the byte order of the level.                                 *)
(*                                                                         *)
(* Memory is a function from the address of a doubleword to its value; an  *)
(* address not in it has no memory behind it.  A fault is left in s.raised *)
(* and ends what the instruction does.  Of the memory models, the one that *)
(* buffers stores in order: MemorySystem has the others.                   *)
(*                                                                         *)
(* Tables are words of the physical memory s.mem.  A word of the model is  *)
(* narrower than the code's, so the fields of descriptors and of TCR lie   *)
(* closer together:                                                        *)
(*   descriptor: valid 0, table or page 1, memory type 2, access flag 3    *)
(*     (10), AP 5:4 (7:6), out PhysicalBits-1:PageBits, UXN, PXN above it  *)
(*     (54, 53); in a table AP is APTable (62:61), in a block of stage 2   *)
(*     it is S2AP.                                                         *)
(*   TCR: T0SZ 3:0, EPD0 4, TG0 6:5, T1SZ 10:7, EPD1 11, TG1 13:12,        *)
(*     TBI0 14, TBI1 15.  VTCR: T0SZ 3:0, SL0 7:6, TG0 15:14.              *)
(***************************************************************************)
EXTENDS A64Registers, TLC

CONSTANTS
  HalfBit,        \* 55: the bit that chooses between TTBR0 and TTBR1
  PhysicalBits,   \* 48: bits of a physical address
  PageBits,       \* 12: the smallest granule, and the page the TLB is keyed by
  EntryBits,      \* 3: a descriptor takes 2^EntryBits addresses
  Capacity,       \* stores the buffer holds before it drains itself: 16 in the code
  Latency         \* instructions a store waits, and between two retirements: 8

Under(a, n) == a % (2^n)
Above(a, n) == a - (a % (2^n))
At(d, n) == BitAt(d, n) = 1

-----------------------------------------------------------------------------
(* Faults and configuration *)

NoFault == [kind |-> "none", level |-> 0, address |-> 0, stage2 |-> FALSE, ipa |-> 0]
Faulted(kind, level, address, stage2) ==
  [kind |-> kind, level |-> level, address |-> address, stage2 |-> stage2, ipa |-> 0]
\* The status of ESR: the kind above two bits of the level.
FaultKind == [size |-> 0, translation |-> 1, access |-> 2, permission |-> 3]
Status(fault) == FaultKind[fault.kind] * 4 + (fault.level % 4)

\* The memory a walk reads is the physical one, past the store buffer.
ReadWord(s, address) == IF address \in DOMAIN s.mem THEN s.mem[address] ELSE 0

\* 0: a reserved size.  The two halves encode the three sizes differently.
Tg0Granule(tg) == CASE tg = 0 -> PageBits [] tg = 1 -> PageBits + 2 [] tg = 2 -> PageBits + 1 [] tg = 3 -> 0
Tg1Granule(tg) == CASE tg = 0 -> 0 [] tg = 1 -> PageBits + 1 [] tg = 2 -> PageBits [] tg = 3 -> PageBits + 2

Tcr(s) == RegimeRegister(s, "tcr", Regime(s))
\* Only EL1&0 has two halves.
Half(s, address) == IF Regime(s) = 1 THEN BitAt(address, HalfBit) ELSE 0
Control(tcr, half) ==
  IF half = 1
  THEN [tsz |-> Substring(tcr, 10, 7), granule |-> Tg1Granule(Substring(tcr, 13, 12)), disabled |-> At(tcr, 11)]
  ELSE [tsz |-> Substring(tcr, 3, 0), granule |-> Tg0Granule(Substring(tcr, 6, 5)), disabled |-> At(tcr, 4)]

\* The range of TxSZ: an address space no larger than the physical one, and no smaller
\* than two of the largest pages.
MinTsz == XBits - PhysicalBits
MaxTsz == XBits - PageBits - 3

FirstBlockLevel(granule) == IF granule = PageBits THEN 1 ELSE 2
Stride(granule) == granule - EntryBits
LowBit(granule, level) == granule + Stride(granule) * (3 - level)
FirstLevel(size, granule) == 4 - (1 + (size - granule - 1) \div Stride(granule))
FirstBits(size, granule, first) == size - LowBit(granule, first)

\* Where in its table the descriptor of a level is; the first table may be short.
EntryOffset(address, granule, level, bits) == Under(address \div 2^LowBit(granule, level), bits) * 2^EntryBits

-----------------------------------------------------------------------------
(* Stage 1 *)

Out(d, low) == Above(Under(d, PhysicalBits), low)
Uxn(d) == At(d, PhysicalBits)
Pxn(d) == At(d, PhysicalBits + 1)

Begun(base) ==
  [done |-> FALSE, fault |-> NoFault, base |-> base, no_el0 |-> FALSE, el0 |-> FALSE, ro |-> FALSE,
   uxn |-> FALSE, pxn |-> FALSE, type |-> 0, level |-> 0, pa |-> 0]
Stopped(w, kind, level, address, stage2) ==
  [w EXCEPT !.done = TRUE, !.fault = Faulted(kind, level, address, stage2)]

\* One descriptor: nothing there, a table whose restrictions add up on the way down,
\* or the block or page that ends the walk.
Descend(w, d, address, granule, level) ==
  IF ~At(d, 0) \/ (~At(d, 1) /\ (level < FirstBlockLevel(granule) \/ level = 3))
  THEN Stopped(w, "translation", level, address, FALSE)
  ELSE IF At(d, 1) /\ level < 3
  THEN [w EXCEPT !.base = Out(d, granule), !.no_el0 = @ \/ At(d, 5), !.ro = @ \/ At(d, 4),
                 !.uxn = @ \/ Uxn(d), !.pxn = @ \/ Pxn(d)]
  ELSE IF ~At(d, 3) THEN Stopped(w, "access", level, address, FALSE)
  ELSE [w EXCEPT !.done = TRUE, !.level = level, !.type = BitAt(d, 2),
                 !.el0 = At(d, 4) /\ ~w.no_el0, !.ro = @ \/ At(d, 5), !.uxn = @ \/ Uxn(d), !.pxn = @ \/ Pxn(d),
                 !.pa = Out(d, LowBit(granule, level)) + Under(address, LowBit(granule, level))]

Deeper(s, w, address, granule, level, bits) ==
  IF w.done THEN w
  ELSE Descend(w, ReadWord(s, w.base + EntryOffset(address, granule, level, bits)), address, granule, level)
WalkFrom(s, base, address, granule, first, bits) ==
  LET walked[level \in (first - 1)..3] ==
        IF level < first THEN Begun(base)
        ELSE Deeper(s, walked[level - 1], address, granule, level, IF level = first THEN bits ELSE Stride(granule))
  IN  walked[3]

\* The address lies in its half: above the size it is all zeros or all ones.
InHalf(address, half, size) == address \div 2^size = (IF half = 1 THEN 2^(XBits - size) - 1 ELSE 0)

WalkSized(s, base, address, granule, size, first) ==
  WalkFrom(s, Above(Under(base, PhysicalBits), FirstBits(size, granule, first) + EntryBits),
           address, granule, first, FirstBits(size, granule, first))

WalkControlled(s, base, address, half, control) ==
  IF control.granule = 0 \/ control.disabled \/ control.tsz \notin MinTsz..MaxTsz
     \/ ~InHalf(address, half, XBits - control.tsz)
  THEN Stopped(Begun(0), "translation", 0, address, FALSE)
  ELSE WalkSized(s, base, address, control.granule, XBits - control.tsz,
                 FirstLevel(XBits - control.tsz, control.granule))

Ttbr(s, half) == RegimeRegister(s, IF half = 1 THEN "ttbr1" ELSE "ttbr0", Regime(s))
Walk(s, address) ==
  WalkControlled(s, Ttbr(s, Half(s, address)), address, Half(s, address), Control(Tcr(s), Half(s, address)))

\* EL0 needs access even to fetch; WXN (bit 19 of the code's SCTLR) is that of EL1 in
\* every regime.
Denied(s, entry, write, fetch) ==
  \/ s.psr.el = 0 /\ ~entry.el0
  \/ write /\ entry.ro
  \/ fetch /\ (IF s.psr.el = 0 THEN entry.uxn ELSE entry.pxn)
  \/ fetch /\ At(Sys(s, "sctlr", 1), 2) /\ ~entry.ro

-----------------------------------------------------------------------------
(* Stage 2: the hypervisor's tables *)

Permitted2(d, write, fetch) ==
  /\ fetch => ~Uxn(d)
  /\ IF write THEN At(d, 5) ELSE At(d, 4)

\* MUTANT: what the hypervisor made read-only is written to.
Descend2_Writable(w, d, ipa, granule, level, write, fetch) ==
  IF ~At(d, 0) \/ (~At(d, 1) /\ level = 3) THEN Stopped(w, "translation", level, ipa, TRUE)
  ELSE IF At(d, 1) /\ level < 3 THEN [w EXCEPT !.base = Out(d, granule)]
  ELSE IF ~At(d, 3) THEN Stopped(w, "access", level, ipa, TRUE)
  ELSE IF ~Permitted2(d, FALSE, fetch) THEN Stopped(w, "permission", level, ipa, TRUE)
  ELSE [w EXCEPT !.done = TRUE, !.level = level, !.type = BitAt(d, 2),
                 !.pa = Out(d, LowBit(granule, level)) + Under(ipa, LowBit(granule, level))]

Descend2(w, d, ipa, granule, level, write, fetch) ==
  IF ~At(d, 0) \/ (~At(d, 1) /\ level = 3) THEN Stopped(w, "translation", level, ipa, TRUE)
  ELSE IF At(d, 1) /\ level < 3 THEN [w EXCEPT !.base = Out(d, granule)]
  ELSE IF ~At(d, 3) THEN Stopped(w, "access", level, ipa, TRUE)
  ELSE IF ~Permitted2(d, write, fetch) THEN Stopped(w, "permission", level, ipa, TRUE)
  ELSE [w EXCEPT !.done = TRUE, !.level = level, !.type = BitAt(d, 2),
                 !.pa = Out(d, LowBit(granule, level)) + Under(ipa, LowBit(granule, level))]

Deeper2(s, w, ipa, granule, level, bits, write, fetch) ==
  IF w.done THEN w
  ELSE Descend2(w, ReadWord(s, w.base + EntryOffset(ipa, granule, level, bits)), ipa, granule, level, write, fetch)
Walk2From(s, ipa, granule, first, bits, write, fetch) ==
  LET walked[level \in (first - 1)..3] ==
        IF level < first THEN Begun(Above(Under(Sys(s, "vttbr", 2), PhysicalBits), PageBits))
        ELSE Deeper2(s, walked[level - 1], ipa, granule, level, IF level = first THEN bits ELSE Stride(granule), write, fetch)
  IN  walked[3]

\* VTCR names the level to start at.  What it may not say is reported as of stage 1.
Stage2Walk(s, ipa, granule, size, sl0, write, fetch) ==
  IF granule = 0 THEN Stopped(Begun(0), "translation", 0, ipa, FALSE)
  ELSE IF ipa \div 2^size # 0 THEN Stopped(Begun(0), "translation", 0, ipa, TRUE)
  ELSE IF sl0 = 3 THEN Stopped(Begun(0), "translation", 0, ipa, FALSE)
  ELSE Walk2From(s, ipa, granule, 2 - sl0, FirstBits(size, granule, 2 - sl0), write, fetch)
TranslateStage2(s, ipa, write, fetch) ==
  LET vtcr == Sys(s, "vtcr", 2)
  IN  Stage2Walk(s, ipa, Tg0Granule(Substring(vtcr, 15, 14)), XBits - Substring(vtcr, 3, 0),
                 Substring(vtcr, 7, 6), write, fetch)

-----------------------------------------------------------------------------
(* The TLB *)

\* The top byte may be a tag; then copies of the half bit replace it.
Untagged(s, address) ==
  IF At(Tcr(s), 14 + BitAt(address, HalfBit))
  THEN Under(address, HalfBit + 1) + BitAt(address, HalfBit) * (2^XBits - 2^(HalfBit + 1))
  ELSE address

\* A translation belongs to a regime and a security state.
TlbKey(s, address) ==
  [regime |-> Regime(s), secure |-> Secure(s), page |-> address \div 2^PageBits]

\* Cached by page, whatever the size of the block.
TlbEntry(w) == [page |-> Above(w.pa, PageBits), el0 |-> w.el0, ro |-> w.ro, uxn |-> w.uxn, pxn |-> w.pxn,
                type |-> w.type, level |-> w.level]
Flush(s) == [s EXCEPT !.tlb = <<>>]

\* MAIR says of each memory type whether it is Normal.
IsDevice(s, entry) == BitAt(RegimeRegister(s, "mair", Regime(s)), entry.type) = 0

\* The core with what it has cached, the fault if there is one, where the access goes
\* and whether there is a device.
Outcome(s, fault, pa, device) == [core |-> s, fault |-> fault, pa |-> pa, device |-> device]

\* The guest's address is reported, and the intermediate one beside it.
Second(s, address, entry, w) ==
  IF w.fault # NoFault
  THEN Outcome(s, [w.fault EXCEPT !.address = address, !.ipa = w.fault.address], 0, FALSE)
  ELSE Outcome(s, NoFault, w.pa, IsDevice(s, entry) \/ w.type = 0)

Checked(s, address, entry, write, fetch) ==
  IF Denied(s, entry, write, fetch) THEN Outcome(s, Faulted("permission", entry.level, address, FALSE), 0, FALSE)
  ELSE IF ~Stage2Enabled(s) THEN Outcome(s, NoFault, entry.page + Under(address, PageBits), IsDevice(s, entry))
  ELSE Second(s, address, entry, TranslateStage2(s, entry.page + Under(address, PageBits), write, fetch))

\* What is found is cached before its permissions are looked at.  stale remembers that a
\* cached translation was used which the tables no longer give.
Looked(s, key, entry) ==
  IF key \in DOMAIN s.tlb THEN [s EXCEPT !.stale = @ \/ s.tlb[key] # entry] ELSE [s EXCEPT !.tlb = (key :> entry) @@ @]
TranslateUntagged(s, key, address, w, write, fetch) ==
  IF key \notin DOMAIN s.tlb /\ w.fault # NoFault THEN Outcome(s, w.fault, 0, FALSE)
  ELSE Checked(Looked(s, key, TlbEntry(w)), address, IF key \in DOMAIN s.tlb THEN s.tlb[key] ELSE TlbEntry(w), write, fetch)

Translate(s, address, write, fetch) ==
  LET place == Untagged(s, address)
  IN  TranslateUntagged(s, TlbKey(s, place), place, Walk(s, place), write, fetch)

-----------------------------------------------------------------------------
(* Memory as the core reaches it.                                          *)

Exception(type) ==
  [type |-> type, stage2 |-> FALSE, write |-> FALSE, address |-> 0, status |-> 0, immediate |-> 0]
Nothing == Exception("none")
Fine(s) == s.raised = Nothing
Raise(s, e) == [s EXCEPT !.raised = e]

-----------------------------------------------------------------------------
(* Translation as the core uses it *)

\* FAR of the level that will look for it, and the intermediate address for EL2.
RecordFaultAddress(s, fault) ==
  IF fault.stage2
  THEN [s EXCEPT !.sys[<<"far", 2>>] = fault.address, !.sys[<<"hpfar", 2>>] = fault.ipa \div 2^PageBits]
  ELSE [s EXCEPT !.sys[<<"far", Regime(s)>>] = fault.address]

Abort(fault, status, write, fetch) ==
  [Exception(IF fetch THEN "instruction abort" ELSE "data abort") EXCEPT
     !.write = write /\ ~fetch, !.stage2 = fault.stage2, !.address = fault.address, !.status = status]

\* Where an access goes and whether a device is there.
Reached(s, pa, device) == [core |-> s, pa |-> pa, device |-> device]

Aborting(t, write, fetch) ==
  IF t.fault = NoFault THEN Reached(t.core, t.pa, t.device)
  ELSE Reached(Raise(RecordFaultAddress(t.core, t.fault), Abort(t.fault, Status(t.fault), write, fetch)), 0, FALSE)

\* With the MMU off an address is physical, and a board may abort where nothing is.
ExternalAbort == 16
Physical(s, pa, write, fetch) ==
  IF s.faults /\ Above(pa, EntryBits) \notin DOMAIN s.mem
  THEN Reached(Raise(s, Abort(Faulted("none", 0, pa, FALSE), ExternalAbort, write, fetch)), 0, FALSE)
  ELSE Reached(s, pa, FALSE)

TranslateAddress(s, address, write, fetch) ==
  IF MmuEnabled(s) THEN Aborting(Translate(s, address, write, fetch), write, fetch)
  ELSE Physical(s, Under(address, PhysicalBits), write, fetch)

-----------------------------------------------------------------------------
(* Bytes *)

DoubleWord == 8
ByteOf(mem, a) ==
  IF Above(a, EntryBits) \in DOMAIN mem
  THEN Substring(mem[Above(a, EntryBits)], (a % DoubleWord) * ByteBits + ByteBits - 1, (a % DoubleWord) * ByteBits)
  ELSE 0
ReadBytes(mem, a, size) ==
  LET bytes[n \in 0..size] == IF n = 0 THEN 0 ELSE bytes[n - 1] + ByteOf(mem, a + n - 1) * 2^((n - 1) * ByteBits)
  IN  IF a % DoubleWord = 0 /\ size = DoubleWord THEN (IF a \in DOMAIN mem THEN mem[a] ELSE 0) ELSE bytes[size]

WithByte(mem, a, byte) ==
  IF Above(a, EntryBits) \notin DOMAIN mem THEN mem
  ELSE [mem EXCEPT ![Above(a, EntryBits)] =
          SetSubstring(@, (a % DoubleWord) * ByteBits + ByteBits - 1, (a % DoubleWord) * ByteBits, byte)]
WriteBytes(mem, a, size, value) ==
  LET written[n \in 0..size] ==
        IF n = 0 THEN mem
        ELSE WithByte(written[n - 1], a + n - 1, Substring(value, n * ByteBits - 1, (n - 1) * ByteBits))
  IN  IF a \in DOMAIN mem /\ size = DoubleWord THEN [mem EXCEPT ![a] = value] ELSE written[size]

\* EE orders the data of a kernel, E0E that of an application (bits 25 and 24).
BigEndian(s) == At(Sys(s, "sctlr", 1), IF s.psr.el = 0 THEN 4 ELSE 5)
InOrder(s, value, size) == IF BigEndian(s) THEN BigEndianReverse(value, size) ELSE value

-----------------------------------------------------------------------------
(* The store buffer: translated when a store issues, and again when it leaves *)

\* A store that reaches another place than it was translated to has strayed.
CommitStore(s, entry, pa) ==
  [s EXCEPT !.mem = WriteBytes(@, pa, entry.size, entry.value), !.strayed = @ \/ pa # entry.pa]
Committed(t, entry) == IF Fine(t.core) THEN CommitStore(t.core, entry, t.pa) ELSE [t.core EXCEPT !.strayed = TRUE]
WriteOut(s, entry) == Committed(TranslateAddress(s, entry.address, TRUE, FALSE), entry)

WriteNext(s, entry) == IF Fine(s) THEN WriteOut(s, entry) ELSE s
\* The buffer is empty before the first store is written: a fault loses the others.
DrainStoreBuffer(s) ==
  LET written[n \in 0..Len(s.buffer)] ==
        IF n = 0 THEN [s EXCEPT !.buffer = <<>>]
        ELSE WriteNext(written[n - 1], s.buffer[n])
  IN  written[Len(s.buffer)]

\* Ages stop counting at Latency, which is all they are compared with.
Older(age) == LesserOf(age + 1, Latency)
Aged(s) ==
  [s EXCEPT !.idle = Older(@), !.buffer = [n \in DOMAIN @ |-> [@[n] EXCEPT !.age = Older(@)]]]
Due(s) == s.buffer # <<>> /\ Head(s.buffer).age >= Latency /\ s.idle >= Latency

\* Nobody catches what is raised here: the program ends.
RetirePendingStores(s) ==
  IF ~Due(s) THEN s
  ELSE LET t == WriteOut([s EXCEPT !.buffer = Tail(@)], Head(s.buffer))
       IN  IF Fine(t) THEN [t EXCEPT !.idle = 0] ELSE [t EXCEPT !.crashed = TRUE]

\* Later stores win, byte by byte.
Covering(buffer, a) == {n \in DOMAIN buffer : a \in buffer[n].address..(buffer[n].address + buffer[n].size - 1)}
Latest(places) == CHOOSE n \in places : \A other \in places : other <= n
Forwarded(buffer, a, value, k) ==
  IF Covering(buffer, a + k) = {} THEN Substring(value, k * ByteBits + ByteBits - 1, k * ByteBits)
  ELSE LET entry == buffer[Latest(Covering(buffer, a + k))]
           at == a + k - entry.address
       IN  Substring(entry.value, at * ByteBits + ByteBits - 1, at * ByteBits)
StoreForwarding(buffer, a, value, size) ==
  LET bytes[n \in 0..size] ==
        IF n = 0 THEN 0 ELSE bytes[n - 1] + Forwarded(buffer, a, value, n - 1) * 2^((n - 1) * ByteBits)
  IN  IF buffer = <<>> THEN value ELSE bytes[size]

-----------------------------------------------------------------------------
(* Mem *)

Misaligned(s, a, size) == AlignmentCheck(s) /\ a % size # 0
\* Always in FAR_EL1.
AlignmentFault(s, a, write) ==
  Raise([s EXCEPT !.sys[<<"far", 1>>] = a], [Exception("data abort") EXCEPT !.address = a, !.write = write])

Got(s, value) == [core |-> s, value |-> value]
Fetched(t, a, size) ==
  IF ~Fine(t.core) THEN Got(t.core, 0)
  ELSE Got(t.core, InOrder(t.core, StoreForwarding(t.core.buffer, a, ReadBytes(t.core.mem, t.pa, size), size), size))
MemGet(s, a, size, aligned) ==
  IF aligned /\ Misaligned(s, a, size) THEN Got(AlignmentFault(s, a, FALSE), 0)
  ELSE Fetched(TranslateAddress(s, a, FALSE, FALSE), a, size)

\* Over capacity, the buffer drains with what was just put into it.
Buffered(s, entry) ==
  LET t == [s EXCEPT !.buffer = Append(@, entry)] IN IF Len(t.buffer) <= Capacity THEN t ELSE DrainStoreBuffer(t)
Stored(t, a, size, value) ==
  LET entry == [age |-> 0, address |-> a, size |-> size, pa |-> t.pa,
                value |-> LowerChunk(InOrder(t.core, value, size), size * ByteBits)]
  IN  IF ~Fine(t.core) THEN t.core
      ELSE IF t.core.buffering /\ ~t.device THEN Buffered(t.core, entry)
      ELSE CommitStore(t.core, entry, t.pa)
MemSet(s, a, size, value, aligned) ==
  IF aligned /\ Misaligned(s, a, size) THEN AlignmentFault(s, a, TRUE)
  ELSE Stored(TranslateAddress(s, a, TRUE, FALSE), a, size, value)

\* An address wraps where registers do.
Wrap(address) == LowerChunk(address, XBits)
StackBytes == 16
CheckSpAlignment(s, n) == n = ZR /\ StackAlignmentCheck(s) /\ GetSp(s, XBits) % StackBytes # 0
Base(s, n) == GetRegOrSp(s, n, XBits)
=============================================================================
