------------------------------ MODULE A64Kernel ------------------------------
(***************************************************************************)
(* The bench for the exception levels: an application under a small        *)
(* kernel, which may itself be a guest of a hypervisor or have firmware    *)
(* below it.  Interrupts come whenever they are not masked.  The programs  *)
(* are written in the encodings the core decodes.  A TLBI follows where a  *)
(* table is changed; whether a DSB comes before an ERET is a parameter.    *)
(***************************************************************************)
EXTENDS A64Levels

CONSTANT Fenced   \* TRUE: the levels below the application put a DSB before ERET

VARIABLES
  job,    \* who runs on whom
  core,
  left    \* interrupts still to come

kvars == <<job, core, left>>

-----------------------------------------------------------------------------
(* Encodings *)

Immediate(op0, d) == [group |-> 8, half |-> "immediate", op0 |-> op0, sf |-> 1, d |-> d]
Movz(d, imm) == Immediate(5, d) @@ [opc |-> 2, hw |-> 0, imm |-> imm]
AddImm(d, n, imm) == Immediate(2, d) @@ [shift |-> 0, setflags |-> 0, sub |-> 0, n |-> n, imm |-> imm]
SubsImm(d, n, imm) == Immediate(2, d) @@ [shift |-> 0, setflags |-> 1, sub |-> 1, n |-> n, imm |-> imm]
\* imm counts doublewords.
Scaled(opc, t, n, imm) ==
  [group |-> 12, simd |-> 0, family |-> 7, bit24 |-> 1, bit21 |-> 0, size |-> 3, opc |-> opc, t |-> t, n |-> n, imm |-> imm]
Str(t, n, imm) == Scaled(0, t, n, imm)
Ldr(t, n, imm) == Scaled(1, t, n, imm)
Literal64(t, simm) == [group |-> 12, simd |-> 0, family |-> 3, bit24 |-> 0, opc |-> 1, t |-> t, simm |-> simm]
Pairs(load, idx, simm, t) ==
  [group |-> 4, simd |-> 0, family |-> 5, bit24 |-> 0, bit21 |-> 0, opc |-> 2, load |-> load, idx |-> idx, t |-> t, t2 |-> t + 1, n |-> 31, simm |-> simm]
Push(t) == Pairs(0, 3, -2, t)
Pop(t) == Pairs(1, 1, 2, t)
Atomically(load, t, s) ==
  [group |-> 4, simd |-> 0, family |-> 1, bit24 |-> 0, size |-> 3, o2 |-> 0, load |-> load, pair |-> 0, t |-> t, t2 |-> 31, n |-> 1, s |-> s]
B(simm) == [group |-> 10, op0 |-> 0, op1 |-> 0, simm |-> simm]
Bne(simm) == [group |-> 10, op0 |-> 2, op1 |-> 0, o0 |-> 0, cond |-> 1, simm |-> simm]
Cbnz(t, simm) == [group |-> 10, op0 |-> 1, op1 |-> 0, t |-> t, nonzero |-> 1, simm |-> simm]
Tbz(t, bit, simm) == [group |-> 10, op0 |-> 1 + 4 * (bit \div WBits), op1 |-> 8, t |-> t, nonzero |-> 0, b40 |-> bit % WBits, simm |-> simm]
Generate(ll) == [group |-> 10, op0 |-> 6, op1 |-> 0, opc |-> 0, ll |-> ll, imm |-> 1]
Svc == Generate(1)
Hvc == Generate(2)
Smc == Generate(3)
System0(crn, op1s, op2, crm) == [group |-> 10, op0 |-> 6, op1 |-> 4, sysop |-> 0, crn |-> crn, op1s |-> op1s, op2 |-> op2, crm |-> crm, t |-> 31]
Dsb == System0(3, 3, 4, 15)
Unmask == System0(4, 3, 7, 2)
Mask == System0(4, 3, 6, 2)
Tlbi == [group |-> 10, op0 |-> 6, op1 |-> 4, sysop |-> 1, crn |-> 8, read |-> FALSE, t |-> 31]
SysMove(name, level, t, read) ==
  [group |-> 10, op0 |-> 6, op1 |-> 4, sysop |-> 3, crn |-> 0, op2 |-> 0, t |-> t, register |-> <<name, level>>, read |-> read]
Mrs(t, name, level) == SysMove(name, level, t, TRUE)
Msr(name, level, t) == SysMove(name, level, t, FALSE)
EretA64 == [group |-> 11, op0 |-> 6, op1 |-> 10, opc |-> 4, fixed |-> 0]
Return == IF Fenced THEN <<Dsb, EretA64>> ELSE <<EretA64>>

-----------------------------------------------------------------------------
(* Where things are.  The kernel sees physical memory from 512 on at the   *)
(* top of the address space, the hypervisor its own at the bottom of its   *)
(* space, and firmware, which leaves the MMU off, everything as it is.     *)

Top(pa) == pa + 2^XBits - 2048 - 512
Low(pa) == pa - 2048
Data == 64               \* the application's page, in its own addresses
KernelVectors == 512
Stack1 == 1216
Stack2 == 1120
KernelData == 1216       \* its own address, a counter, a descriptor, where it goes, the other thread's SP and TTBR0, a secret
Tables1 == 1280
Tables2 == 1312
Pages1 == 1344
Pages2 == 1408
KernelTables == 1472
KernelPages == 1536
HypervisorVectors == 2048
HypervisorData == 2112   \* the same without a thread
HypervisorStack == 2176
GuestTables == 2560
GuestPages == 2624
HypervisorTables == 2688
HypervisorPages == 2752
FirmwareVectors == 3072
FirmwareStack == 3264
FirmwareData == 3328

\* Descriptors (see A64Memory).
Table(pa) == pa + 3
PageOf(pa) == pa + 11
UserCode(pa) == PageOf(pa) + 48 + 8192
UserData(pa) == PageOf(pa) + 16 + 8192 + 4096
GuestPage(pa, rights) == PageOf(pa) + 4 + rights * 16    \* rights: 1 to read, 3 to write too
GuestBlock(pa, rights) == pa + 9 + 4 + rights * 16

Secret1 == 777
Secret2 == 778
Published == 779         \* what guests may read

-----------------------------------------------------------------------------
(* Code: sequences of encodings, and where each starts *)

Placed(base, code) == [a \in {base + 4 * (k - 1) : k \in DOMAIN code} |-> code[((a - base) \div 4) + 1]]
\* A vector holds one instruction here.
Vector(base, slot, handler) == (base + slot * VectorSize) :> B((handler - base - slot * VectorSize) \div 4)

\* A loop that counts down in memory, a call, and what is there afterwards.
Flow == <<Movz(0, 2), Str(0, 1, 0), SubsImm(0, 0, 1), Bne(-2), Ldr(2, 1, 0), Svc, Ldr(0, 1, 0), Str(2, 1, 1), B(0)>>
Atomic == <<Atomically(1, 0, 31), AddImm(0, 0, 1), Atomically(0, 0, 2), Cbnz(2, -3), Svc, B(0)>>
\* What belongs to the levels below is read and written: X3 is in the kernel, X1 + 160 the
\* hypervisor's; X1 + 64 is to be read only.
Reach ==
  <<Str(1, 1, 0), Ldr(0, 3, 0), Str(1, 3, 0), Ldr(0, 1, 20), Str(1, 1, 20), Ldr(2, 1, 8), Str(1, 1, 8), Svc, B(0)>>

\* In AArch32: the loop in A32, then an ITE block and a call in T32.
A32(op, fields) == [op |-> op, bytes |-> 4, cond |-> 14] @@ fields
T32(op, fields) == [op |-> op, bytes |-> 2, cond |-> 14] @@ fields
Old ==
  (0 :> A32("mov", [d |-> 0, imm |-> 2])) @@ (4 :> A32("str", [t |-> 0, n |-> 1, imm |-> 0]))
  @@ (8 :> A32("subs", [d |-> 0, n |-> 0, imm |-> 1])) @@ (12 :> [op |-> "b", bytes |-> 4, cond |-> 1, imm |-> -16])
  @@ (16 :> A32("mov", [d |-> 2, imm |-> 25])) @@ (20 :> A32("bx", [m |-> 2]))
  @@ (24 :> T32("it", [imm |-> 12])) @@ (26 :> T32("mov", [d |-> 0, imm |-> 7])) @@ (28 :> T32("mov", [d |-> 0, imm |-> 8]))
  @@ (30 :> T32("svc", [imm |-> 1])) @@ (32 :> T32("ldrex", [t |-> 2, n |-> 1])) @@ (34 :> T32("add", [d |-> 2, n |-> 2, imm |-> 1]))
  @@ (36 :> T32("strex", [d |-> 3, t |-> 2, n |-> 1])) @@ (38 :> T32("ldr", [t |-> 2, n |-> 1, imm |-> 0])) @@ (40 :> T32("b", [imm |-> -4]))

\* x0, x1, ELR and SPSR go to the stack; an interrupt may then come again.
Enter == <<Push(0), Mrs(0, "elr", 1), Mrs(1, "spsr", 1), Push(0)>>
Leave == <<Mask, Pop(0), Msr("elr", 1, 0), Msr("spsr", 1, 1), Pop(0)>> \o Return
\* Data are found through a literal: from is where the load is.
Find(data, t, from) == Literal64(t, data - from)
FindData(t, from) == Find(KernelData, t, from)

Sync == KernelVectors + 64
\* A descriptor is put into a table; where there was a valid one, TLBI has to follow.
SetDescriptor(data, from) == <<Find(data, 1, from), Ldr(0, 1, 2), Ldr(1, 1, 3), Str(0, 1, 0), Dsb>>
Called == Sync + 72
\* The application's page is copied to another.
Copied(from) ==
  <<Movz(1, Data), Ldr(0, 1, 0), Push(0)>> \o SetDescriptor(KernelData, from + 12) \o <<Tlbi, Pop(0), Str(0, 1, 0)>>
Served ==
  CASE job = "remap" -> Copied(Called)
    [] job = "firmware" -> <<Smc>>
    [] job \in {"guest", "reach"} -> <<Hvc>>
    [] OTHER -> <<>>
\* Calls are served; a missing page is put in its place; a forbidden access is skipped.
SyncCode ==
  LET served == Len(Served)
  IN  Enter
        \o <<Mrs(1, "esr", 1), Unmask, Tbz(1, 15, 12), Tbz(1, 3, 5), Ldr(0, 31, 0), AddImm(0, 0, 4), Str(0, 31, 0), B(7 + served)>>
        \o SetDescriptor(KernelData, Sync + 48) \o <<B(1 + served)>> \o Served \o Leave

Interrupted == KernelVectors + 256
Counted(data, from) == <<Find(data, 1, from), Ldr(0, 1, 1), AddImm(0, 0, 1), Str(0, 1, 1)>>
\* The other thread's stack and tables for this one's, and a word for it: this core needs
\* no TLBI where TTBR0 changes.
Switch(from) ==
  <<Push(2), FindData(1, from + 4), AddImm(0, 31, 0), Ldr(2, 1, 4), Str(0, 1, 4), AddImm(31, 2, 0),
    Mrs(0, "ttbr0", 1), Ldr(2, 1, 5), Str(0, 1, 5), Movz(1, Data), Ldr(0, 1, 1), Msr("ttbr0", 1, 2), Str(0, 1, 1), Pop(2)>>
IrqCode ==
  Enter \o Counted(KernelData, Interrupted + 16)
    \o (IF job = "threads" THEN Switch(Interrupted + 32) ELSE <<Unmask, Mask>>) \o Leave

\* The hypervisor makes the guest's page 1 writable, and skips what the guest may not do.
Trap == HypervisorVectors + 128
TrapCode ==
  <<Push(0), Mrs(1, "esr", 2), Tbz(1, 15, 14), Tbz(1, 3, 10), Mrs(0, "hpfar", 2), SubsImm(0, 0, 1), Bne(7)>>
    \o SetDescriptor(HypervisorData, Trap + 28)
    \o <<B(4), Mrs(0, "elr", 2), AddImm(0, 0, 4), Msr("elr", 2, 0), Pop(0)>> \o Return
Counting(data, from) == <<Push(0)>> \o Counted(data, from + 4) \o <<Pop(0)>> \o Return

User ==
  CASE job = "old" -> Old [] job = "threads" -> Placed(0, Atomic) [] job = "reach" -> Placed(0, Reach) [] OTHER -> Placed(0, Flow)
Last == CASE job = "old" -> 40 [] job = "threads" -> 16 [] job = "reach" -> 32 [] OTHER -> 32

Code ==
  User @@ Placed(Sync, SyncCode) @@ Placed(Interrupted, IrqCode)
    @@ Vector(KernelVectors, 5, Interrupted) @@ Vector(KernelVectors, 8, Sync)
    @@ Vector(KernelVectors, 9, Interrupted) @@ Vector(KernelVectors, 12, Sync)
    @@ (IF job \in {"guest", "reach"}
        THEN Placed(Trap, TrapCode) @@ Placed(Trap + 80, Counting(HypervisorData, Trap + 80))
               @@ Vector(HypervisorVectors, 8, Trap) @@ Vector(HypervisorVectors, 9, Trap + 80)
        ELSE <<>>)
    @@ (IF job = "firmware"
        THEN Placed(FirmwareVectors + 64, Counting(FirmwareData, FirmwareVectors + 64))
               @@ Vector(FirmwareVectors, 8, FirmwareVectors + 64) @@ Vector(FirmwareVectors, 10, FirmwareVectors + 64)
        ELSE <<>>)

-----------------------------------------------------------------------------
(* As boot leaves it: the application is about to start *)

WordsAt(base, words) == [a \in {base + 8 * (k - 1) : k \in DOMAIN words} |-> words[((a - base) \div 8) + 1]]
Zeros(first, last) == [a \in {8 * k : k \in (first \div 8)..(last \div 8)} |-> 0]
PageB == 128
Page2 == 192
Memory ==
  WordsAt(PageB, <<9>>) @@ WordsAt(Data, <<0, 5>>) @@ WordsAt(Page2, <<Published>>)
    \* The second thread was interrupted before its first instruction.
    @@ WordsAt(Stack2 - 48, <<0, 0, 0, 0, 0, Data>>)
    @@ WordsAt(KernelData, <<Top(KernelData), 0, UserData(IF job = "remap" THEN PageB ELSE Data), Top(Pages1 + 8),
                             Top(Stack2 - 48), Tables2, Secret1>>)
    @@ WordsAt(Tables1, <<Table(Pages1)>>) @@ WordsAt(Tables2, <<Table(Pages2)>>)
    @@ WordsAt(Pages1, <<UserCode(0), IF job = "demand" THEN 0 ELSE UserData(Data), UserData(Page2), UserData(HypervisorData)>>)
    @@ WordsAt(Pages2, <<UserCode(0), UserData(PageB)>>)
    \* Of the third table it is said above that EL0 has nothing to do there.
    @@ WordsAt(KernelTables, <<512 + 9 + 32 + 4096, 1024 + 9 + 4096 + 8192, Table(KernelPages) + 32>>)
    @@ WordsAt(KernelPages, <<UserData(KernelData)>>)
    @@ WordsAt(HypervisorTables, <<Table(HypervisorPages), 0, 0, 0, 0, GuestTables + 9>>)
    @@ WordsAt(HypervisorPages, <<PageOf(2048) + 32, PageOf(2112), PageOf(2176) + 32, PageOf(2240) + 32>>)
    @@ WordsAt(HypervisorData, <<Low(HypervisorData), 0, GuestPage(Data, 3), GuestPages + 8, Secret2>>)
    @@ WordsAt(GuestTables, <<Table(GuestPages), GuestBlock(512, 1), GuestBlock(1024, 3)>>)
    @@ WordsAt(GuestPages, <<GuestPage(0, 1), GuestPage(Data, 1), 0, GuestPage(Page2, 1)>>)
    @@ WordsAt(FirmwareData, <<FirmwareData, 0>>)
    @@ Zeros(PageB, PageB + 8) @@ Zeros(1024, Stack1 - 8) @@ Zeros(Pages1, Pages1 + 56)
    @@ Zeros(HypervisorStack - 16, HypervisorStack - 8) @@ Zeros(FirmwareStack - 16, FirmwareStack - 8)

PerLevel == {"spsr", "elr", "esr", "far", "vbar", "sctlr", "tcr", "ttbr0", "mair"}
Configured ==
  (<<"vbar", 1>> :> Top(KernelVectors)) @@ (<<"vbar", 2>> :> Low(HypervisorVectors)) @@ (<<"vbar", 3>> :> FirmwareVectors)
    @@ (<<"sctlr", 1>> :> 13) @@ (<<"tcr", 1>> :> 8837) @@ (<<"mair", 1>> :> 1)
    @@ (<<"sctlr", 2>> :> 1) @@ (<<"tcr", 2>> :> 4) @@ (<<"mair", 2>> :> 1) @@ (<<"ttbr0", 2>> :> HypervisorTables)
    @@ (<<"ttbr0", 1>> :> Tables1) @@ (<<"ttbr1", 1>> :> KernelTables) @@ (<<"cpacr", 1>> :> 0)
    @@ (<<"hcr", 2>> :> IF job \in {"guest", "reach"} THEN 17 ELSE 0)
    @@ (<<"vttbr", 2>> :> GuestTables) @@ (<<"vtcr", 2>> :> 4) @@ (<<"hpfar", 2>> :> 0)
    @@ (<<"scr", 3>> :> IF job = "firmware" THEN 5 ELSE 1)
    @@ [k \in PerLevel \X (1..3) |-> 0]
Booted ==
  [x |-> [r \in Xs |-> CASE r = 1 -> Data [] r = 3 -> Top(1536) + 48 [] OTHER -> 0],
   v |-> <<>>, sp |-> [el \in EL |-> CASE el = 0 -> 0 [] el = 1 -> Top(Stack1) [] el = 2 -> Low(HypervisorStack) [] el = 3 -> FirmwareStack],
   pc |-> 0, branched |-> FALSE, psr |-> [Psr(0, 0) EXCEPT !.d = 0, !.a = 0, !.i = 0, !.f = 0, !.nrw = Flag(job = "old")],
   sys |-> Configured, tlb |-> <<>>, mem |-> Memory, buffer |-> <<>>, idle |-> 0, buffering |-> TRUE, reserved |-> NoBlock,
   faults |-> FALSE, stale |-> FALSE, strayed |-> FALSE, crashed |-> FALSE, raised |-> Nothing,
   view |-> [pc |-> 0, thumb |-> FALSE, it |-> 0, branched |-> FALSE], highest |-> 3, running |-> TRUE, event |-> FALSE, waiting |-> "no"]

-----------------------------------------------------------------------------
KernelJobs == {"calls", "demand", "remap", "threads", "guest", "firmware", "old", "reach"}
\* BOUND: interrupts.
Interrupts == IF job = "threads" THEN 3 ELSE 2

KernelInit == job \in KernelJobs /\ core = Booted /\ left = Interrupts

Step == core' = EmulateCycle(core, Code) /\ UNCHANGED <<job, left>>

\* Between two instructions.  (An application in AArch32 would be interrupted at a stale PC:
\* see the README.)
Interrupt ==
  /\ left > 0
  /\ \E type \in IF job = "firmware" THEN {"irq", "fiq"} ELSE {"irq"} :
       /\ IF type = "irq" THEN core.psr.i = 0 ELSE core.psr.f = 0
       /\ core.psr.nrw = 0
       /\ core' = TakePhysicalInterrupt(core, type)
  /\ left' = left - 1
  /\ UNCHANGED job

KernelNext == ~core.crashed /\ (Step \/ Interrupt)
KernelSpec == KernelInit /\ [][KernelNext]_kvars

-----------------------------------------------------------------------------
Here == IF core.psr.nrw = 1 THEN core.view.pc ELSE core.pc
AtRest == core.psr.el = 0 /\ Here = Last /\ core.buffer = <<>>
InSecond == Sys(core, "ttbr0", 1) = Tables2

Left(x0, x2, a, value) == core.x[0] = x0 /\ core.x[2] = x2 /\ core.mem[a] = value
\* What the program computes when nothing happens in between.
Computed ==
  CASE job \in {"calls", "demand", "guest", "firmware"} -> Left(1, 1, Data, 1) /\ core.mem[Data + 8] = 1
    [] job = "remap" -> Left(1, 1, PageB, 1) /\ core.mem[PageB + 8] = 1
    [] job = "threads" -> IF InSecond THEN Left(10, 0, PageB, 10) /\ core.mem[PageB + 8] = 5 ELSE Left(1, 0, Data, 1)
    [] job = "old" -> Left(7, 2, Data, 2)
    [] job = "reach" -> Left(0, Published, Data, Data)

\* An application finds its registers, its flags and its memory as it left them, whatever
\* calls, faults, interrupts and other threads came in between, at every level below it:
\* what entry saves and return restores is all there is (take_exception, exception_return).
LevelsResume == AtRest => Computed

\* A store reaches memory where it was translated to when it was made, whether it leaves the
\* buffer by itself, for a barrier or for an exception (StoreBuffer.drain, exception_return).
EveryStoreLands == ~core.strayed

\* On one core that has a TLBI behind each change of a table, no access goes by a translation
\* the tables no longer give; and with a DSB before each ERET, no store that waits while an
\* exception is entered is written by the translation of the level entered (Mmu's TLB and
\* its flushes, take_exception's drain).
AddressesHold == ~core.stale /\ EveryStoreLands /\ ~core.crashed

\* What the kernel or the hypervisor keeps to itself is not changed by an application, and
\* none sees it (Mmu._check_permission, translate_stage2).
Confined ==
  /\ core.mem[KernelData + 48] = Secret1 /\ core.mem[HypervisorData + 32] = Secret2 /\ core.mem[Page2] = Published
  /\ core.psr.el = 0 => \A r \in Xs : core.x[r] \notin {Secret1, Secret2}
=============================================================================
