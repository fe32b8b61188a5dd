---------------------------- MODULE Armv6Kernel ----------------------------
(***************************************************************************)
(* A user program, the handlers of a kernel, and interrupts between any    *)
(* two instructions.                                                       *)
(*                                                                         *)
(* A job is a user program in one of the instruction sets, the way the     *)
(* kernel's handlers save and return, the memory system and the world they *)
(* run in.  The board delivers an interrupt after an instruction whenever  *)
(* CPSR lets it.  contexts holds, innermost last, what each exception      *)
(* that is not yet returned from has interrupted.                          *)
(***************************************************************************)
EXTENDS Armv6Routines

CONSTANTS
  Programs, Styles,   \* the user programs and handlers that are tried
  Memories,           \* "PMSA", "VMSA"
  MaxInterrupts       \* BOUND: interrupts of each kind

UserPrograms == {"flow", "block", "undef", "reach", "attempt", "jump", "call"}
HandlerStyles == {"direct", "stack", "list", "nested", "switch"}

VARIABLES
  contexts,
  taken        \* how many interrupts of each kind there have been

kernelVars == <<job, cpu, contexts, taken>>

\* Memory: user data, kernel data, kernel code with the vectors, user code.  Its
\* addresses are words, on the shipped configuration.
KernelData == 64
KernelCode == 256
VectorBase == 512
MonitorBase == 576
UserCode == 1024
ASSUME KernelAssumption ==
  /\ Programs \subseteq UserPrograms /\ Styles \subseteq HandlerStyles
  /\ Memories \subseteq {"PMSA", "VMSA"} /\ MaxInterrupts \in Nat
  /\ HaveSecurityExt /\ ~HaveVirtExt /\ UserCode < 2^WordBits
HandlerAt ==
  [und |-> KernelCode, svc |-> KernelCode + 40, abt |-> KernelCode + 80, irq |-> KernelCode + 120,
   fiq |-> KernelCode + 160]
\* Each mode has a stack of three words; with nesting, all use the one of Supervisor.
StackOf(style, mode) ==
  IF style = "nested" THEN IF mode = "svc" THEN KernelData + 64 ELSE 0
  ELSE [und |-> KernelData + 12, svc |-> KernelData + 24, abt |-> KernelData + 36, irq |-> KernelData + 48,
        fiq |-> KernelData + 60, mon |-> 0, hyp |-> 0, usr |-> 48][mode]

-----------------------------------------------------------------------------
(* The user's programs: each ends in a loop that stays where it is *)

Immediate(op, n, value) == With([Do(op, 5, n, 4) EXCEPT !.t = 5], value)
\* What a program in user mode may not do, and is not stopped from trying.
Attempts ==
  <<[Blank EXCEPT !.op = "CpsArm", !.affect = {"a", "i", "f"}, !.disable = TRUE, !.change_mode = TRUE, !.mode = "svc"],
    [Blank EXCEPT !.op = "MsrRegisterSystem", !.n = 7, !.mask = {0}],
    [Blank EXCEPT !.op = "Rfe", !.n = 4, !.wback = TRUE],
    [Blank EXCEPT !.op = "SubsPcLrArm", !.n = 14],
    [List("LdmExceptionReturn", 4, {5}) EXCEPT !.wback = FALSE],
    [Blank EXCEPT !.op = "SrsArm", !.mode = "svc", !.wback = TRUE],
    [List("LdmUserRegisters", 4, {13, 14}) EXCEPT !.wback = FALSE],
    [Blank EXCEPT !.op = "Smc"]>>
Forged == [ZeroPsr EXCEPT !.m = "svc", !.i = 1, !.f = 1, !.a = 1]   \* in r7 and at the address in r4

UserProgram(name, t) ==
  LET short(op) == [Blank EXCEPT !.op = op, !.length = IF t = 1 THEN 2 ELSE 4]
      store == InSet(t, "StrImmediateArm", "StrImmediateThumb")
      load == InSet(t, "LdrImmediateArm", "LdrImmediateThumb")
      function == UserCode + 20
  IN  CASE name = "flow" ->
             <<Flags(Do(AddRegister(t), 1, 1, 1)), short("Svc"), Do("AdcRegister", 2, 2, 2), Flags(Do("SubRegister", 3, 3, 1))>>
        [] name = "block" ->   \* ITTTE, with the NOP after SVC
             <<Flags(Do("SubRegister", 6, 1, 1)), [Ite(0) EXCEPT !.mask = 3], When(short("Svc"), NoCond), When(Move(5, 1), NoCond),
               When(Move(5, 2), NoCond), Move(6, 3)>>
        [] name = "undef" -> <<Flags(Move(5, 0)), short("Udf"), Move(6, 1)>>
        \* r1 and r2 are just below the kernel's data.  LDRD and LDM load the word below it,
        \* the base of LDM included, and abort at the next: r1 is then what r4 was.
        [] name = "reach" ->
             <<[Immediate(load, 1, 4) EXCEPT !.wback = TRUE], [Immediate(store, 2, 4) EXCEPT !.t = 3, !.wback = TRUE, !.index = FALSE],
               List("Stm", 1, {2, 3}), [Immediate("StrdImmediate", 1, 0) EXCEPT !.t = 4, !.t2 = 5],
               [Immediate("LdrdImmediate", 1, 0) EXCEPT !.t = 6, !.t2 = 7],
               [List(InSet(t, "LdmArm", "LdmThumb"), 1, {1, 2}) EXCEPT !.wback = FALSE],
               [Immediate(store, 1, 4) EXCEPT !.t = 3, !.wback = TRUE, !.index = FALSE], Immediate(store, 1, 28)>>
        [] name = "attempt" -> Attempts
        [] name = "jump" -> <<Do("Bx", 0, 0, 3)>>   \* r3 is an address in the kernel's code
        [] name = "call" ->
             <<With([Blank EXCEPT !.op = "BlBlxImmediate", !.target = 1 - t], function - Align(Ahead(UserCode, t), 4)),
               Move(6, 3), Jump(UserCode + 8, UserCode + 28, t), Blank, Blank, Move(5, 2), Do("Bx", 0, 0, 14)>>

\* Where the loop is that each of them ends in.
UserEnd(j) == UserCode + 4 * Len(UserProgram(j.name, j.t))

-----------------------------------------------------------------------------
(* The kernel, in ARM code *)

\* How far past the instruction to go on with LR is.
LinkOffset(j, mode) ==
  CASE mode \in {"irq", "fiq"} -> 4
    [] mode = "abt" -> IF j.skip THEN 4 ELSE 8
    [] OTHER -> 0

SubsPcLr(k) == [With(Blank, k) EXCEPT !.op = "SubsPcLrArm", !.n = 14]
LowerLr(k) == With(Do("SubImmediateArm", 14, 14, 0), k)
Srs(mode) == [Blank EXCEPT !.op = "SrsArm", !.mode = mode, !.wback = TRUE, !.increment = FALSE]
Rfe13 == [Blank EXCEPT !.op = "Rfe", !.n = 13, !.wback = TRUE]
LdmReturn(registers) == List("LdmExceptionReturn", 13, registers)
\* A handler of FIQ may have interrupted one of IRQ that has not saved anything yet.
EnterSvc(mode) ==
  [Blank EXCEPT !.op = "CpsArm", !.affect = IF mode = "fiq" THEN {"f"} ELSE {"i", "f"}, !.enable = TRUE, !.change_mode = TRUE, !.mode = "svc"]
\* In the non-secure world the kernel may not select Monitor.
TryMonitor(ns) == IF ns = 1 THEN [Blank EXCEPT !.op = "CpsArm", !.change_mode = TRUE, !.mode = "mon"] ELSE Blank
UserList(op) == [List(op, 13, {13, 14}) EXCEPT !.wback = FALSE]
\* Where the registers of another thread are: zero words of the user's data.
OtherThread == [UserList("LdmUserRegisters") EXCEPT !.n = 0]

Handler(j, mode) ==
  CASE j.style = "direct" -> <<>>   \* returns at the vector
    [] j.style = "stack" ->   \* and FIQ uses a register of its own
         <<LowerLr(LinkOffset(j, mode)), Srs(mode), IF mode = "fiq" THEN Move(8, 1) ELSE Blank,
           IF mode = "svc" THEN [Blank EXCEPT !.op = "Smc"] ELSE Blank, Rfe13>>
    [] j.style = "list" ->
         <<LowerLr(LinkOffset(j, mode)), List("Stmdb", 13, {1, 14}), TryMonitor(j.ns), Flags(Move(1, 0)), LdmReturn({1})>>
    [] j.style = "nested" ->
         <<LowerLr(LinkOffset(j, mode)), Srs("svc"), EnterSvc(mode), List("Stmdb", 13, {1, 14}), Flags(Move(1, 0)),
           List("LdmArm", 13, {1, 14}), Rfe13>>
    [] j.style = "switch" ->
         <<LowerLr(LinkOffset(j, mode)), List("Stmdb", 13, {14}), With(Do("SubImmediateArm", 13, 13, 0), 8),
           UserList("StmUserRegisters"), OtherThread, UserList("LdmUserRegisters"),
           With(Do("AddImmediateArm", 13, 13, 0), 8), LdmReturn({})>>

VectorMode == [offset \in {4, 8, 16, 24, 28} |->
                CASE offset = 4 -> "und" [] offset = 8 -> "svc" [] offset = 16 -> "abt"
                  [] offset = 24 -> "irq" [] offset = 28 -> "fiq"]
Vectors == {VectorBase + offset : offset \in DOMAIN VectorMode} \cup {MonitorBase + 8, MonitorBase + 28}

\* The instruction at an address; there is nothing between the programs.
Within(program, origin, address) ==
  IF address \in origin..(origin + 4 * Len(program) - 1) THEN At(program, origin, address) ELSE Blank

InstructionAt(j, address) ==
  CASE address = MonitorBase + 8  -> SubsPcLr(0)
    [] address = MonitorBase + 28 -> SubsPcLr(4)
    [] address \in Vectors \ {MonitorBase + 8, MonitorBase + 28} ->
         LET mode == VectorMode[address - VectorBase]
         IN  IF j.style = "direct" THEN SubsPcLr(LinkOffset(j, mode)) ELSE Jump(address, HandlerAt[mode], 0)
    [] address \in KernelCode..(KernelCode + 199) ->
         LET mode == CHOOSE m \in DOMAIN HandlerAt : address \in HandlerAt[m]..(HandlerAt[m] + 39)
         IN  Within(Handler(j, mode), HandlerAt[mode], address)
    [] address = UserEnd(j) -> Jump(address, address, j.t)
    [] OTHER -> Within(UserProgram(j.name, j.t), UserCode, address)

-----------------------------------------------------------------------------
(* Memory protection: the same map for the MPU and for the tables *)

Region(base, lsbit, ap) == [en |-> 1, base |-> base, lsbit |-> lsbit, disabled |-> {}, ap |-> ap, texcb |-> 4, s |-> 0]
Map == <<Region(0, WordBits, 3), Region(KernelData, 6, 1), Region(KernelCode, 8, 1), Region(VectorBase, 8, 1)>>

\* Domain 0 is a client; domain 1, of the user's code, a manager.
Entry(kind, base, ap, domain) == [kind |-> kind, base |-> base, ap |-> ap, domain |-> domain, texcb |-> 7, s |-> 0]
FirstPages == [page \in 0..3 |-> Entry(IF page < 2 THEN "small" ELSE "fault", page, IF page = 1 THEN 1 ELSE 3, 0)]
Table ==
  [section \in 0..15 |->
    CASE section = 0 -> [kind |-> "table", domain |-> 0, table |-> FirstPages]
      [] section \in 1..3 -> Entry("section", section, 1, 0) @@ [table |-> FirstPages]
      [] OTHER -> Entry("section", section, 0, 1) @@ [table |-> FirstPages]]

Booted(j) ==
  [psr |-> [ZeroPsr EXCEPT !.m = "usr", !.t = j.t],
   R |-> [NoRegisters EXCEPT ![<<1, "usr">>] = 60, ![<<2, "usr">>] = 62, ![<<3, "usr">>] = KernelCode,
            ![<<4, "usr">>] = 32, ![<<7, "usr">>] = Forged, ![<<13, "usr">>] = 48, ![<<14, "usr">>] = 12,
            ![<<13, "und">>] = StackOf(j.style, "und"), ![<<13, "svc">>] = StackOf(j.style, "svc"),
            ![<<13, "abt">>] = StackOf(j.style, "abt"), ![<<13, "irq">>] = StackOf(j.style, "irq"),
            ![<<13, "fiq">>] = StackOf(j.style, "fiq")],
   spsr |-> NoSpsr, pc |-> UserCode, branched |-> FALSE, raised |-> "none",
   mem |-> [word \in 0..(MemWords - 1) |-> IF word = 9 THEN Forged ELSE 0], memarch |-> j.memory,
   sctlr |-> [m |-> 1, a |-> 0, u |-> 1, v |-> 0, c |-> 0, te |-> 0, ee |-> 0, nmfi |-> 0, ve |-> 0, br |-> 0, afe |-> 0],
   \* The non-secure world leaves FIQs to the monitor.
   scr |-> [ns |-> j.ns, aw |-> 0, fw |-> 0, ea |-> 0, irq |-> 0, fiq |-> j.ns, scd |-> 0],
   vbar |-> VectorBase, mvbar |-> MonitorBase, nsacr_rfr |-> FALSE,
   dfar |-> 0, dfsr |-> [write |-> FALSE, status |-> 0, domain |-> 0], event |-> FALSE, waiting |-> {},
   regions |-> IF j.memory = "PMSA" THEN Map ELSE <<>>,
   fcse |-> [bits |-> 7, pid |-> 0], ttbcr |-> [n |-> 0, pd1 |-> 0], ttbr0 |-> Table, ttbr1 |-> Table,
   dacr |-> [domain \in 0..1 |-> IF domain = 0 THEN 1 ELSE 3],
   prrr |-> [tr |-> [region \in 0..7 |-> 2], ns |-> [bit \in Bit |-> bit]]]

-----------------------------------------------------------------------------
(* The specification *)

\* What an interrupted program relies on.
Context(s) ==
  [psr |-> s.psr, pc |-> s.pc, registers |-> [n \in 0..14 |-> Get(s, n)],
   spsr |-> IF s.psr.m = "usr" THEN ZeroPsr ELSE GetSpsr(s)]

\* The instruction after the one that calls, and the IT state it runs in.
Called(s, i) ==
  LET t == IncrementPcIfNeeded([s EXCEPT !.branched = FALSE], i.length) IN IF InItBlock(s) THEN ItAdvance(t) ELSE t

\* What is interrupted by the exception of mode m that instruction i has raised; a load
\* that aborts may have loaded some of its registers, as t then has them.
Interrupted(s, t, i, m) ==
  CASE m \in {"svc", "mon"} -> Context(Called(s, i))
    [] m = "und" -> Context([s EXCEPT !.pc = @ + (IF s.psr.t = 1 THEN 2 ELSE 4)])
    [] m = "abt" -> Context([s EXCEPT !.pc = IF job.skip THEN @ + 4 ELSE @, !.R = t.R])

NoneTaken == [mask \in {"i", "f"} |-> 0]
InKernel == job.family = "kernel"

KernelInit ==
  /\ \E name \in Programs, style \in Styles, t \in Bit, memory \in Memories, ns \in Bit, skip \in BOOLEAN :
       /\ name = "block" => t = 1
       /\ name = "attempt" => t = 0
       /\ style \in {"nested", "switch"} /\ name # "block" => t = 0
       /\ memory = "VMSA" => name \in {"reach", "jump"} /\ style \in {"direct", "list"}
       /\ ns = 1 => style \in {"stack", "list"} /\ name \in {"flow", "block", "attempt"}
       /\ name = "jump" => ~skip
       /\ name \notin {"reach", "jump"} => skip
       /\ job = [family |-> "kernel", name |-> name, style |-> style, t |-> t, memory |-> memory, ns |-> ns, skip |-> skip]
  /\ cpu = Booted(job)
  /\ contexts = <<>>
  /\ taken = NoneTaken

Current == InstructionAt(job, cpu.pc)
Returning == cpu.psr.m # "usr" /\ Current.op \in {"SubsPcLrArm", "Rfe", "LdmExceptionReturn"}

\* One cycle of the processor.
Step ==
  /\ InKernel
  /\ cpu' = EmulateCycle(Current, Opcode, cpu)
  /\ contexts' = CASE Returning -> Front(contexts)
                   [] ~Returning /\ cpu'.pc \in Vectors -> Append(contexts, Interrupted(cpu, cpu', Current, cpu'.psr.m))
                   [] OTHER -> contexts
  /\ UNCHANGED <<job, taken>>

\* service_interrupts, for IRQ; FIQ is taken by who drives the core.
Interrupt(mask, Taken(_)) ==
  /\ InKernel
  /\ cpu.psr[mask] = 0
  /\ taken[mask] < MaxInterrupts
  /\ taken' = [taken EXCEPT ![mask] = @ + 1]
  /\ cpu' = Taken(cpu)
  /\ contexts' = Append(contexts, Context(cpu))
  /\ UNCHANGED job

TakeIrq == Interrupt("i", LAMBDA s : TakePhysicalIrqException(s, 0))
TakeFiq == Interrupt("f", LAMBDA s : TakePhysicalFiqException(s, 0))

KernelNext == Step \/ TakeIrq \/ TakeFiq
KernelSpec == KernelInit /\ [][KernelNext]_kernelVars

-----------------------------------------------------------------------------
\* Every return goes on with exactly what was interrupted: PC, instruction set, IT
\* state, flags, masks, mode, the registers of that mode and its SPSR - however the
\* handler saved them, whatever came in between.
ResumesExactly == [][Len(contexts') < Len(contexts) => Context(cpu') = Last(contexts)]_kernelVars

\* A program in user mode leaves it only by an exception, to its vector, and sets no
\* mask, no register of another mode and no SPSR on the way.
UserConfined ==
  [][InKernel /\ cpu.psr.m = "usr" =>
       IF cpu'.psr.m = "usr"
       THEN /\ \A bit \in {"a", "i", "f"} : cpu'.psr[bit] = cpu.psr[bit]
            /\ \A name \in RName : name[2] # "usr" => cpu'.R[name] = cpu.R[name]
            /\ cpu'.spsr = cpu.spsr
       ELSE cpu'.pc \in Vectors /\ cpu'.psr.i = 1 /\ cpu'.spsr[cpu'.psr.m].m = "usr"]_kernelVars

\* Nothing a program does in user mode changes the kernel's data, also when an access
\* straddles the border or is one of several that an instruction makes.
KernelMemoryKept ==
  [][InKernel /\ cpu.psr.m = "usr" => \A word \in KernelData \div 4..(MemWords - 1) : cpu'.mem[word] = cpu.mem[word]]_kernelVars

\* The registers an instruction of several words loads one by one, before a later word
\* may abort (ldm_arm.py:21-23, ldrd_immediate.py:37-38).
Destinations(i) ==
  CASE i.op \in {"LdmArm", "LdmThumb"} -> i.registers
    [] i.op = "LdrdImmediate" -> {i.t, i.t2}
    [] OTHER -> {}

\* An instruction that aborts has changed no register but those an LDM or LDRD was to load:
\* no base is written back, no value of a store and no other register lost.  So it can be
\* done again, unless it is an LDM that has loaded its own base.
AbortsKeepRegisters ==
  [][InKernel /\ cpu'.psr.m = "abt" /\ cpu.psr.m = "usr" =>
       \A n \in (0..14) \ Destinations(Current) : cpu'.R[<<n, "usr">>] = cpu.R[<<n, "usr">>]]_kernelVars

-----------------------------------------------------------------------------
(* Both benches of the ARMv6 core, this one and that of Armv6Routines.     *)
(* Words are of twelve bits: four bytes of three; pages of 64 bytes and    *)
(* sections of 256.                                                        *)

Sizes == [small |-> 6, large |-> 7, section |-> 8, supersection |-> 9]

Init ==
  \/ RoutineInit /\ contexts = <<>> /\ taken = NoneTaken
  \/ KernelInit

Next ==
  \/ RoutineNext /\ UNCHANGED <<contexts, taken>>
  \/ KernelNext

Spec == Init /\ [][Next]_kernelVars
=============================================================================
