# A verification project for armulator

armulator emulates ARM boards: a cluster of AArch64 cores with a store buffer
and a load reorderer each, an ARMv6/AArch32 core, a GIC-400, serial, GPIO and
motor peripherals, and boards that wire them together. This directory holds
TLA+ modules of the parts whose behaviour depends on order, on interleaving or
on intricate arithmetic, configurations that check them with TLC, and proofs
that TLAPS checks of the results that matter most.

`PROJECT.json` is the index: components, runs, the mutant that shows each
property can fail, the source lines each definition models (`map`), the hazards
the properties are aimed at, findings and theorems. All paths below are under
`src/armulator/` unless they start with `src/`.

    tlc -workers 2 -config MemorySystem_adversarial.cfg MCMemorySystem
    tlapm Memory_proofs.tla

Contents: 1 the system, 2 the modules, 3 the runs, 4 the proofs, 5 what is not
modelled, 6 what was seen on the way, 7 the plan.

## 1. The system

### The processors and what they share

| component | state | operations | what is hard | here |
|---|---|---|---|---|
| store buffer, `armv8/store_buffer.py` | per core: pending stores with their issue time, `last_retire` | push, forward, drain, retire | leaves in order, newest first, or spills at capacity; overlapping stores must not swap | modelled, proved |
| load reorderer, `armv8/store_buffer.py` | per core: `sync_time`, `seen` | read_time, synchronize | a load may be answered from the past, but never from before the last barrier | modelled, proved |
| memory history and clock, `armv8/memory_history.py` | shared: per-byte log of writes, the cluster's clock | record, value_as_of, prune | pruning must leave what an old load still needs | modelled, proved |
| exclusive monitor, `armv8/exclusive_monitor.py` | shared: core -> reserved block | reserve, check_and_clear, notify_store | who loses a reservation, and when, while stores sit in buffers | modelled, proved |
| AArch64 memory path, `armv8/arm_v8.py` | own_write_time, deferred loads per register | mem_get, mem_set, barriers, take_exception | all of the above composed | modelled |
| MMU, `armv8/mmu.py` | TLB per core | walk, translate, translate_stage2, flush | stale entries; a store translated twice, when made and when committed | modelled, one core |
| exception levels, `armv8/arm_v8.py`, `armv8/registers.py` | EL, PSTATE, SPSR/ELR/ESR/FAR per level | target_el_for, take_exception, exception_return | the order of level change, drain and flush | modelled |
| A64 opcodes and decoders, `armv8/opcodes/` | none | one class per encoding group | reserved encodings, boundary operands, faults half way | integer part modelled |
| AArch32 view, `armv8/aarch32.py` | a window on the AArch64 registers, IT state | branches, loads, stores, exceptions | state carried across an exception | modelled in part |
| events and waits, `armv8/arm_v8.py` | event register, WFE and WFI flags | wait_for_event, wait_for_interrupt, send_event | lost wake-ups | modelled, proved |
| cluster and PSCI, `armv8/cluster.py` | powered_on, halted, previous PC | step_core, step_round, run, power_on, power_off, deliver_interrupts | who runs when; when `run` may stop | modelled, proved |
| generic timer, `armv8/generic_timer.py` | counter, compare, control | tick, TVAL and CTL accesses | a level the board samples | modelled, proved |
| ARMv6 core, `armv6/arm_v6.py`, `armv6/registers.py` | banked registers, CPSR, IT state, MPU/MMU registers | exceptions, translation, memory accesses | mode banking, what an abort leaves behind | modelled, proved in part |
| ARMv6 opcodes, `armv6/opcodes/` | none | 272 abstract opcodes under about 900 encodings | flags, PC writes, condition checks | opcodes modelled, proved in part; encodings not |
| memory hub, `armv6/memory_controller_hub.py` | list of regions | get and set by physical address | unmapped and straddling accesses | in part |

### The boards

| component | state | operations | what is hard | here |
|---|---|---|---|---|
| GIC-400, `peripherals/gic400.py` | distributor, banked and shared pending/active/enable, routing, SGI bookkeeping | set_line, send_sgi, IAR, EOIR, register writes, refresh | level against edge, banked against shared, several targets of one SGI | modelled, proved |
| SPI slave, `peripherals/spi_slave.py` | dialogue, two FIFOs | select, transfer, deselect, register accesses | half duplex, address octet, lost octets | modelled, proved |
| SPI masters, `peripherals/serial_bus.py`, `spi_tegra.py` | FIFOs, chip select, status | register writes that run a transfer | framing, over- and underrun | modelled, proved |
| GPIO, `peripherals/gpio_bcm.py`, `gpio_tegra.py` | levels, functions, event latches | drive_input, register writes | edges against the last sampled level | modelled, proved |
| interconnect, `boards/interconnect.py` | wires and their last level | settle, step_slice, run | settling order, released wires | modelled, proved |
| board, `boards/__init__.py`, `boards/cpu.py` | devices, halted, fault_loop | run, service_interrupts, sample_timer | halt against fault loop | modelled, proved |
| MMIO framework, UARTs, I2C, PCA9685, motor HAT, lidar, telemetry, replay | - | - | reads with side effects; byte-wise updates | not modelled (section 5) |

### How they interact

Everything runs in one Python thread. `Cluster.step_round` gives each powered
core, in order, a turn: the GIC is refreshed and an interrupt delivered, then up
to `SLICE_SIZE` instructions run. A core's stores wait in its own buffer and
reach the shared hub when they retire, at a barrier or at an exception; at that
moment the history records them. Reservations are broken when a store *issues*.
SEV and CPU_ON are requests the core leaves behind and the cluster acts on after
the cycle. Devices expose a level that the board or the cluster samples. A
`Machine` runs its boards in slices and settles the wires between two rounds; a
register write that shifts an octet calls the other board's slave directly.

So there are no data races; what interleaves is the *turns* of the cores and
boards, the retirement of buffered stores, the moment a deferred load is read
again, and the moment a device or another core raises a line.

### What makes each part correct

- Memory: per-byte program order of one core's stores; a core sees its own
  stores; a barrier bounds how stale a load can be; the litmus tests; the
  default model is sequentially consistent; an exclusive pair is atomic; every
  store lands.
- Exceptions and translation: whatever comes in between, a program finds its
  registers, flags and memory as it left them; no access goes by a translation
  that a TLBI withdrew; the stores an exception finds pending are written by
  their own translation and not by that of the level entered; what the level
  below keeps to itself stays its own. (ERET does not keep the third of these:
  section 3.)
- Instructions: an encoding does what it means on numbers, for boundary
  operands, or is refused; an A64 one that faults can be taken again, an ARMv6
  one that aborts has changed nothing but registers it was to load.
- GIC: an interrupt is serviced by one core and ended by it; no edge, level or
  SGI is lost, invented or delivered twice.
- Cluster: no wake-up is lost; a core counts as finished only when it is; `run`
  does not stop while something could happen.
- Devices: dialogues are framed by chip select; no octet is lost, repeated or
  invented but where a flag says so; an event stays latched until it is
  cleared; a pin reads the level its wire has; a timer interrupts while it
  asserts and only then.

## 2. Modules

| module | models | built on |
|---|---|---|
| `MemorySystem` | the memory of a cluster as its cores see it | - |
| `MemoryOrder` | the same, observed by history variables | `MemorySystem` |
| `Litmus` | litmus programs running on it | `MemorySystem` |
| `SequentialMemory` | the abstract promise of the default model | - |
| `StoreLifetime` | one core's buffer in unbounded time | - |
| `A64Registers` | bit operations, registers and PSTATE of one AArch64 core | - |
| `A64DataProcessing` | the A64 instructions that compute, decoded and executed | `A64Registers` |
| `A64Memory` | translation, TLB, store buffer, accesses of one core | `A64Registers` |
| `A64LoadStore` | the A64 loads and stores | `A64Memory` |
| `A64Levels` | exception levels, branches, system instructions, the AArch32 view, one cycle | all of the above |
| `A64Arithmetic`, `A64Transfers`, `A64Kernel` | benches: single encodings, and software at every level | the modules above |
| `AArch64` | the benches of the AArch64 cores side by side | `MemoryOrder` and the benches |
| `Armv6Registers`, `Armv6Memory` | the ARMv6 register file, arithmetic, memory systems | - |
| `Armv6DataProcessing`, `Armv6Media`, `Armv6LoadStore`, `Armv6System` | its 272 opcodes | the two above |
| `Armv6Opcodes` | which opcode an instruction is, and how programs are written | the opcodes |
| `Armv6Programs`, `Armv6Routines`, `Armv6Kernel` | benches: programs with two meanings; a user program, handlers and interrupts | `Armv6Opcodes` |
| `Gic400` | distributor, CPU interfaces, register writes | - |
| `GicService` | the controller with firmware that acknowledges and ends | `Gic400` |
| `Cluster` | the scheduler, parking, PSCI, wake-ups, interrupt delivery | `Gic400` |
| `Wakeups` | programs that wait, run on the cluster | `Cluster` |
| `TimerTick` | the timer interrupt of a board | `Gic400` |
| `SpiSlave`, `SerialLink` | the slave block; the link between two boards | - |
| `Gpio`, `GpioEvents` | both controllers; one of them with firmware and the world | - |
| `Machine` | two boards wired to each other | `Gpio` |
| `Devices`, `Boards` | the benches of the boards side by side: safety, and what must happen in the end | the modules above |
| `MCMemorySystem`, `MCMemoryOrder` | instances for TLC: two free cores beside the programs of `Litmus`; two cores on two bytes | `Litmus`; `MemoryOrder` |
| `*_proofs` | theorems (section 4) | the modules they name |

**MemorySystem.** A byte of memory holds the identity of the store that wrote it
(core and number in program order), so that every property about *which* store
is seen can be stated and no arithmetic is needed. One `emulate_cycle` is
`Fetch` (count, let one store retire, take the turn) followed by one instruction;
`turn` keeps the other cores out in between, as the single thread does. An
instruction that drains does so one entry per `DrainOne` step, each with its own
recording and pruning. `Reordered` and `MemGet` are the load path: history at
`ReadTime`, bytes the core itself has written since, own pending stores on top.
The model in force, capacity, latency, horizon and granule are constants.
**MemoryOrder** adds when each register was loaded and when each reservation was
taken. **Litmus** runs message passing, store buffering, load buffering and
write-to-read causality, with barriers or with acquire and release.
**StoreLifetime** keeps relative times, so that liveness needs no bound on the
clock.

**A64.** A core is one record `s` and an instruction a function from the fields
of its encoding and `s` to the `s` after it; a fault is left in `s.raised` and
ends the instruction where the code's exception leaves it. Registers have
2^`XLog` bits: widths shrink together, so all boundaries of the 64-bit code
(sign, carry, halves, shifts by the size) are there among few operands. Tables
are words of memory, so a program can change them; granules and fields are
scaled to the shorter word (each module's head comment gives the layout).
`s.stale`, `s.strayed` and `s.crashed` are history: a cached translation was
used that the tables no longer give, a store reached another place than it was
translated to, an exception escaped `emulate_cycle`. `A64Kernel` writes its
software in the encodings the core decodes: applications in both execution
states under a kernel with system calls, demand paging and threads, also as a
guest of a hypervisor and above a firmware that takes FIQs.

**Armv6.** The same style: a word has four bytes of `ByteBits` bits; `s` holds
the banked registers, status registers as records of their fields, memory and
the MPU or MMU registers. `Armv6Kernel` runs user programs against handlers that
save and return in five ways, with an IRQ or FIQ between any two instructions.

**Gic400.** Pending, enable, active and line state are sets of *slots*: a slot
is an interrupt and the core whose bank holds it, or `Shared`. One action per
operation: `SetLine`, `SendSgi`, `Acknowledge` (IAR), `EndOfInterrupt` (EOIR)
and the register groups under `Configure`. **GicService** adds what a core has
acknowledged and not ended, which edges are owed, and which cores an SGI is owed
to; `Patient` says whether firmware waits for an SGI to be taken before it
repeats it; `Firmware` says which register groups it writes while interrupts are
in flight.

**Cluster.** One turn is `DeliverInterrupts` and then up to `SLICE_SIZE`
instructions. A core's program is not fixed: at every step it may execute any
instruction of `instr`, one of the sets in `Programs`, chosen at the start. The
PC is abstracted to four places, which is what the halt rule (two equal PCs and
no exception) can tell apart. `Driver` chooses between stepping for ever and
`Cluster.run`, whose early return and final drain are part of `EndTurn`.
**Wakeups** fixes the programs to the idioms firmware uses to wait.

**The boards.** `SerialLink` joins a BCM or a Tegra master to the slave by a
bridge; firmware on both sides makes any register access at any time, and an
octet carries its number and the frame it was written in. `GpioEvents` is one
controller, its firmware and the world; `Machine` two boards, their slices and
the wires settled between them. `TimerTick` keeps the difference of compare and
counter and follows the interrupt through the GIC to the handler and back.

Definitions whose comment starts with MUTANT are not part of the model. Each is
a plausible bug in the definition that follows it; substituting it makes the
property named in `PROJECT.json` fail.

## 3. The runs

| run | module | distinct states | shows |
|---|---|---|---|
| `MemorySystem_adversarial` | `MCMemorySystem` | 1,892,695 | two cores, every instruction, overlapping accesses, both reorderings: no core sees its own stores go backwards, a deferred load that is read again gets current memory, a barrier bounds how stale a load may be. And the programs of `Litmus` on two and three cores: message passing, store buffering, load buffering and write-to-read causality, with barriers or acquire and release, never end in the forbidden outcome |
| `MemoryOrder_adversarial` | `MCMemoryOrder` | violation | two loads of one address do lose their order (finding) |
| `AArch64` | `AArch64` | 733,182 | four benches. Sequential model: two cores behave as one memory, and a standing reservation is fresh. Encodings: computing ones and loads and stores mean what they should on numbers. Software: applications of both execution states, a kernel with interrupts, demand paging and two threads, a hypervisor, a firmware - programs resume as they were left, no access goes by a translation that a TLBI withdrew, what an exception finds pending is written as it was translated, what is forbidden stays hidden |
| `A64Kernel_eret` | `A64Kernel` | violation | the software of `AArch64` without its DSB before ERET: a store is translated again at the level returned to, and lost (finding) |
| `Cores` | `Armv6Kernel` | 342,668 | ARMv6 programs with two meanings agree, calls return, a user program is resumed exactly by five kinds of handler with an interrupt at any point, it stays confined, an instruction that aborts has changed no register but those an LDM or LDRD was to load |
| `Cluster_parking` | `Cluster` | 435,350 | only a core on its halt loop, or one an interrupt took from there, counts as halted; none sleeps with its event register set; every store of a core that stays on lands |
| `Wakeups` | `Wakeups` | 252,823 | WFE against DSB and SEV, a masked WFI against an interrupt, two cores that service and send interrupts: no alignment loses a wake-up |
| `Cluster_parked` | `Cluster` | violation | `run` stops while a core in WFI has an interrupt pending (finding) |
| `Boards` | `Boards` | 75,283 | two cores share a GIC: one server, edges and levels exact, SGIs arrive; two wired boards: a held level reaches the other handler; a buffer that drains adversarially empties |
| `GicService_broadcast` | `GicService` | violation | a repeated SGI takes the earlier one's targets away (finding) |
| `Devices` | `Devices` | 1,021,217 | the SPI link, the GPIO blocks, the wired boards, a GIC whose registers are written at any time, and the timer interrupt, each under every legal access: no octet, event or level is lost or invented |
| `TimerTick_cluster` | `TimerTick` | violation | on a cluster no timer ever interrupts (finding) |

A module such as `Devices`, `Boards` or `AArch64` puts several components on one
bench, chosen in the initial state; the others stand still in an initial state.
They do not interact; they share a run because each is small.

### What the violations say

- **`CoherentReads`.** A deferred load is answered from memory when its register
  is first read, even when a later load of the same address has been settled in
  the meantime; `AARCH64.md` promises that accesses to one address keep their
  order.
  The theorem `ReadsAreCoherent` says that nothing else breaks the promise: under
  the sequential and the relaxed model, where no load is deferred, it holds.
- **`AllParkedIsFinal`.** `Cluster.run` looks only at `halted` and the wait
  flags: a core in WFI with an interrupt already pending is parked for it.
- **`PokesStayRouted`** when firmware is not patient. `send_sgi` assigns the set
  of targets instead of adding to it.
- **`TicksArrive`.** Only `Board.service_interrupts` samples the timers, and a
  board with a cluster never gets there.

- **`EveryStoreLands`** when ERET follows a store with no DSB between them
  (`Fenced` FALSE). `exception_return` restores the lower level and flushes the
  TLB before it drains (`arm_v8.py:766-768`), so what the upper level has stored
  is translated again as if the lower level had made it. In the shortest run a
  hypervisor skips a store its guest was refused, puts its registers back and
  returns; its own store to its stack is still pending, is looked up in the
  guest's space, meets a stage-2 permission fault and is gone, and the
  hypervisor is entered for a fault of its own address. On the benches of
  `AArch64` every ERET follows a DSB (`Fenced` TRUE). No document of the
  repository asks for one: it is there because a run whose properties fail at
  once shows nothing else, and everything the passing run says of levels holds of
  software that does the same.

`PROJECT.json` quotes the line each of them contradicts.

### Bounds, and why they are enough

- *Memory.* `MCMemorySystem` runs two kinds of software, chosen by `test`. Free:
  two cores and accesses `Overlapping` (two bytes and the pair): an
  overlap, a disjoint pair and a partial cover exist, and a third core adds no
  new relation to a property about two; `p0` is the first of the two, which are
  alike. `Capacity` 1 lets a buffer spill, `Latency` 2 keeps stores pending over
  an instruction, `Horizon` 2 prunes the history, `Ticks` 4 bounds the
  instructions. The programs of `Litmus` need three cores and up to eleven
  instructions (`MaxClock`), with a buffer of two, and run to their ends; the
  theorem on them has no such bound. The runs whose clock is bounded end in
  states without a successor; those cfgs say `CHECK_DEADLOCK FALSE`, no others do.
- *A64.* Registers of 16 bits (`XLog` 4): halves, sign, carry and shift by the
  register size all occur. Addresses have 12 physical bits; granules are
  2^`PageBits` and its two successors.
- *ARMv6.* Words of twelve bits; the operands are both ends of the signed and
  unsigned range and one. One IRQ and one FIQ, at any point. The program `reach`
  aborts in single loads and stores with and without write-back, STM and STRD, and
  in LDRD and LDM after their first word; the handler skips the instruction or
  does it again.
- *GIC.* Two cores and one interrupt of each kind (SGI, private, shared), each
  level or edge; priorities are equal there (`Level`), the theorems take any.
  On the bench where firmware writes every register there is one core and the
  theorem speaks of the others.
- *Cluster.* Two cores, slices of two instructions, one store: a core can be
  cut off in the middle of a program and a store can outlive its turn. The
  instruction sets in `Programs` are chosen so that each pair of features that
  touch the same flag occurs together.
- *Wires.* FIFOs of one entry fill and overrun at once. `MaxWork` bounds the
  octets and dialogues, `MaxWords` makes Tegra dialogues carry at most one
  payload octet; the theorem on framing takes any length. The Broadcom GPIO
  block is used on one pin (`BcmPins`), the Tegra block on two.
- *Timer.* `Far` bounds how late a deadline can be counted: nothing compares
  below zero.

`SoftwareCs` is FALSE: with it TLC violates `DialoguesAreFrames`, because
`spi_tegra.py` never tells the slave when firmware clears `CS_SW_VAL` or takes
`CS_SW_HW` away, although the comment at `peripherals/spi_tegra.py:228` says
that clearing it releases the line. The property is about the controller's own
chip select, which is what the firmware in the repository uses.

### Fairness

Everything is driven by loops that nothing blocks, so fairness is weak and on
the step of the loop: `Cluster` (the scheduler goes on, the program may choose
any instruction), `Machine` (run is called again), `StoreLifetime` (its core is
given cycles), `TimerTick` (the board is stepped). `GicService` also assumes
that an interrupted core reads IAR and that a handler ends what it took, for
`PokesAreTaken` alone. No device and no firmware choice is fair: nothing is
owed to a wire that changes or a register somebody might write.

## 4. The proofs

Every theorem is about all values of the constants that satisfy its hypotheses.

| theorem | module | states, in the runs | hypothesis |
|---|---|---|---|
| `TypeCorrect` | `Memory_proofs` | `TypeOK` | - |
| `StoresStayInOrder` | `Memory_proofs` | `ProgramOrderPerByte` | - |
| `OwnStoresAreVisible` | `Memory_proofs` | `OwnStoresVisible` | - |
| `BarriersBoundLoads` | `Memory_proofs` | `NothingOlderThanSync` | - |
| `DeferredLoadsAreCurrent` | `Memory_proofs` | `DeferredLoadsReadNow` | - |
| `ReservationsStayFresh` | `Memory_proofs` | `ReservationFresh` | `Model = "sequential"` |
| `ReadsAreCoherent` | `Memory_proofs` | `CoherentReads` (of `MemoryOrder_adversarial`) | `Model # "adversarial"` |
| `SequentialModelIsSC` | `Memory_proofs` | `SequentiallyConsistent` | `Model = "sequential"` |
| `OrderedProgramsHold` | `Litmus_proofs` | `NoForbiddenOutcome` | the tests are among `AllTests`, on three different cores and two registers |
| `ServiceTypeCorrect` | `GicService_proofs` | - | - |
| `ServedOnce` | `GicService_proofs` | `OneServer` | firmware does not write the active registers |
| `EdgesStayLatched` | `GicService_proofs` | `EdgesAreLatched` | - |
| `LevelsFollowLines` | `GicService_proofs` | `LevelsFollowTheirLine` | firmware writes neither the pending bits nor the configuration |
| `PatientPokesArrive` | `GicService_proofs` | `PokesStayRouted` | `Patient` |
| `RegistersStayFormed` | `GicService_proofs` | `RegistersHold` | - |
| `TicksAreReal` | `GicService_proofs` | `TickIsReal` | core 0 exists, `Ticks` and `Far` natural, `Delays` integers |
| `ClusterTypeCorrect` | `Cluster_proofs` | - | - |
| `EventsEndWaits` | `Cluster_proofs` | `NoSleepThroughEvent` | - |
| `HaltedOnTheLoop` | `Cluster_proofs` | `HaltedIsSpinning` | - |
| `EventsStayLatched` | `Gpio_proofs` | `GpioEventsStay` | - |
| `HaltedBoardsAreParked` | `Gpio_proofs` | `HaltedIsParked` | a slice is a natural number, the pins include both wired ones |
| `InputsTakeTheLevel` | `Gpio_proofs` | `InputsFollowWires` | the same |
| `LinkTypeCorrect` | `SerialLink_proofs` | - | - |
| `DialoguesInFrames` | `SerialLink_proofs` | `DialoguesAreFrames` | `SoftwareCs = FALSE` |
| `PollsStayTrue` | `SerialLink_proofs` | `PollsHold` | - |
| `FaithfulLink` | `SerialLink_proofs` | `LinkIsFaithful` | `SoftwareCs = FALSE`, `BrkClearsFifos = FALSE` |
| `UserStaysConfined` | `Armv6_proofs` | `UserConfined` | - |
| `CycleSteps` | `Armv6_proofs` | - | the opcode is one of the 272 |

Besides those the modules assume only what their `ASSUME`s say of the
constants: a core is not the value that means none, interrupt numbers and
priorities fit their registers, the FIFOs have a depth. Of the ARMv6 core
`KernelAssumption` says that it is the one the shipped configuration builds, with
the security extension and without the virtualization extension, that the
kernel's addresses fit a word, and that the user programs and handler styles tried
are among those `Armv6Kernel` defines. TLC evaluates these assumptions in the runs.

The hypotheses are the code's own limits. With the active registers in
firmware's hands nothing stops it from ending what another core services; a
pending bit can be written for a level interrupt; a buffered store breaks the
reservations of others before it lands, so freshness is a promise of the default
model; a deferred load is read when its register is, after later loads or not.

### The arguments

**Memory.** `TypeInv` is `TypeOK` and `Numbered`: no pending store carries a
number beyond its core's count. `Ordered` strengthens `ProgramOrderPerByte`: the
byte a store replaces may enter the log as its first record, so the present
holder of a byte must be ordered too, and numbers must be unique. It is
inductive because whichever entry `IsNextOut` picks, no older one of the same
core overlaps it. `Dated` ties the log to memory, the clock and what each core
knows of its own stores; with it `OwnStoresVisible` and `NothingOlderThanSync`
follow from how `ReadTime` chooses its moment. `PendingSeen` - a load is pending
only where loads are reordered and its address was seen - gives
`DeferredLoadsReadNow`. `ReservationFresh` is inductive beside these once no
store waits in a buffer, since a store then breaks reservations and enters the
log in one step.

`CoherentReads` compares the log times of two writes a core was answered with,
and the log does not yet hold what waits in a buffer; a core may load its own
pending store. `ReadInv` therefore keeps three things. Registers were loaded in
the past. What they hold is `Known`: issued and, if another core's, published.
And any two of them are `InTurn`: not the other way round in the log, and while
the earlier one waits in the buffer the later one waits behind it. `ByteStep`
says that a step does one of three things to a byte (nothing, a core issues a
store to it, a core's oldest or next store reaches memory), so `Known` and
`InTurn` are shown to survive three cases and not every action. A load finds
what the core `Sees`, and `SeesLast` says that this is never behind anything
`Known`; it needs the buffer to be searched newest first and `Ordered`.

**Sequential consistency.** `SeqInv` says that under the sequential model
buffers are empty and no load is pending; then each step of `MemorySystem` is a
step of `SequentialMemory` or leaves its variables alone, action by action.

**Litmus.** `NoForbiddenOutcome` is about the end of a run; what leads there is
an invariant in three layers. The first is about a byte, for any program:
`Held` (memory no longer has what it began with), `Waiting` (a core still
buffers a store to it), and `Certain`, which says that a core cannot be
answered with the beginning any more: memory is new and, if the log still goes
back to the start, it also has a later write from before the core's last
synchronisation. Certainty survives the other cores' stores and the pruning of
the log (`CommitCertain`, which needs `Dated` and `Founded`: only what a byte
began with is older than the start), a barrier or an acquire makes what is held
certain, and a load of a certain byte is new (`Answer`). The second layer
(`ProgInv`) is what any straight-line program keeps: what was stored and what
memory and the buffers hold is the same thing (`Accounted`), what was stored
before a synchronising instruction is in memory behind it (`Flushed`), and a
load is outstanding only right behind itself, so it is never read again
(`Deferral`; the tests never store right behind an LDR, as `Proper` says). The third layer is one
statement per shape of program, not per test: an observer that found Y, and
what Y was caused by, is certain of X behind its barrier and has it behind its
second load (`PassingInv`); of two programs that cross, one is certain of the
other's store once both have synchronised (`CrossingInv`); of two that load
first, one has not loaded what the other stores (`FollowingInv`). Each test is
shown to have its shape. Any further core is idle, or one more observer.

**GIC.** `OneServer` needs only its types to be inductive, because the
candidates of an acknowledgement exclude what is active in the slot; the two
ways of keeping active state (a set of slots, and targets per SGI) are one
notion, `IsActiveFor`. `EdgeInv` adds that only edge-triggered interrupts owe an
edge. `TickInv` has two halves. On a board of one core (`SampledInv`) the
sampled line is the timer's whenever the core executes, and nothing but its slot
is ever pending; on a cluster (`UnsampledInv`) nothing is ever pending, which is
the finding `TicksArrive` seen from the other side.

**Cluster.** `ClusterInv` is the type, `NoSleepThroughEvent` and
`HaltedIsSpinning` together. The first rests on the executing core being a
running one, the second on the scheduler's verdict: a core found on one place
twice with no exception in between executed nothing but its loop, and whatever
takes it from there is an interrupt that would return to it.

**Wires.** `PortInv` needs a controller's last level seen to be the level there
is, which `GpioEventsStay` says itself; `BcmRefreshes` and `TegraRefreshes` say
what a refresh adds, and every access is a record update followed by a refresh,
or one that moves no level. `MachineInv` adds whose turn it is and that
interrupts are masked exactly outside main and the halt loop, so a board that
stays on its loop has none waiting. `FrameInv` numbers the frames: the dialogue
going on belongs to the current frame and every earlier dialogue to one of its
own; the Tegra controller leaves no dialogue open between two transfers.
`LinkTypeOK` carries the types of the FIFOs through each access, including the
transfers that a Tegra access makes.

**Faithfulness.** `FaithInv` has a part for each direction and one for the order
of words. `Replies`: what was driven on MISO, followed by what is still queued,
is what firmware queued, and nothing queued looks like an idle line. `Delivers`:
what firmware heard and what waits for it is the payload of the write dialogues
and of the one going on; it needs RXE set, and that a block that is not selected
awaits an address and holds nothing of a dialogue, or the next `Select` would
drop octets. That in turn needs the slave to be selected exactly while the
BCM2835 asserts its line, and never between two Tegra transfers, which is why
software chip select is excluded: it leaves a selection behind (section 3,
bounds). `InOrder` says that waiting words are later than all that were sent.
The sequences involved are concatenations of any length. `FlattenSeq` is a
recursive function, so its value on one more piece is an induction: a least
counterexample exists (`LeastNumber`, from the well-foundedness of strict
inclusion among finite sets, since the induction theorems of the library take an
operator), which gives existence, uniqueness and type of the function, and from
those `FlattenAppend`, the one fact about it the invariant uses.

**ARMv6.** `UserConfined` is an action property of a core with 272 opcodes, so the
proof is about instructions, not about programs. `Keeps(s, t)` is what an
instruction owes: the processor has its shape (registers, an SPSR per mode, the
fields of CPSR), the vectors are where they were, and from user mode it is still
in user mode with the same masks, the same registers of other modes and the same
SPSRs. It is transitive and lets the lemmas climb from a register write to
`OpcodeKeeps`, which holds of any opcode with any fields, the ones no decoder
produces included. Two places need care. Misaligned accesses go byte by byte and
LDM and STM register by register, as functions defined by recursion; that such a
function exists at all is a least counterexample (`PutExists`, `GotExists`,
`ListLoadedExists`, `ListStoredExists`), and that each of its states keeps is
another. And some instructions write what `Keeps` forbids (CPS, MSR, SRS, RFE, the
returns): the lemmas about them rest on the check each makes of the mode, and
would fail for one that lacks it. Exceptions are what leaves user mode, so a cycle
is only shown to satisfy `Steps`: it keeps, or it arrives at a vector with IRQs
masked and user mode in the SPSR (`CycleSteps`); the same of the entries of IRQ and
FIQ. `BenchInv` carries this through a run: `Kernels`, that the shape is there and
the vectors are the kernel's, is preserved from reset on, and whatever is fetched
has an opcode of the processor (`InstructionExecutable`, handler by handler and
program by program). The recursions of `Armv6Memory` and `Armv6LoadStore` name
their step (`PutOne`, `LoadOne`) for the sake of this proof.

### What stays with TLC

Liveness (`StoresLand`, `WaitersGetOut`, `InterruptsWake`, `PokesAreTaken`,
`SignalsCross`, `LastStoresLand`) and anything about ENABLED. The A64 bench
(`EncodingsMean`, `TransfersMean`, `LevelsResume`, `AddressesHold`, `Confined`) and,
of ARMv6, `ResultsAreRight`, `OpcodesAgree`, `CallsReturn`, `ResumesExactly`,
`KernelMemoryKept` and `AbortsKeepRegisters`: they are about what an instruction or a whole
program computes, through recursion over bits and lists, where `UserConfined` is
about what no instruction may touch. And the other
instructions a litmus program could use: the theorem is about LDR, LDAR, STR,
STLR and DMB on single bytes, and about programs of the shapes named above.

## 5. What is not modelled

- MMIO framework, UARTs, system timer, I2C controller, PCA9685 and motor HAT,
  lidar, telemetry: planned (section 7). Dynamics of motors and ranging are real
  arithmetic; assembling firmware, plotting, traces and replay have no state
  worth a model. Floating point delegates to host doubles.
- ARMv6: the decoders and the concrete encodings, which only cut fields; the
  272 opcodes they lead to are all there. Exclusive monitors, coprocessors and
  caches are stubs in the code and here.
- Memory: with translation on, one core. Load reordering, other cores'
  exclusives and the history are in `MemorySystem`, translation in `A64Memory`,
  and the two are not composed; the TLB of another core is therefore absent.
- A64: SVE, single-stepping (PSTATE.SS), nG and the NS output bit, the PSCI
  handler (it is in `Cluster`), the exception counter. Few registers
  (`Xs`) and the fields of system registers that steer something; table entries
  and system registers are packed into the short word. Code is a constant, not
  in memory. The age of a store is capped at its latency. In the AArch32
  application few A32 and T32 opcodes run, and no interrupt arrives. Software
  does a TLBI after a table change, on which the code flushes
  (`armv8/mmu.py:116`), and in the passing run a DSB before ERET, which no
  document asks for: `A64Kernel_eret` is what happens without it.
- GIC: register offsets and the packing of several fields in a word.
- Cluster: instructions by their effect on the scheduler only.
- Timer: CNTFRQ, the wrap of the 64-bit counter and of the signed TVAL.
- Boards: memory maps and the loading of images.

## 6. Observations

The model follows the code in all of these; only the five findings (section 3)
have a run. The rest came up while reading, and most are about a line a document or a comment
says otherwise about.

*Memory and cluster.*
- A reservation is broken when a store issues (`armv8/arm_v8.py:425`), not when
  it lands: with a buffer, a core may reserve and succeed in between.
  `ReservationFresh` is therefore checked and proved for the default model only.
- What `prune` (`armv8/memory_history.py:110`) forgets too early makes a load
  answer with something newer, never with something older: as its comment says
  (`:17-18`), reordering only becomes less visible, so no property of the runs can
  miss what is pruned.
- Under the adversarial model the oldest store may never land while its core
  goes on storing elsewhere: `retire` looks at the oldest entry's age and lets
  the newest go, although `armv8/store_buffer.py:60` promises that "every store
  lands". A program that stops storing does publish everything (`LastStoresLand`).
- `drain` empties the buffer before it writes (`:169`): a store whose translation
  faults takes the others with it.
- CPU_OFF leaves a core's stores in its buffer until `run` ends
  (`armv8/cluster.py:231`).
- A core in WFE takes an interrupt and stays in WFE (`cluster.py:208-213`); a
  core that is `halted` and unmasked takes one and stays `halted`.
- A counter stands still while its core waits in WFI (`cluster.py:248`).

*Exception levels and translation.*
- Stage 2 is skipped for a guest whose SCTLR_EL1.M is 0, although
  `armv8/registers.py:593` says HCR_EL2.VM turns it on for EL0 and EL1;
  `armv8/mmu.py:24` still says that stage 2 is not implemented.
- Writes to TTBR0_EL2, TCR_EL2 and SCTLR_EL2 do not flush the TLB, which
  `armv8/mmu.py:104` says is flushed "whenever anything that could change a
  translation is written".
- An IRQ in AArch32 saves a PC that is not where "the PC already points"
  (`arm_v8.py:781-787`).
- `decoders/loads_and_stores.py:88` decodes the single-structure SIMD loads and
  stores as multiple structures.
- ERET to a higher level is not refused; WXN is always SCTLR_EL1's; an alignment
  fault writes FAR_EL1 at every level; the IT state is lost across an exception.

*ARMv6.*
- The four shifts by a register, `ldrsh_register` and every
  `*_register_shifted_register` opcode execute whatever their condition says;
  `Unconditional` (`Armv6Routines`) lists them, and what is skipped is checked of
  all others.
- `ssat` and `ssat16` leave a negative result unextended, as a number of the
  saturated width: `ResultsAreRight` compares it modulo that width only.
- `bfi` inserts bits msbit:lsbit of Rn, not its low bits; `strexd` asks the
  monitor about four bytes of its eight; `subs_pc_lr_thumb` never restores CPSR.
- LDM and LDRD write registers before a later word can fault
  (`ldm_arm.py:21-23`, `ldrd_immediate.py:37-38`); an LDM that has its base among
  them and is done again then loads from elsewhere. `AbortsKeepRegisters` excepts
  what such an instruction loads.
- The VMSA walk tests PD1 where TTBR0 is used.

*Devices.*
- The Tegra software chip select is never released (section 3, bounds).

## 7. The plan

Done so far: the memory system with the litmus programs, GIC, cluster and boards
with their theorems; the A64 and ARMv6 cores with their benches, and that no ARMv6
instruction lets user mode out of its bounds. Still to do, in this order:

1. Lemmas on the operators of the A64 and ARMv6 modules (sign and carry of an
   addition, what a rotation or a bit mask keeps), so that the benches' checks on
   a few operands rest on statements for every width.
2. The interrupt path of the cluster: an interrupt taken by a core is one the
   GIC offered it.
3. `StoreLifetime` as an abstraction of one core's buffer in `MemorySystem`.
4. The UARTs with the MMIO framework, whose narrow accesses read first; then the
   motor HAT, whose bytewise writes notify in between.
