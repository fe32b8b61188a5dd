------------------------------- MODULE AArch64 -------------------------------
(***************************************************************************)
(* The benches of the AArch64 cores: bench is "memory" for several cores   *)
(* on one memory (MemoryOrder), "arithmetic" and "transfers" for single    *)
(* encodings of one core (A64Arithmetic, A64Transfers) and "kernel" for    *)
(* its exception levels (A64Kernel).  Each runs alone, and the variables   *)
(* of the others stand still.                                              *)
(***************************************************************************)
EXTENDS MCMemoryOrder

CONSTANTS XLog, Xs, HalfBit, PhysicalBits, PageBits, EntryBits, InstrBytes, VectorSize

ASSUME RegistersAssumption ==
  /\ XLog \in Nat /\ XLog >= 4
  /\ {0, 1, 30} \subseteq Xs /\ Xs \subseteq 0..30

ASSUME AddressesAssumption ==
  /\ {HalfBit, PhysicalBits, PageBits, EntryBits} \subseteq Nat
  /\ EntryBits < PageBits /\ PageBits + 2 < PhysicalBits
  /\ PhysicalBits <= HalfBit /\ HalfBit < 2^XLog
  /\ {InstrBytes, VectorSize} \subseteq Nat \ {0}

VARIABLES bench, job, done, core, left

Encodings == INSTANCE A64Arithmetic
Transfers == INSTANCE A64Transfers WITH Granule <- 16
Kernel == INSTANCE A64Kernel WITH Granule <- 16, Fenced <- TRUE

aavars == <<ovars, bench, job, done, core, left>>

Single == <<job, done, core, left>>
NoKernel == core = "none" /\ left = 0

AArch64Init ==
  /\ bench \in {"memory", "arithmetic", "transfers", "kernel"}
  /\ OInit
  /\ CASE bench = "memory" -> job = "none" /\ done = <<>> /\ NoKernel
       [] bench = "arithmetic" -> Encodings!ArithmeticInit /\ NoKernel
       [] bench = "transfers" -> Transfers!TransfersInit /\ NoKernel
       [] bench = "kernel" -> Kernel!KernelInit /\ done = <<>>

MemoryStep == bench = "memory" /\ ONext /\ UNCHANGED <<bench, Single>>
EncodingStep == bench = "arithmetic" /\ Encodings!ArithmeticNext /\ UNCHANGED <<ovars, bench, core, left>>
TransferStep == bench = "transfers" /\ Transfers!TransfersNext /\ UNCHANGED <<ovars, bench, core, left>>
KernelStep == bench = "kernel" /\ Kernel!KernelNext /\ UNCHANGED <<ovars, bench, done>>

AArch64Next == MemoryStep \/ EncodingStep \/ TransferStep \/ KernelStep

AArch64Spec == AArch64Init /\ [][AArch64Next]_aavars

-----------------------------------------------------------------------------
\* Every A64 encoding that computes does what the architecture says of it, or is refused
\* where it is reserved (see A64Arithmetic).
EncodingsMean == bench = "arithmetic" => Encodings!EncodingsMean

\* Every A64 load and store moves exactly the bytes it names, or leaves the base register and
\* its own effects undone when it faults (see A64Transfers).
TransfersMean == bench = "transfers" => Transfers!TransfersMean

\* An application finds its registers, its flags and its memory as it left them, whatever
\* calls, faults, interrupts and other threads came in between (see A64Kernel).
LevelsResume == bench = "kernel" => Kernel!LevelsResume

\* With a TLBI behind each change of a table, no access of this core goes by a translation the
\* tables no longer give, and no store pending at an exception is written by the translation
\* of the level entered (see A64Kernel, and there EveryStoreLands for what ERET does).
AddressesHold == bench = "kernel" => Kernel!AddressesHold

\* What the kernel or the hypervisor keeps to itself is neither seen nor changed by an
\* application (see A64Kernel).
Confined == bench = "kernel" => Kernel!Confined
=============================================================================
