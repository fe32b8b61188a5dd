------------------------------- MODULE Gic400 -------------------------------
(***************************************************************************)
(* The interrupt controller of gic400.py: the distributor's banked and     *)
(* shared state, the CPU interfaces, and the register accesses that change *)
(* them.  Every access names the core it is made for, which the scheduler  *)
(* leaves in gic.current_cpu before it steps that core.                    *)
(*                                                                         *)
(* BankedInterruptState is a set of slots: an interrupt below SPI_BASE has *)
(* one for each core, a shared one has a single slot.                      *)
(***************************************************************************)
EXTENDS Integers, FiniteSets

CONSTANTS
  Cpu,         \* CPU interfaces
  Shared,      \* not a core: the bank of the shared interrupts
  Interrupt,   \* interrupt IDs in use
  Level,       \* priorities and priority masks in use
  Firmware     \* the register accesses firmware makes

SPURIOUS_ID == 1023
SPI_BASE == 32

ASSUME CpuAssumption == Shared \notin Cpu
ASSUME InterruptAssumption == Interrupt \subseteq 0..255
ASSUME LevelAssumption == Level \subseteq 0..255

VARIABLES
  distributor_enabled, cpu_interface_enabled, priority_mask,
  enabled, pending, active, lines,   \* slots
  config,                            \* the edge-triggered interrupts
  priority, targets,
  sgi_targets, sgi_active            \* per SGI: the cores that owe it an IAR, an EOI

interface == <<distributor_enabled, cpu_interface_enabled, priority_mask>>
routing   == <<config, priority, targets>>
sgis      == <<sgi_targets, sgi_active>>
gvars == <<interface, enabled, pending, active, lines, routing, sgis>>

-----------------------------------------------------------------------------
SGI == {i \in Interrupt : i < 16}
SPI == {i \in Interrupt : i >= SPI_BASE}

\* BankedInterruptState.get and set: where interrupt i is kept for core c.
Slot(i, c) == <<i, IF i < SPI_BASE THEN c ELSE Shared>>
Slots == {Slot(i, c) : i \in Interrupt, c \in Cpu}

Assign(S, slot, value) == IF value THEN S \cup {slot} ELSE S \ {slot}

\* _is_active_for.
IsActiveFor(i, c) == IF i < 16 THEN c \in sgi_active[i] ELSE Slot(i, c) \in active

\* targets_cpu.
TargetsCpu(i, c) ==
  CASE i < 16 -> c \in sgi_targets[i]
    [] i \in 16..(SPI_BASE - 1) -> TRUE
    [] OTHER -> c \in targets[i]

\* MUTANT: an interrupt being serviced is offered again.
Candidates_WhileActive(c, P) ==
  {i \in Interrupt : Slot(i, c) \in P \cap enabled /\ TargetsCpu(i, c)}

\* _candidates, when the slots in P are pending.
Candidates(c, P) ==
  {i \in Interrupt : /\ Slot(i, c) \in P \cap enabled
                     /\ ~IsActiveFor(i, c)
                     /\ TargetsCpu(i, c)}

\* The lowest priority value wins, then the lower ID.
Best(S) ==
  CHOOSE i \in S : \A j \in S : priority[i] < priority[j] \/ (priority[i] = priority[j] /\ i <= j)

\* highest_priority_pending, SPURIOUS_ID for None.
HighestPriorityPending(c, P) ==
  LET best == Best(Candidates(c, P))
  IN  IF /\ distributor_enabled
         /\ Candidates(c, P) # {}
         /\ priority[best] < priority_mask[c]
      THEN best ELSE SPURIOUS_ID

\* irq_pending_for.
IrqPendingFor(c, P) ==
  c \in cpu_interface_enabled /\ HighestPriorityPending(c, P) # SPURIOUS_ID

-----------------------------------------------------------------------------
\* Out of reset.
GicInit ==
  /\ distributor_enabled = FALSE
  /\ cpu_interface_enabled = {}
  /\ priority_mask = [c \in Cpu |-> 255]
  /\ enabled = {} /\ pending = {} /\ active = {} /\ lines = {}
  /\ config = {}
  /\ priority = [i \in Interrupt |-> 160]
  /\ \E first \in Cpu : targets = [i \in Interrupt |-> {first}]
  /\ sgi_targets = [i \in SGI |-> {}]
  /\ sgi_active = [i \in SGI |-> {}]

\* MUTANT: an edge is lost when the interrupt is being serviced already.
SetLine_DropsWhileActive(i, c, level) ==
  LET slot == Slot(i, c)
      edge == level /\ slot \notin lines /\ slot \notin active
  IN  /\ lines' = Assign(lines, slot, level)
      /\ pending' = IF i \in config THEN Assign(pending, slot, edge \/ slot \in pending)
                    ELSE Assign(pending, slot, level)
      /\ UNCHANGED <<interface, enabled, active, routing, sgis>>

\* set_line.
SetLine(i, c, level) ==
  LET slot == Slot(i, c)
      edge == level /\ slot \notin lines
  IN  /\ lines' = Assign(lines, slot, level)
      /\ pending' = IF i \in config THEN Assign(pending, slot, edge \/ slot \in pending)
                    ELSE Assign(pending, slot, level)
      /\ UNCHANGED <<interface, enabled, active, routing, sgis>>

-----------------------------------------------------------------------------
(* The handshake.                                                          *)

\* MUTANT: the first core to acknowledge an IPI takes it for all of them.
AcknowledgeSgi_ForAll(c, i) ==
  /\ sgi_active' = [sgi_active EXCEPT ![i] = @ \cup {c}]
  /\ sgi_targets' = [sgi_targets EXCEPT ![i] = {}]
  /\ pending' = pending \ {Slot(i, c)}
  /\ UNCHANGED <<interface, enabled, active, lines, routing>>

\* acknowledge (GICC_IAR), an SGI: this core's copy alone is consumed.
AcknowledgeSgi(c, i) ==
  /\ sgi_active' = [sgi_active EXCEPT ![i] = @ \cup {c}]
  /\ sgi_targets' = [sgi_targets EXCEPT ![i] = @ \ {c}]
  /\ pending' = pending \ {Slot(i, c)}
  /\ UNCHANGED <<interface, enabled, active, lines, routing>>

\* acknowledge, any other interrupt.
AcknowledgeLine(c, i) ==
  /\ active' = active \cup {Slot(i, c)}
  /\ pending' = Assign(pending, Slot(i, c), i \notin config /\ Slot(i, c) \in lines)
  /\ UNCHANGED <<interface, enabled, lines, routing, sgis>>

\* A read of IAR that returns i.
Acknowledge(c, i) ==
  /\ HighestPriorityPending(c, pending) = i
  /\ i # SPURIOUS_ID
  /\ IF i < 16 THEN AcknowledgeSgi(c, i) ELSE AcknowledgeLine(c, i)

\* MUTANT: EOI leaves a level interrupt pending however its line stands.
EndOfInterrupt_Represents(c, i) ==
  /\ IF i < 16
     THEN /\ sgi_active' = [sgi_active EXCEPT ![i] = @ \ {c}]
          /\ UNCHANGED <<active, pending>>
     ELSE /\ active' = active \ {Slot(i, c)}
          /\ pending' = IF i \in config THEN pending ELSE pending \cup {Slot(i, c)}
          /\ UNCHANGED sgi_active
  /\ UNCHANGED <<interface, enabled, lines, routing, sgi_targets>>

\* end_of_interrupt (GICC_EOIR).
EndOfInterrupt(c, i) ==
  /\ IF i < 16
     THEN /\ sgi_active' = [sgi_active EXCEPT ![i] = @ \ {c}]
          /\ UNCHANGED <<active, pending>>
     ELSE /\ active' = active \ {Slot(i, c)}
          /\ pending' = IF i \in config THEN pending
                        ELSE Assign(pending, Slot(i, c), Slot(i, c) \in lines)
          /\ UNCHANGED sgi_active
  /\ UNCHANGED <<interface, enabled, lines, routing, sgi_targets>>

\* send_sgi (GICD_SGIR).
SendSgi(i, cpus) ==
  /\ pending' = pending \cup {Slot(i, c) : c \in cpus}
  /\ targets' = [targets EXCEPT ![i] = cpus]
  /\ sgi_targets' = [sgi_targets EXCEPT ![i] = cpus]
  /\ UNCHANGED <<interface, enabled, active, lines, config, priority, sgi_active>>

-----------------------------------------------------------------------------
(* Configuration registers, one interrupt at a time.                       *)

\* GICD_ISENABLER and ICENABLER.
WriteEnable(c, i, on) ==
  /\ enabled' = Assign(enabled, Slot(i, c), on)
  /\ UNCHANGED <<interface, pending, active, lines, routing, sgis>>

\* GICD_ISPENDR and ICPENDR.
WritePending(c, i, on) ==
  /\ pending' = Assign(pending, Slot(i, c), on)
  /\ UNCHANGED <<interface, enabled, active, lines, routing, sgis>>

\* GICD_ISACTIVER and ICACTIVER.  An SGI's active state is kept elsewhere and
\* this write does not reach it.
WriteActive(c, i, on) ==
  /\ active' = Assign(active, Slot(i, c), on)
  /\ UNCHANGED <<interface, enabled, pending, lines, routing, sgis>>

\* GICD_IPRIORITYR, ITARGETSR and ICFGR.
WriteRouting(i) ==
  /\ \/ \E p \in Level : priority' = [priority EXCEPT ![i] = p] /\ UNCHANGED <<config, targets>>
     \/ \E cpus \in SUBSET Cpu :
          targets' = [targets EXCEPT ![i] = cpus] /\ UNCHANGED <<config, priority>>
     \/ \E edge \in BOOLEAN :
          config' = Assign(config, i, edge) /\ UNCHANGED <<priority, targets>>
  /\ UNCHANGED <<interface, enabled, pending, active, lines, sgis>>

\* GICD_CTLR, GICC_CTLR and GICC_PMR.
WriteInterface(c) ==
  /\ \/ \E on \in BOOLEAN :
          /\ distributor_enabled' = on
          /\ UNCHANGED <<cpu_interface_enabled, priority_mask>>
     \/ \E on \in BOOLEAN :
          /\ cpu_interface_enabled' = Assign(cpu_interface_enabled, c, on)
          /\ UNCHANGED <<distributor_enabled, priority_mask>>
     \/ \E mask \in Level :
          /\ priority_mask' = [priority_mask EXCEPT ![c] = mask]
          /\ UNCHANGED <<distributor_enabled, cpu_interface_enabled>>
  /\ UNCHANGED <<enabled, pending, active, lines, routing, sgis>>

\* The accesses of Firmware that set interrupts up.
Configure(c) ==
  \/ \E i \in Interrupt, on \in BOOLEAN :
       \/ "ENABLER" \in Firmware /\ WriteEnable(c, i, on)
       \/ "PENDR"   \in Firmware /\ WritePending(c, i, on)
       \/ "ACTIVER" \in Firmware /\ WriteActive(c, i, on)
  \/ "ROUTING" \in Firmware /\ \E i \in Interrupt : WriteRouting(i)
  \/ "CTLR" \in Firmware /\ WriteInterface(c)

GicNext ==
  \E c \in Cpu :
    \/ Configure(c)
    \/ \E i \in Interrupt \ SGI, level \in BOOLEAN : SetLine(i, c, level)
    \/ \E i \in SGI, cpus \in SUBSET Cpu : SendSgi(i, cpus)
    \/ \E i \in Interrupt : Acknowledge(c, i) \/ EndOfInterrupt(c, i)

GicSpec == GicInit /\ [][GicNext]_gvars

-----------------------------------------------------------------------------
\* Slots hold banked and shared interrupts only, and an SGI is never owed by, or
\* active on, anything but a core.
TypeOK ==
  /\ distributor_enabled \in BOOLEAN
  /\ cpu_interface_enabled \subseteq Cpu
  /\ priority_mask \in [Cpu -> 0..255]
  /\ \A S \in {enabled, pending, active, lines} : S \subseteq Slots
  /\ config \subseteq Interrupt
  /\ priority \in [Interrupt -> 0..255]
  /\ targets \in [Interrupt -> SUBSET Cpu]
  /\ sgi_targets \in [SGI -> SUBSET Cpu]
  /\ sgi_active \in [SGI -> SUBSET Cpu]
=============================================================================
