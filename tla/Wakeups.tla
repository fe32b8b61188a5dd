------------------------------- MODULE Wakeups -------------------------------
(***************************************************************************)
(* What ends a wait.  The two ways firmware waits for another core are run *)
(* on the cluster: a flag with WFE and SEV, and a flag with WFI and an     *)
(* interrupt sent between cores.                                           *)
(*                                                                         *)
(*   waiter, "event"         waiter, "ipi"           setter                *)
(*     test: flag? out         mask:   daifset         store: str flag     *)
(*     wait: wfe; b test       test:   flag? out       fence: dsb          *)
(*                             wait:   wfi             signal: sev or sgi  *)
(*                             unmask: daifclr; b mask                     *)
(*                                                                         *)
(* Every core works for a while before it starts, so that the signal may   *)
(* come at any point of a waiter's loop.  Besides them, programs that wait *)
(* for interrupts, send them and service them, with a device interrupting  *)
(* core 0 (kind is "service").                                             *)
(***************************************************************************)
EXTENDS Cluster

CONSTANT MaxWork   \* BOUND: instructions a core works before it starts

VARIABLES
  kind,     \* "event" or "ipi": which of the two programs the cores run
  setter,   \* the core that sets the flag; every other core waits for it
  pc, work

hvars == <<cvars, kind, setter, pc, work>>

Waiters == Cpu \ {setter}

HInit ==
  /\ ClusterInit
  /\ kind \in {"event", "ipi"}
  /\ setter \in Cpu
  /\ pc = [c \in Cpu |-> "work"]
  /\ work \in [Cpu -> 0..MaxWork]

At(label) == core[turn].place = "program" /\ pc[turn] = label
Goto(label) == pc' = [pc EXCEPT ![turn] = label] /\ UNCHANGED work

\* The store has left the setter's buffer.
FlagIsSet == issued[setter] = 1 /\ unpublished[setter].count = 0

Works ==
  /\ At("work") /\ Plain
  /\ IF work[turn] > 0
     THEN work' = [work EXCEPT ![turn] = @ - 1] /\ UNCHANGED pc
     ELSE Goto(IF turn = setter THEN "store" ELSE IF kind = "ipi" THEN "mask" ELSE "test")

Waits ==
  \/ At("mask") /\ Mask(TRUE) /\ Goto("test")
  \/ At("test") /\ Plain /\ Goto(IF FlagIsSet THEN "out" ELSE "wait")
  \/ At("wait") /\ kind = "event" /\ WaitForEvent /\ Goto("test")
  \/ At("wait") /\ kind = "ipi" /\ WaitForInterrupt /\ Goto("unmask")
  \/ At("unmask") /\ Mask(FALSE) /\ Goto("mask")

Sets ==
  \/ At("store") /\ BufferedStore /\ Goto("fence")
  \/ At("fence") /\ Drain /\ Goto("signal")
  \/ At("signal") /\ kind = "event" /\ SendEvent /\ Goto("out")
  \/ At("signal") /\ kind = "ipi" /\ Interprocessor(1, Waiters) /\ Goto("out")

\* The interrupt handler acknowledges, ends and returns.
Handles ==
  /\ \/ core[turn].place = "vector" /\ ReadIar
     \/ core[turn].place = "handler" /\ WriteEoir
     \/ core[turn].place = "handler" /\ core[turn].iar = SPURIOUS_ID /\ ExceptionReturn
  /\ UNCHANGED <<pc, work>>

Schedules == (DeliverInterrupts \/ SkipOff \/ SelfBranch) /\ UNCHANGED <<pc, work>>

Leaves == At("out") /\ GoToLoop /\ UNCHANGED <<pc, work>>

HNext ==
  /\ Schedules \/ Works \/ Waits \/ Sets \/ Handles \/ Leaves
  /\ UNCHANGED <<kind, setter>>

HSpec == HInit /\ [][HNext]_hvars /\ WF_hvars(HNext)

-----------------------------------------------------------------------------
\* However the setter's store, barrier and signal fall into a waiter's loop, every
\* waiter sees the flag and gets out: the signal is neither missed between the
\* test and the wait, nor does it come before the flag it announces.
WaitersGetOut == \A w \in Cpu : <>(kind \in {"event", "ipi"} /\ w # setter => core[w].halted)

-----------------------------------------------------------------------------
WakeupInit ==
  \/ HInit
  \/ /\ kind = "service"
     /\ ClusterInit
     /\ setter = 0 /\ pc = <<>> /\ work = <<>>

Serves ==
  \/ DeliverInterrupts
  \/ WaitForInterrupt \/ ReadIar \/ WriteEoir \/ ExceptionReturn
  \/ \E on \in BOOLEAN : Mask(on)
  \/ \E target \in Cpu : Interprocessor(1, {target})

Scheduled ==
  \/ kind \in {"event", "ipi"} /\ HNext
  \/ kind = "service" /\ Serves /\ UNCHANGED <<kind, setter, pc, work>>

Device ==
  /\ kind = "service" /\ \E i \in Wired : DeviceLine(i)
  /\ UNCHANGED <<kind, setter, pc, work>>

WakeupSpec == WakeupInit /\ [][Scheduled \/ Device]_hvars /\ WF_hvars(Scheduled)
=============================================================================
