----------------------------- MODULE TimerTick -----------------------------
(***************************************************************************)
(* The architected timer of each core (generic_timer.py) and the way its   *)
(* interrupt takes: Board.sample_timer puts its level on the banked PPI 30 *)
(* of the GIC, and the handler acknowledges, rearms, ends and returns.  A  *)
(* board of one core samples after every instruction (Board.step); a board *)
(* of several is stepped by its cluster, which refreshes the GIC only from *)
(* the devices on the map (Cluster.step_core).                             *)
(*                                                                         *)
(* Of the 64-bit counter and compare value the difference is kept, which   *)
(* is what the condition and TVAL are about; the counter is far from its   *)
(* wrap.                                                                   *)
(***************************************************************************)
EXTENDS Gic400

CONSTANTS
  Ticks,         \* ticks_per_instruction
  Delays,        \* what firmware writes to TVAL, or its negative
  Far            \* BOUND: a condition that has held longer counts as this long

TIMER_PPI == 30

VARIABLES
  timer,         \* each core's timer: CVAL - CNTPCT, ENABLE and IMASK
  cpu,           \* each core: what its firmware is about to do, PSTATE.I, WFI
  step           \* whose turn it is, and whether it executes or is serviced next
tickVars == <<gvars, timer, cpu, step>>

SingleCore == Cardinality(Cpu) = 1

\* istatus and irq_pending.
Istatus(t) == t.enabled /\ t.togo <= 0
TimerLine(t) == Istatus(t) /\ ~t.masked

\* tick, before every instruction.
NoLater(n) == IF n < 0 - Far THEN 0 - Far ELSE n
Ticked(t) == [t EXCEPT !.togo = NoLater(@ - Ticks)]

TimersOff ==
  /\ timer = [c \in Cpu |-> [togo |-> 0, enabled |-> FALSE, masked |-> FALSE]]
  /\ cpu = [c \in Cpu |-> [at |-> "main", masked |-> FALSE, wfi |-> FALSE, iar |-> SPURIOUS_ID]]
  /\ step = [of |-> CHOOSE c \in Cpu : TRUE, doing |-> IF SingleCore THEN "execute" ELSE "service"]

\* Firmware has enabled the GIC and its timer interrupt; the timer is still off.
TickInit ==
  /\ distributor_enabled = TRUE /\ cpu_interface_enabled = Cpu
  /\ priority_mask = [c \in Cpu |-> 255]
  /\ enabled = Slots /\ pending = {} /\ active = {} /\ lines = {} /\ config = {}
  /\ priority = [i \in Interrupt |-> 160]
  /\ targets = [i \in Interrupt |-> Cpu]
  /\ sgi_targets = [i \in SGI |-> {}] /\ sgi_active = [i \in SGI |-> {}]
  /\ TimersOff

-----------------------------------------------------------------------------
(* Servicing. *)

\* The core after a look at the GIC's output.
Offered(k, asserting) ==
  LET awake == [k EXCEPT !.wfi = @ /\ ~asserting]
  IN  IF asserting /\ ~k.masked THEN [awake EXCEPT !.at = "iar", !.masked = TRUE] ELSE awake

\* MUTANT: a timer that was masked while its condition held keeps its line up.
SampleTimer_Latches(c) ==
  /\ SetLine(TIMER_PPI, c, TimerLine(timer[c]) \/ (Slot(TIMER_PPI, c) \in lines /\ Istatus(timer[c])))
  /\ cpu' = [cpu EXCEPT ![c] = Offered(@, IrqPendingFor(c, pending'))]

\* sample_timer and service_interrupts of a board with one core.
SampleTimer(c) ==
  /\ SetLine(TIMER_PPI, c, TimerLine(timer[c]))
  /\ cpu' = [cpu EXCEPT ![c] = Offered(@, IrqPendingFor(c, pending'))]

\* The cluster's deliver_interrupts.
DeliverOnly(c) ==
  /\ cpu' = [cpu EXCEPT ![c] = Offered(@, IrqPendingFor(c, pending))]
  /\ UNCHANGED gvars

Next1(c) == IF c + 1 \in Cpu THEN c + 1 ELSE 0

\* A core that waits after it was serviced gives up its turn; on a board of one core
\* WFI holds nobody up.
Service ==
  LET c == step.of
  IN  /\ step.doing = "service"
      /\ IF SingleCore THEN SampleTimer(c) ELSE DeliverOnly(c)
      /\ step' = IF cpu'[c].wfi /\ ~SingleCore THEN [step EXCEPT !.of = Next1(c)]
                 ELSE [step EXCEPT !.doing = "execute"]
      /\ UNCHANGED timer

-----------------------------------------------------------------------------
(* Instructions. *)

At(place) == step.doing = "execute" /\ cpu[step.of].at = place

\* The end of an instruction that leads to firmware state k and timer t.
Retires(k, t) ==
  /\ cpu' = [cpu EXCEPT ![step.of] = k]
  /\ timer' = [timer EXCEPT ![step.of] = t]
  /\ step' = [of |-> IF SingleCore THEN step.of ELSE Next1(step.of), doing |-> "service"]

Me == cpu[step.of]
Now == Ticked(timer[step.of])

\* Outside the handler firmware is in main, or in a section with interrupts masked
\* that makes one access.
InMain == At("main") \/ At("critical")
Goes == [Me EXCEPT !.at = IF @ = "main" THEN "main" ELSE "leaving"]

\* MSR CNTP_CTL_EL0; ISTATUS cannot be written.
WriteCtl(on, mask) ==
  /\ InMain
  /\ Retires(Goes, [Now EXCEPT !.enabled = on, !.masked = mask])
  /\ UNCHANGED gvars

\* MSR CNTP_TVAL_EL0: so much later than now.
WriteTval(delay) ==
  /\ InMain
  /\ Retires(Goes, [Now EXCEPT !.togo = NoLater(delay)])
  /\ UNCHANGED gvars

\* Anything else, and a wait.
OtherInstruction == InMain /\ Retires(Goes, Now) /\ UNCHANGED gvars

Wait == At("main") /\ Retires([Me EXCEPT !.wfi = TRUE], Now) /\ UNCHANGED gvars

Enter == At("main") /\ Retires([Me EXCEPT !.at = "critical", !.masked = TRUE], Now) /\ UNCHANGED gvars

Leave == At("leaving") /\ Retires([Me EXCEPT !.at = "main", !.masked = FALSE], Now) /\ UNCHANGED gvars

\* The handler: IAR, TVAL, EOIR, ERET.
ReadIar ==
  /\ At("iar")
  /\ LET i == HighestPriorityPending(step.of, pending)
     IN  /\ IF i = SPURIOUS_ID THEN UNCHANGED gvars ELSE Acknowledge(step.of, i)
         /\ Retires([Me EXCEPT !.iar = i, !.at = "rearm"], Now)

Rearm(delay) ==
  /\ At("rearm")
  /\ Retires([Me EXCEPT !.at = "eoir"], [Now EXCEPT !.togo = NoLater(delay)])
  /\ UNCHANGED gvars

WriteEoir ==
  /\ At("eoir")
  /\ IF Me.iar = SPURIOUS_ID THEN UNCHANGED gvars ELSE EndOfInterrupt(step.of, Me.iar)
  /\ Retires([Me EXCEPT !.iar = SPURIOUS_ID, !.at = "eret"], Now)

ExceptionReturn ==
  /\ At("eret")
  /\ Retires([Me EXCEPT !.at = "main", !.masked = FALSE], Now)
  /\ UNCHANGED gvars

Executes ==
  \/ \E on, mask \in BOOLEAN : WriteCtl(on, mask)
  \/ \E delay \in Delays : WriteTval(delay) \/ WriteTval(0 - delay) \/ Rearm(delay)
  \/ OtherInstruction \/ Wait \/ Enter \/ Leave
  \/ ReadIar \/ WriteEoir \/ ExceptionReturn

TickNext == Service \/ Executes

(* The board is stepped for ever. *)
TickSpec == TickInit /\ [][TickNext]_tickVars /\ WF_tickVars(TickNext)

-----------------------------------------------------------------------------
(* Properties. *)

\* Interrupt 30 is offered to a core exactly while its own timer asserts: neither a
\* rearm in the handler, an end of interrupt, nor IMASK leaves one behind, and the
\* handler that is entered finds it in IAR (sample_timer, set_line, end_of_interrupt).
TickIsReal ==
  \A c \in Cpu :
    /\ cpu[c].at = "iar" => HighestPriorityPending(c, pending) = TIMER_PPI
    /\ cpu[c].at \in {"iar", "rearm"} => TimerLine(timer[c])

\* A timer that asserts interrupts its core: "each core's line is driven into its own
\* bank", whatever the core does in the meantime, short of turning the timer off,
\* masking it or moving the compare value.
TicksArrive ==
  \A c \in Cpu : TimerLine(timer[c]) ~> (cpu[c].at = "iar" \/ ~TimerLine(timer[c]))
=============================================================================
