------------------------------ MODULE Cluster ------------------------------
(***************************************************************************)
(* The cores of cluster.py and their scheduler: round-robin slices, the    *)
(* delivery of interrupts, WFI, WFE and the event register, halt loops,    *)
(* power through PSCI, and the stores that wait in a core's buffer.  The    *)
(* interrupt controller is Gic400's; the generic timers are left out.      *)
(*                                                                         *)
(* A core runs any program over instr.  Of its PC only what the scheduler  *)
(* looks at is kept: whether it stands on a branch to itself ("loop") or   *)
(* on the first instruction of a handler ("vector").  "program" and        *)
(* "handler" stand for any other address, never the same one twice.        *)
(***************************************************************************)
EXTENDS Gic400

CONSTANTS
  Programs,     \* the sets of instructions programs are made of
  Wired,        \* the shared interrupts that devices are connected to
  SLICE_SIZE,   \* instructions per turn
  Driver,       \* "step" calls step_round for ever, "run" is Cluster.run
  LATENCY,      \* cycles a store waits in a buffer
  MaxStores     \* BOUND: stores a core issues

ASSUME CoreAssumption ==
  IsFiniteSet(Cpu) /\ Cpu # {} /\ Cpu = 0..(Cardinality(Cpu) - 1)
ASSUME SliceAssumption == SLICE_SIZE \in Nat \ {0}
ASSUME LatencyAssumption == LATENCY \in Nat \ {0}
ASSUME StoresAssumption == MaxStores \in Nat
ASSUME WiredAssumption == Wired \subseteq SPI

VARIABLES
  core,          \* what the scheduler knows of each core, a record
  issued,        \* stores each core has made
  unpublished,   \* how many are still in its buffer, and when the next one retires
  instr,         \* the instructions this run's programs are made of
  device,        \* the device lines that are high
  turn, left,    \* the core whose turn it is, instructions left of its slice
  phase,         \* "deliver" or "execute": where step_core is
  stopped        \* run has returned

gic  == gvars
cvars == <<gic, core, issued, unpublished, device, turn, left, phase, stopped, instr>>
schedule == <<turn, left, phase, stopped>>

Place == {"program", "loop", "vector", "handler"}
Empty == [count |-> 0, wait |-> 0]

CoreState ==
  [powered : BOOLEAN, halted : BOOLEAN, wfi : BOOLEAN, wfe : BOOLEAN, event : BOOLEAN,
   masked : BOOLEAN, place : Place, previous : Place,
   elr : [place : Place, masked : BOOLEAN], iar : Interrupt \cup {SPURIOUS_ID}]

-----------------------------------------------------------------------------
\* is_running.
IsRunning(k) == k.powered /\ ~k.halted /\ ~k.wfi /\ ~k.wfe

\* all_parked.
AllParked(k) == \A c \in Cpu : ~IsRunning(k[c])

\* take_reset: the event register is not reset.
Reset(k) ==
  [k EXCEPT !.wfi = FALSE, !.wfe = FALSE, !.masked = TRUE, !.place = "program"]

\* Cluster.__init__ and power_on.
PoweredOn(k) ==
  [Reset(k) EXCEPT !.powered = TRUE, !.halted = FALSE, !.previous = "program"]

\* take_exception: masked, at the vector, with the state to return to kept.
Vectored(k) ==
  [k EXCEPT !.masked = TRUE, !.place = "vector",
            !.elr = [place |-> k.place, masked |-> k.masked]]

CoreAtReset(powered) ==
  [powered |-> powered, halted |-> FALSE, wfi |-> FALSE, wfe |-> FALSE,
   event |-> FALSE, masked |-> TRUE, place |-> "program", previous |-> "program",
   elr |-> [place |-> "program", masked |-> TRUE], iar |-> SPURIOUS_ID]

\* The interrupt controller as firmware has set it up, every SPI routed to core 0.
\* Core 0 alone is on; programs that make no PSCI calls start with all of them on.
ClusterInit ==
  /\ distributor_enabled = TRUE
  /\ cpu_interface_enabled = Cpu
  /\ priority_mask = [c \in Cpu |-> 255]
  /\ enabled = Slots /\ pending = {} /\ active = {} /\ lines = {} /\ config = {}
  /\ priority = [i \in Interrupt |-> 160]
  /\ targets = [i \in Interrupt |-> {0}]
  /\ sgi_targets = [i \in SGI |-> {}]
  /\ sgi_active = [i \in SGI |-> {}]
  /\ instr \in Programs
  /\ core = [c \in Cpu |-> CoreAtReset(c = 0 \/ "on" \notin instr)]
  /\ issued = [c \in Cpu |-> 0] /\ unpublished = [c \in Cpu |-> Empty]
  /\ device = {}
  /\ turn = 0 /\ left = SLICE_SIZE /\ phase = "deliver" /\ stopped = FALSE

-----------------------------------------------------------------------------
(* The scheduler.                                                          *)

\* The turn passes on; run stops after a round that leaves no core running and
\* drains every buffer.  Core records after the step are in k.
EndTurn(k, stores) ==
  LET last == \A d \in Cpu : d <= turn
      stop == last /\ Driver = "run" /\ AllParked(k)
  IN  /\ turn' = IF last THEN 0 ELSE turn + 1
      /\ left' = SLICE_SIZE
      /\ phase' = "deliver"
      /\ stopped' = stop
      /\ unpublished' = IF stop THEN [d \in Cpu |-> Empty] ELSE stores

\* gic.refresh: every device line is sampled into the distributor.
SampledLines == {s \in lines : s[1] \notin Wired} \cup {Slot(i, turn) : i \in device}
SampledPending ==
  {s \in pending : s[1] \in config \/ s[1] \notin Wired}
    \cup {Slot(i, turn) : i \in {j \in device : j \in config => Slot(j, turn) \notin lines}}

\* MUTANT: a masked interrupt does not wake the core.
Delivered_WhenUnmasked(k, asserting) ==
  IF asserting /\ ~k.masked THEN Vectored([k EXCEPT !.wfi = FALSE]) ELSE k

\* deliver_interrupts: an interrupt ends a WFI whether or not it is masked.
Delivered(k, asserting) ==
  LET awake == [k EXCEPT !.wfi = @ /\ ~asserting]
  IN  IF asserting /\ ~k.masked THEN Vectored(awake) ELSE awake

\* StoreBuffer.push, and a cycle of retire: one store each time the latency is up.
Pushed(b) ==
  IF b.count = 0 THEN [count |-> 1, wait |-> LATENCY] ELSE [b EXCEPT !.count = @ + 1]

Retired(b) ==
  CASE b.wait > 1 -> [b EXCEPT !.wait = @ - 1]
    [] b.wait = 1 /\ b.count > 1 -> [count |-> b.count - 1, wait |-> LATENCY]
    [] OTHER -> Empty

\* MUTANT: a parked core keeps its stores.
Parked_Stranded(stores) == stores

\* A core that is waiting or halted still retires a store when its turn comes.
Parked(stores) == IF left = SLICE_SIZE THEN [stores EXCEPT ![turn] = Retired(@)] ELSE stores

\* step_core before each instruction: interrupts are offered to the core, also
\* when it is parked; one that does not run after that gives up its turn.
DeliverInterrupts ==
  /\ ~stopped /\ phase = "deliver" /\ core[turn].powered
  /\ LET asserting == IrqPendingFor(turn, SampledPending)
         k == [core EXCEPT ![turn] = Delivered(@, asserting)]
         taken == asserting /\ ~core[turn].masked
         stores == [unpublished EXCEPT ![turn] = IF taken THEN Empty ELSE @]
     IN  /\ lines' = SampledLines
         /\ pending' = SampledPending
         /\ core' = k
         /\ IF IsRunning(k[turn])
            THEN phase' = "execute" /\ unpublished' = stores /\ UNCHANGED <<turn, left, stopped>>
            ELSE EndTurn(k, Parked(stores))
  /\ UNCHANGED <<interface, enabled, active, routing, sgis, issued, device, instr>>

\* A core that is off is passed over, whatever is pending for it.
SkipOff ==
  /\ ~stopped /\ phase = "deliver" /\ ~core[turn].powered
  /\ EndTurn(core, unpublished)
  /\ UNCHANGED <<gic, core, issued, device, instr>>

\* run, or step_round, is called again.
CallAgain ==
  /\ stopped /\ stopped' = FALSE
  /\ UNCHANGED <<gic, core, issued, unpublished, device, turn, left, phase, instr>>

\* Between two rounds a device raises or lowers its line.
DeviceLine(i) ==
  /\ turn = 0 /\ left = SLICE_SIZE /\ phase = "deliver"
  /\ device' = IF i \in device THEN device \ {i} ELSE device \cup {i}
  /\ UNCHANGED <<gic, core, issued, unpublished, schedule, instr>>

-----------------------------------------------------------------------------
(* Instructions.  Each ends in Finish, which is the rest of the cycle.     *)

\* MUTANT: a fault that comes back to its own vector counts as a halt loop.
Halts_IgnoresExceptions(before, after) ==
  after.place = before.place /\ before.place = before.previous
    /\ before.place \in {"loop", "vector"}

\* step_core: the PC repeats, it did so before, and no exception was taken.
Halts(before, after) ==
  after.place = before.place /\ before.place = before.previous /\ before.place = "loop"

\* Where an instruction that neither branches nor traps leaves the core.
Onward(k) == [k EXCEPT !.place = IF @ \in {"vector", "handler"} THEN "handler" ELSE "program"]

\* emulate_cycle around the instruction, and step_core after it.  The instruction
\* leaves the cores as k and does to this core's buffer what effect names.
Finish(k, effect) ==
  LET c == turn
      done == [k EXCEPT ![c].halted = Halts(core[c], k[c]), ![c].previous = core[c].place]
      stores == [unpublished EXCEPT ![c] = CASE effect = "drain" -> Empty
                                             [] effect = "store" -> Pushed(Retired(@))
                                             [] OTHER -> Retired(@)]
  IN  /\ core' = done
      /\ issued' = [issued EXCEPT ![c] = IF effect = "store" THEN @ + 1 ELSE @]
      /\ IF left = 1 \/ done[c].halted \/ ~done[c].powered
         THEN EndTurn(done, stores)
         ELSE /\ left' = left - 1 /\ phase' = "deliver"
              /\ unpublished' = stores /\ UNCHANGED <<turn, stopped>>

\* This core may perform op, and stands where a program can contain it.
May(op) ==
  /\ ~stopped /\ phase = "execute" /\ op \in instr
  /\ core[turn].place # "loop"

Self == Onward(core[turn])
Becomes(k) == [core EXCEPT ![turn] = k]

\* A branch to itself; "finish" is any instruction that leads there.
SelfBranch ==
  /\ ~stopped /\ phase = "execute" /\ core[turn].place = "loop"
  /\ Finish(core, "none")
  /\ UNCHANGED <<gic, device, instr>>

GoToLoop ==
  /\ May("finish")
  /\ Finish(Becomes([Self EXCEPT !.place = "loop"]), "none")
  /\ UNCHANGED <<gic, device, instr>>

\* An instruction that nothing here depends on.
Plain ==
  /\ May("plain")
  /\ Finish(Becomes(Self), "none")
  /\ UNCHANGED <<gic, device, instr>>

\* A synchronous exception; ERET, which also drains the buffer.
Fault ==
  /\ May("fault")
  /\ Finish(Becomes(Vectored(core[turn])), "drain")
  /\ UNCHANGED <<gic, device, instr>>

ExceptionReturn ==
  /\ May("eret") /\ core[turn].place \in {"vector", "handler"}
  /\ LET elr == core[turn].elr
     IN  Finish(Becomes([Self EXCEPT !.place = elr.place, !.masked = elr.masked]), "drain")
  /\ UNCHANGED <<gic, device, instr>>

\* MSR DAIFSet and DAIFClr.
Mask(on) ==
  /\ May("daif")
  /\ Finish(Becomes([Self EXCEPT !.masked = on]), "none")
  /\ UNCHANGED <<gic, device, instr>>

WaitForInterrupt ==
  /\ May("wfi")
  /\ Finish(Becomes([Self EXCEPT !.wfi = TRUE]), "none")
  /\ UNCHANGED <<gic, device, instr>>

\* MUTANT: WFE parks whatever the event register holds.
WaitForEvent_Always ==
  /\ May("wfe")
  /\ Finish(Becomes([Self EXCEPT !.wfe = TRUE]), "none")
  /\ UNCHANGED <<gic, device, instr>>

\* WFE consumes an event that is already there, and waits otherwise.
WaitForEvent ==
  /\ May("wfe")
  /\ Finish(Becomes([Self EXCEPT !.wfe = ~core[turn].event, !.event = FALSE]), "none")
  /\ UNCHANGED <<gic, device, instr>>

\* MUTANT: SEV wakes the waiting cores and leaves nothing for the others.
SendEvent_WakesOnly ==
  /\ May("sev")
  /\ Finish([d \in Cpu |-> IF d = turn THEN Self ELSE [core[d] EXCEPT !.wfe = FALSE]], "none")
  /\ UNCHANGED <<gic, device, instr>>

\* SEV and send_event_to_all: every event register is set, and the other cores'
\* waits end.
SendEvent ==
  /\ May("sev")
  /\ LET woken(d) == IF d = turn THEN Self ELSE [core[d] EXCEPT !.wfe = FALSE]
     IN  Finish([d \in Cpu |-> [woken(d) EXCEPT !.event = TRUE]], "none")
  /\ UNCHANGED <<gic, device, instr>>

SendEventLocal ==
  /\ May("sevl")
  /\ Finish(Becomes([Self EXCEPT !.event = TRUE]), "none")
  /\ UNCHANGED <<gic, device, instr>>

\* A store that enters the buffer, and a barrier that empties it.
BufferedStore ==
  /\ May("str") /\ issued[turn] < MaxStores
  /\ Finish(Becomes(Self), "store")
  /\ UNCHANGED <<gic, device, instr>>

Drain ==
  /\ May("dsb")
  /\ Finish(Becomes(Self), "drain")
  /\ UNCHANGED <<gic, device, instr>>

\* GICD_SGIR, GICC_IAR and GICC_EOIR.  BOUND: a core reads IAR again only once it
\* has ended the interrupt it took before.
Interprocessor(i, cpus) ==
  /\ May("sgi")
  /\ SendSgi(i, cpus)
  /\ Finish(Becomes(Self), "none")
  /\ UNCHANGED <<device, instr>>

ReadIar ==
  /\ May("iar") /\ core[turn].iar = SPURIOUS_ID
  /\ LET i == HighestPriorityPending(turn, pending)
     IN  /\ IF i = SPURIOUS_ID THEN UNCHANGED gic ELSE Acknowledge(turn, i)
         /\ Finish(Becomes([Self EXCEPT !.iar = i]), "none")
  /\ UNCHANGED <<device, instr>>

WriteEoir ==
  /\ May("eoir") /\ core[turn].iar # SPURIOUS_ID
  /\ EndOfInterrupt(turn, core[turn].iar)
  /\ Finish(Becomes([Self EXCEPT !.iar = SPURIOUS_ID]), "none")
  /\ UNCHANGED <<device, instr>>

\* PSCI CPU_ON: a core that is on already is left alone.
CpuOn(d) ==
  /\ May("on")
  /\ LET k == Becomes(Self)
     IN  Finish(IF core[d].powered THEN k ELSE [k EXCEPT ![d] = PoweredOn(@)], "none")
  /\ UNCHANGED <<gic, device, instr>>

\* PSCI CPU_OFF.
CpuOff ==
  /\ May("off")
  /\ Finish(Becomes([Self EXCEPT !.powered = FALSE]), "none")
  /\ UNCHANGED <<gic, device, instr>>

Execute ==
  \/ SelfBranch \/ GoToLoop \/ Plain \/ Fault \/ ExceptionReturn
  \/ \E on \in BOOLEAN : Mask(on)
  \/ WaitForInterrupt \/ WaitForEvent \/ SendEvent \/ SendEventLocal
  \/ BufferedStore \/ Drain
  \/ \E i \in SGI, cpus \in SUBSET Cpu \ {{}} : Interprocessor(i, cpus)
  \/ ReadIar \/ WriteEoir
  \/ \E d \in Cpu : CpuOn(d)
  \/ CpuOff

Scheduler == DeliverInterrupts \/ SkipOff \/ Execute

ClusterNext == Scheduler \/ CallAgain \/ \E i \in Wired : DeviceLine(i)

\* Out of reset, rounds are stepped for as long as the driver asks for them.
ClusterSpec == ClusterInit /\ [][ClusterNext]_cvars /\ WF_cvars(Scheduler)

-----------------------------------------------------------------------------
ClusterTypeOK ==
  /\ TypeOK
  /\ core \in [Cpu -> CoreState]
  /\ issued \in [Cpu -> 0..MaxStores]
  /\ \A c \in Cpu : /\ unpublished[c].count \in 0..issued[c]
                    /\ unpublished[c].wait \in 0..LATENCY
                    /\ (unpublished[c].count = 0) = (unpublished[c].wait = 0)
  /\ device \subseteq Wired
  /\ instr \in Programs
  /\ turn \in Cpu /\ left \in 1..SLICE_SIZE /\ phase \in {"deliver", "execute"}
  /\ stopped \in BOOLEAN
  /\ phase = "execute" => IsRunning(core[turn])

\* No core waits for an event it has been sent, at whatever point of its loop the
\* SEV came.  (wait_for_event: "Parking unconditionally would lose the wake-up".)
NoSleepThroughEvent == \A c \in Cpu : core[c].wfe => ~core[c].event

\* A core the scheduler holds to be finished stands on its halt loop, and not in
\* a handler it was sent to: all that ever takes it from there is an interrupt that
\* comes later, and would return it to the loop.  (Cluster.halted, step_core's
\* comment on faults; deliver_interrupts, which does not look at `halted'.)
HaltedIsSpinning ==
  \A c \in Cpu : core[c].halted =>
    \/ core[c].place = "loop"
    \/ core[c].place = "vector" /\ core[c].elr.place = "loop" /\ core[c].masked

\* run returns early only if no core would make progress in another round.
\* (all_parked.)
AllParkedIsFinal ==
  stopped => \A c \in Cpu : core[c].powered /\ core[c].wfi => ~IrqPendingFor(c, pending)

\* An interrupt wakes a core out of WFI whether or not it is masked.
InterruptsWake ==
  \A c \in Cpu :
    (core[c].wfi /\ IrqPendingFor(c, pending)) ~> ~(core[c].wfi /\ IrqPendingFor(c, pending))

\* Every store a core has issued reaches memory, whatever the core does next, short
\* of switching itself off.  (step_core: "leaving them stranded would stall a reader
\* forever".)
StoresLand ==
  \A c \in Cpu : \A n \in 1..MaxStores :
    (issued[c] = n) ~> (issued[c] - unpublished[c].count >= n \/ ~core[c].powered)

=============================================================================
