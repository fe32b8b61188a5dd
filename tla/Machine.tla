------------------------------ MODULE Machine ------------------------------
(***************************************************************************)
(* Two single-core boards that run in turns (boards/interconnect.py,       *)
(* Machine): a Raspberry Pi 3 with its Broadcom GPIO block polled for an   *)
(* interrupt, and an AArch64 Jetson Nano whose Tegra GPIO block reaches    *)
(* the core through an enabled line of the GIC.  One wire leads from each  *)
(* board's output pin to the other's input pin.  A turn is one             *)
(* Board.run(slice_size); the wires are settled when both have had theirs. *)
(***************************************************************************)
EXTENDS Gpio, FiniteSets

CONSTANTS
  SliceSize,        \* Machine.slice_size
  MayCrash          \* whether firmware may run into a faulting vector table

VARIABLES
  board,            \* state of each board
  wire,             \* GpioLink._last of the wire that a board drives
  turn              \* the scheduler: running (inside Machine.run), whose slice,
                    \* instructions left in it, and whether the last one left
                    \* the PC where it was (previous_pc = pc)
machineVars == <<board, wire, turn>>

Boards == {"pi", "nano"}
Other(b) == IF b = "pi" THEN "nano" ELSE "pi"
CountsExceptions(b) == b = "nano"     \* CpuAdapter.exception_count
Inverting(b) == b = "pi"              \* the wire the Pi drives is active low

\* The PC: somewhere in main, on its halt loop B ., in the interrupt handler
\* before and after it clears the event, or on a vector that faults.
Places == {"main", "loop", "handler", "return", "crash"}

PinLevel(b, pin) ==
  pin \in IF b = "pi" THEN BcmLevels(board[b].gpio) ELSE TegraLevels(board[b].gpio)

IsOutput(b) ==
  "out" \in IF b = "pi" THEN board[b].gpio.output ELSE TegraOutputs(board[b].gpio)

\* What the driver of a wire puts on it.
OnWire(b) ==
  IF ~IsOutput(b) THEN "released"
  ELSE IF PinLevel(b, "out") # Inverting(b) THEN "high" ELSE "low"

Drive(b, level) ==
  IF b = "pi" THEN BcmDriveInput(board[b].gpio, "in", level)
  ELSE TegraDriveInput(board[b].gpio, "in", level)

\* Firmware has made out an output and enabled events of both directions on in.
MachineInit ==
  /\ board = [b \in Boards |->
       [place |-> "main", back |-> "main", masked |-> FALSE,
        halted |-> FALSE, faultLoop |-> FALSE,
        gpio |-> IF b = "pi"
                 THEN BcmWriteEdges(BcmWriteFsel(BcmAtReset, {"out"}), {"in"}, {"in"})
                 ELSE TegraWrite(TegraWrite(TegraWrite(TegraAtReset, "mode", Pins, Pins),
                                            "oe", Pins, {"out"}), "inten", Pins, {"in"})]]
  /\ wire = [b \in Boards |-> "none"]
  /\ turn = [running |-> FALSE, of |-> "pi", left |-> SliceSize, still |-> FALSE]

-----------------------------------------------------------------------------
(* One instruction of a board, and the interrupts serviced after it. *)

\* service_interrupts.
Serviced(s) ==
  IF s.gpio.irq /\ ~s.masked
  THEN [s EXCEPT !.place = "handler", !.back = s.place, !.masked = TRUE]
  ELSE s

\* MUTANT: the verdict looks at the PC the instruction left, before the interrupt.
Ran_BeforeService(b, s, moved, faulted) ==
  LET now    == Serviced(s)
      parked == ~moved /\ turn.still
      ends   == parked \/ turn.left = 1
  IN  /\ board' = [board EXCEPT ![b] = [now EXCEPT !.halted = parked]]
      /\ turn' = IF ends /\ b = "nano" THEN [turn EXCEPT !.of = "nobody"]
                 ELSE IF ends THEN [turn EXCEPT !.of = "nano", !.left = SliceSize, !.still = FALSE]
                 ELSE [turn EXCEPT !.left = @ - 1, !.still = ~moved]
      /\ UNCHANGED wire

\* The rest of an iteration of Board.run, the instruction having led to s: the
\* verdict on the PC, and the end of the slice when it is parked or used up.
Ran(b, s, moved, faulted) ==
  LET now    == Serviced(s)
      stays  == ~moved /\ now.place = s.place
      parked == stays /\ turn.still
      loops  == parked /\ faulted /\ CountsExceptions(b)
      ends   == parked \/ turn.left = 1
  IN  /\ board' = [board EXCEPT ![b] =
           [now EXCEPT !.halted = IF ends THEN parked /\ ~loops ELSE @,
                       !.faultLoop = @ \/ loops]]
      /\ turn' = IF ends /\ b = "nano" THEN [turn EXCEPT !.of = "nobody"]
                 ELSE IF ends THEN [turn EXCEPT !.of = "nano", !.left = SliceSize, !.still = FALSE]
                 ELSE [turn EXCEPT !.left = @ - 1, !.still = stays]
      /\ UNCHANGED wire

Turn(b, place) == turn.running /\ turn.of = b /\ board[b].place = place

\* Firmware writes its GPIO block, does something else, or goes to its halt loop.
WriteOutput(b, high) ==
  /\ Turn(b, "main")
  /\ Ran(b, [board[b] EXCEPT !.gpio =
              IF b = "nano" THEN TegraWrite(@, "out", {"out"}, IF high THEN {"out"} ELSE {})
              ELSE IF high THEN BcmWriteSet(@, {"out"}) ELSE BcmWriteClear(@, {"out"})],
         TRUE, FALSE)

WriteDirection(b, out) ==
  /\ Turn(b, "main")
  /\ Ran(b, [board[b] EXCEPT !.gpio =
              IF b = "nano" THEN TegraWrite(@, "oe", {"out"}, IF out THEN {"out"} ELSE {})
              ELSE BcmWriteFsel(@, IF out THEN {"out"} ELSE {})],
         TRUE, FALSE)

Compute(b) == Turn(b, "main") /\ Ran(b, board[b], TRUE, FALSE)

Park(b) == Turn(b, "main") /\ Ran(b, [board[b] EXCEPT !.place = "loop"], TRUE, FALSE)

Spin(b) == Turn(b, "loop") /\ Ran(b, board[b], FALSE, FALSE)

\* A fault whose vector faults again; exceptions mask interrupts.
Crash(b) ==
  /\ MayCrash
  /\ Turn(b, "main")
  /\ Ran(b, [board[b] EXCEPT !.place = "crash", !.masked = TRUE], TRUE, TRUE)

FaultAgain(b) == Turn(b, "crash") /\ Ran(b, board[b], FALSE, TRUE)

\* The handler clears the event and returns.
AcknowledgeEvent(b) ==
  /\ Turn(b, "handler")
  /\ Ran(b, [board[b] EXCEPT !.place = "return", !.gpio =
              IF b = "pi" THEN BcmWriteEds(@, {"in"}) ELSE TegraWriteClear(@, {"in"})],
         TRUE, FALSE)

Return(b) ==
  /\ Turn(b, "return")
  /\ Ran(b, [board[b] EXCEPT !.place = board[b].back, !.masked = FALSE], TRUE, FALSE)

Instruction(b) ==
  \/ \E high \in BOOLEAN : WriteOutput(b, high) \/ WriteDirection(b, high)
  \/ Compute(b) \/ Park(b) \/ Spin(b) \/ Crash(b) \/ FaultAgain(b)
  \/ AcknowledgeEvent(b) \/ Return(b)

-----------------------------------------------------------------------------
(* Machine. *)

\* MUTANT: a level that was the last one driven is not driven again.
Settled_OnChange ==
  /\ board' = [b \in Boards |->
       LET level == OnWire(Other(b))
       IN  IF level = wire[Other(b)] THEN board[b]
           ELSE [board[b] EXCEPT !.gpio = Drive(b, level)]]
  /\ wire' = [b \in Boards |-> IF OnWire(b) = "released" THEN wire[b] ELSE OnWire(b)]

\* settle: every wire once.  The two wires share no pin, so their order does not
\* matter here.
Settled ==
  /\ board' = [b \in Boards |-> [board[b] EXCEPT !.gpio = Drive(b, OnWire(Other(b)))]]
  /\ wire' = [b \in Boards |-> IF OnWire(b) = "released" THEN wire[b] ELSE OnWire(b)]

Slices == [running |-> TRUE, of |-> "pi", left |-> SliceSize, still |-> FALSE]

AllHalted == \A b \in Boards : board[b].halted

\* The caller calls run, or run_until, which settles the wires first.
CallRun == ~turn.running /\ turn' = Slices /\ UNCHANGED <<board, wire>>

CallRunUntil == ~turn.running /\ Settled /\ turn' = Slices

\* The end of step_slice.  run goes on unless all boards are halted or the budget
\* is spent; a budget, or a predicate that becomes true, may end it at any round.
EndRound(spent) ==
  /\ turn.running /\ turn.of = "nobody"
  /\ Settled
  /\ turn' = IF spent \/ AllHalted THEN [Slices EXCEPT !.running = FALSE] ELSE Slices

MachineNext ==
  \/ \E b \in Boards : Instruction(b)
  \/ \E spent \in BOOLEAN : EndRound(spent)
  \/ CallRun \/ CallRunUntil

(* Machine.run is a loop that nothing blocks, and the caller goes on calling it. *)
MachineFairness ==
  WF_machineVars(MachineNext)

MachineSpec == MachineInit /\ [][MachineNext]_machineVars /\ MachineFairness

-----------------------------------------------------------------------------
(* Properties. *)

MachineTypeOK ==
  /\ \A b \in Boards :
       /\ board[b].place \in Places /\ board[b].back \in {"main", "loop"}
       /\ board[b].gpio.last \subseteq Pins
       /\ {board[b].masked, board[b].halted, board[b].faultLoop} \subseteq BOOLEAN
  /\ turn.left \in 1 .. SliceSize /\ turn.of \in Boards \cup {"nobody"}

\* A level put on a wire and held there reaches the other board's handler, however
\* many times run was called and stopped in between and although the receiver had
\* been reported as halted (step_slice, settle, Board.run, service_interrupts).
\* A board that crashed hears nothing more.
Unheard(b, level) == OnWire(b) = level /\ PinLevel(Other(b), "in") # (level = "high")
Heard(b, level) ==
  board[Other(b)].place \in {"handler", "return", "crash"} \/ OnWire(b) # level
SignalsCross ==
  \A b \in Boards, level \in {"high", "low"} : Unheard(b, level) ~> Heard(b, level)

\* At the end of its slice a board is reported as halted only if its firmware
\* spins with no interrupt waiting, and never for a fault loop where the core
\* counts exceptions (Board.run).
HadItsSlice(b) == turn.running /\ turn.of # b /\ (b = "nano" => turn.of = "nobody")
HaltedIsParked ==
  \A b \in Boards :
    board[b].halted /\ HadItsSlice(b) =>
      \/ board[b].place = "loop" /\ ~board[b].gpio.irq
      \/ board[b].place = "crash" /\ ~CountsExceptions(b)

\* Between two rounds each input pin has the level that the other board drives, or
\* its pull's when it drives none, although each board had its turn with the wires
\* as they were a slice ago (GpioLink.settle).
InputsFollow ==
  turn.of = "nobody" => \A b \in Boards : PinLevel(b, "in")' = (OnWire(Other(b)) = "high")
InputsFollowWires == [][InputsFollow]_machineVars
=============================================================================
