------------------------------ MODULE SpiSlave ------------------------------
(***************************************************************************)
(* The BCM2835 SPI slave block (peripherals/spi_slave.py), as operators on *)
(* a record that holds the state of one block.  Its operations are calls   *)
(* of the master's controller and of the slave's own firmware, so a module *)
(* that wires it to a master composes them (SerialLink).                   *)
(*                                                                         *)
(* An octet is abstracted to what the block can tell apart: what it means  *)
(* as the first one of a dialogue (an address and a direction) and its     *)
(* identity, so that properties can say which octet is where.              *)
(***************************************************************************)
EXTENDS Naturals, Sequences

CONSTANTS
  FifoDepth,        \* octets that fit in either FIFO
  Addresses,        \* addresses a master sends and SLV may hold
  BrkClearsFifos    \* whether CR.BRK does what the datasheet says

ASSUME SlaveAssumption ==
  /\ FifoDepth \in Nat \ {0}
  /\ BrkClearsFifos \in BOOLEAN

Idle == 0           \* MISO_IDLE: the line is not driven

Enabling == {"EN", "SPI"}

SlaveAtReset ==
  [cr |-> {}, slv |-> 0, imsc |-> {}, overrun |-> FALSE,
   rx |-> <<>>, tx |-> <<>>, selected |-> FALSE, awaiting |-> TRUE,
   reading |-> FALSE, addressed |-> FALSE, current |-> <<>>,
   dialogues |-> <<>>, irq |-> FALSE]

Raw(s) == {i \in {"RX", "TX"} : IF i = "RX" THEN s.rx # <<>> ELSE s.tx = <<>>}

UpdateInterrupts(s) == [s EXCEPT !.irq = Raw(s) \cap s.imsc # {}]

-----------------------------------------------------------------------------
(* The bus: what the master's controller calls. *)

\* MUTANT: a new dialogue empties the receive FIFO.
Select_Flushes(s) ==
  UpdateInterrupts([s EXCEPT !.selected = TRUE, !.awaiting = TRUE, !.reading = FALSE,
                             !.addressed = FALSE, !.current = <<>>, !.rx = <<>>])

Select(s) ==
  [s EXCEPT !.selected = TRUE, !.awaiting = TRUE, !.reading = FALSE,
            !.addressed = FALSE, !.current = <<>>]

Deselect(s) ==
  [s EXCEPT
     !.dialogues = IF s.selected /\ ~s.awaiting
                   THEN Append(@, [to      |-> IF s.addressed THEN s.slv ELSE "nobody",
                                   read    |-> s.reading,
                                   payload |-> s.current])
                   ELSE @,
     !.selected = FALSE, !.awaiting = TRUE, !.current = <<>>]

\* The address octet of a dialogue: remembered as direction and as a match.
TakeAddress(s, octet) ==
  [s EXCEPT !.awaiting = FALSE, !.reading = octet.read,
            !.addressed = octet.to = s.slv]

\* A read dialogue: the octet that came is dropped, one of the TX FIFO leaves.
Answers(s) == "TXE" \in s.cr /\ s.tx # <<>>

Answered(s, octet) ==
  UpdateInterrupts([s EXCEPT !.current = Append(@, octet),
                             !.tx = IF Answers(s) THEN Tail(@) ELSE @])

\* MUTANT: the flag is raised one octet late.
Kept_Silently(s, octet) ==
  UpdateInterrupts(
    [s EXCEPT !.current = Append(@, octet),
              !.rx = IF "RXE" \in s.cr /\ Len(@) < FifoDepth
                     THEN Append(@, octet) ELSE @,
              !.overrun = @ \/ ("RXE" \in s.cr /\ Len(s.rx) > FifoDepth)])

\* A write dialogue: the octet is kept, or flagged as lost.
Kept(s, octet) ==
  UpdateInterrupts(
    [s EXCEPT !.current = Append(@, octet),
              !.rx = IF "RXE" \in s.cr /\ Len(@) < FifoDepth
                     THEN Append(@, octet) ELSE @,
              !.overrun = @ \/ ("RXE" \in s.cr /\ Len(s.rx) >= FifoDepth)])

\* A dialogue goes on: what the block drives for one octet.
Exchanged(s, octet) ==
  CASE s.awaiting -> [slave |-> TakeAddress(s, octet), miso |-> Idle]
    [] ~s.awaiting /\ ~s.addressed -> [slave |-> s, miso |-> Idle]
    [] ~s.awaiting /\ s.addressed /\ s.reading ->
         [slave |-> Answered(s, octet),
          miso  |-> IF Answers(s) THEN Head(s.tx) ELSE Idle]
    [] ~s.awaiting /\ s.addressed /\ ~s.reading ->
         [slave |-> Kept(s, octet), miso |-> Idle]

\* transfer(): an octet outside any selection opens a dialogue of its own.
Transfer(s, octet) ==
  IF ~(Enabling \subseteq s.cr) THEN [slave |-> s, miso |-> Idle]
  ELSE Exchanged(IF s.selected THEN s ELSE Select(s), octet)

-----------------------------------------------------------------------------
(* The registers: what the slave's firmware reads and writes. *)

\* FR, as far as firmware acts on it.
Flags(s) ==
  {f \in {"TXFE", "TXFF", "RXFE", "RXFF"} :
     CASE f = "TXFE" -> s.tx = <<>>
       [] f = "TXFF" -> Len(s.tx) >= FifoDepth
       [] f = "RXFE" -> s.rx = <<>>
       [] f = "RXFF" -> Len(s.rx) >= FifoDepth}

ReadDr(s) == IF s.rx = <<>> THEN s ELSE UpdateInterrupts([s EXCEPT !.rx = Tail(@)])

WriteDr(s, octet) ==
  UpdateInterrupts([s EXCEPT !.tx = IF Len(@) < FifoDepth THEN Append(@, octet) ELSE @])

WriteCr(s, bits, brk) ==
  UpdateInterrupts(
    [s EXCEPT !.cr = bits,
              !.rx = IF brk /\ BrkClearsFifos THEN <<>> ELSE @,
              !.tx = IF brk /\ BrkClearsFifos THEN <<>> ELSE @])

WriteSlv(s, address) == [s EXCEPT !.slv = address]

WriteImsc(s, bits) == UpdateInterrupts([s EXCEPT !.imsc = bits])

ClearOverrun(s) == UpdateInterrupts([s EXCEPT !.overrun = FALSE])
=============================================================================
