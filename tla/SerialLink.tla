----------------------------- MODULE SerialLink -----------------------------
(***************************************************************************)
(* One board's SPI master drives another board's SPI slave block through a *)
(* bridge (boards/interconnect.py).  The master is a BCM2835 SPI0          *)
(* (peripherals/serial_bus.py), whose FIFO writes shift at once, or a      *)
(* Tegra X1 controller (peripherals/spi_tegra.py), whose transfers are set *)
(* up and then started.  Firmware on both boards does any legal register   *)
(* access at any time: the boards run in turns, and a turn may end         *)
(* between any two accesses.                                               *)
(***************************************************************************)
EXTENDS SpiSlave, SequencesExt

CONSTANTS
  Wirings,          \* the masters under test: subset of AllWirings
  TegraDepth,       \* words that fit in either FIFO of the Tegra controller
  SoftwareCs,       \* whether Tegra firmware may take over chip select
  MaxWork,          \* bound: octets written by the master's firmware, plus
                    \* configuration writes of either side after the setup
  MaxWords,         \* bound: words the Tegra controller moves
  MaxAnswers        \* bound: octets the slave's firmware queues

AllWirings == {"bcm", "tegra"}

ASSUME LinkAssumption ==
  /\ Wirings \subseteq AllWirings
  /\ TegraDepth \in Nat \ {0}
  /\ SoftwareCs \in BOOLEAN

VARIABLES
  wiring,           \* which master the bridge is attached to
  bcm,              \* state of the BCM2835 master
  tegra,            \* state of the Tegra master
  slave,            \* state of the slave block
  exchanges,        \* SpiBridge.exchanges, (octet of the master, of the slave)
  spi               \* history: what the firmwares wrote, read and polled
serialVars == <<wiring, bcm, tegra, slave, exchanges, spi>>

BridgeCs == 0       \* the bridge sits on this line; nobody on the other one
Lines == {0, 1}

\* An octet of the master: meaning if it opens a dialogue, identity, and the
\* chip-select assertion it was written under.
Octet(to, read, n, frame) == [to |-> to, read |-> read, n |-> n, frame |-> frame]

Bcm0 == [cs |-> 0, ta |-> FALSE, ints |-> {}, rx |-> <<>>, irq |-> FALSE,
         transmitted |-> <<>>]
Tegra0 == [cs |-> 0, soft |-> FALSE, value |-> FALSE, tx |-> <<>>, rx |-> <<>>,
           ready |-> FALSE, errors |-> {}, selected |-> FALSE, transmitted |-> <<>>]

BcmInterrupt(m) ==
  [m EXCEPT !.irq = \/ "INTR" \in m.ints /\ m.rx # <<>>
                    \/ "INTD" \in m.ints /\ ~m.ta]

Home == 0           \* the address in SLV when the boards are wired up
\* CR and IMSC values firmware writes: everything on, deaf, switched off.
Everything == Enabling \cup {"TXE", "RXE"}
Off == {"TXE", "RXE"}
Controls == {Everything, Enabling \cup {"TXE"}, Off}
Masks == {{}, {"RX"}}

(* The boards are wired up after their firmware set the controllers up. *)
SerialInit ==
  /\ wiring \in Wirings
  /\ bcm = BcmInterrupt([Bcm0 EXCEPT !.ints = {"INTR", "INTD"}])
  /\ tegra = Tegra0
  /\ \E bits \in {Everything, Off} :
       slave = WriteImsc(WriteCr(WriteSlv(SlaveAtReset, Home), bits, FALSE), {"RX"})
  /\ exchanges = <<>>
  /\ spi = [written |-> 0, frame |-> 0, queued |-> <<>>, heard |-> <<>>,
            excused |-> FALSE, setups |-> 0]

Budget == spi.written + spi.setups < MaxWork

-----------------------------------------------------------------------------
(* The BCM2835 master. *)

\* MUTANT: moving TA from one line to another releases neither.
BcmFraming_TaOnly(old, new, s) ==
  CASE old.ta /\ ~new.ta /\ old.cs = BridgeCs -> Deselect(s)
    [] ~old.ta /\ new.ta /\ new.cs = BridgeCs -> Select(s)
    [] OTHER -> s

\* _update_chip_select: who is told that a line goes up or down.
BcmFraming(old, new, s) ==
  LET moved    == old.cs # new.cs
      released == IF old.ta /\ (~new.ta \/ moved) /\ old.cs = BridgeCs
                  THEN Deselect(s) ELSE s
  IN  IF new.ta /\ (~old.ta \/ moved) /\ new.cs = BridgeCs
      THEN Select(released) ELSE released

\* The level of the line the slave sits on.
Asserted(m) == m.ta /\ m.cs = BridgeCs

BcmWriteCs(cs, ta, ints, clear) ==
  /\ wiring = "bcm"
  /\ ints # bcm.ints => Budget
  /\ LET m == [bcm EXCEPT !.cs = cs, !.ta = ta, !.ints = ints,
                          !.rx = IF clear THEN <<>> ELSE @]
     IN  /\ bcm' = BcmInterrupt(m)
         /\ slave' = BcmFraming(bcm, m, slave)
         /\ spi' = [spi EXCEPT !.frame = IF Asserted(bcm) # Asserted(m) THEN spi.written + 1 ELSE @,
                           !.setups = IF ints # bcm.ints THEN @ + 1 ELSE @]
  /\ UNCHANGED <<wiring, tegra, exchanges>>

\* _exchange: writing the FIFO shifts an octet and brings one back.
BcmWriteFifo(to, read) ==
  /\ wiring = "bcm"
  /\ Budget
  /\ LET octet   == Octet(to, read, spi.written + 1, spi.frame)
         reached == bcm.cs = BridgeCs
         reply   == Transfer(slave, octet)
         miso    == IF reached THEN reply.miso ELSE "nobody"
     IN  /\ bcm' = BcmInterrupt([bcm EXCEPT !.rx = Append(@, miso),
                                            !.transmitted = Append(@, octet)])
         /\ slave' = IF reached THEN reply.slave ELSE slave
         /\ exchanges' = IF reached THEN Append(exchanges, <<octet, miso>>) ELSE exchanges
  /\ spi' = [spi EXCEPT !.written = @ + 1, !.excused = @ \/ ~bcm.ta]
  /\ UNCHANGED <<wiring, tegra>>

BcmReadFifo ==
  /\ wiring = "bcm"
  /\ bcm.rx # <<>>
  /\ bcm' = BcmInterrupt([bcm EXCEPT !.rx = Tail(@)])
  /\ UNCHANGED <<wiring, tegra, slave, exchanges, spi>>

-----------------------------------------------------------------------------
(* The Tegra master. *)

\* The octet an empty TX FIFO sends: all zero, so address 0 and a write.
Zero(frame) == Octet(0, FALSE, 0, frame)

TegraWriteFifo(to, read) ==
  /\ wiring = "tegra" /\ Budget
  /\ LET octet == Octet(to, read, spi.written + 1, 0)
     IN  tegra' = IF Len(tegra.tx) < TegraDepth
                  THEN [tegra EXCEPT !.tx = Append(@, octet)]
                  ELSE [tegra EXCEPT !.errors = @ \cup {"TX_OVF"}]
  /\ spi' = [spi EXCEPT !.written = @ + 1]
  /\ UNCHANGED <<wiring, bcm, slave, exchanges>>

TegraReadFifo ==
  /\ wiring = "tegra"
  /\ tegra' = IF tegra.rx = <<>> THEN [tegra EXCEPT !.errors = @ \cup {"RX_UNF"}]
              ELSE [tegra EXCEPT !.rx = Tail(@)]
  /\ UNCHANGED <<wiring, bcm, slave, exchanges, spi>>

\* One word of the transfer loop, on the state <<tegra, slave, exchanges>>.
TegraWord(frame, at) ==
  LET t     == at[1]
      octet == IF t.tx = <<>> THEN Zero(frame) ELSE [Head(t.tx) EXCEPT !.frame = frame]
      reply == Transfer(at[2], octet)
      here  == t.cs = BridgeCs
      miso  == IF here THEN reply.miso ELSE "nobody"
  IN  << [t EXCEPT
            !.tx = IF @ = <<>> THEN @ ELSE Tail(@),
            !.rx = IF Len(@) < TegraDepth THEN Append(@, miso) ELSE @,
            !.errors = @ \cup (IF t.tx = <<>> THEN {"TX_UNF"} ELSE {})
                         \cup (IF Len(t.rx) < TegraDepth THEN {} ELSE {"RX_OVF"}),
            !.transmitted = Append(@, octet)],
         IF here THEN reply.slave ELSE at[2],
         IF here THEN Append(at[3], <<octet, miso>>) ELSE at[3] >>

TegraWords(count, frame, start) ==
  LET At[i \in 0 .. count] == IF i = 0 THEN start ELSE TegraWord(frame, At[i - 1])
  IN  At[count]

TegraNotify(t, hook(_), s) == IF t.cs = BridgeCs THEN hook(s) ELSE s

\* _start_transfer: count words, framed by the hardware unless firmware took
\* chip select over (CS_SW_HW).
Transferred(t, count, frame) ==
  LET opened == IF t.selected THEN slave ELSE TegraNotify(t, Select, slave)
      end    == TegraWords(count, frame, <<[t EXCEPT !.selected = TRUE], opened, exchanges>>)
  IN  << [end[1] EXCEPT !.ready = TRUE, !.selected = t.soft],
         IF t.soft THEN end[2] ELSE TegraNotify(t, Deselect, end[2]),
         end[3] >>

\* A write of COMMAND1, with or without PIO (count words or none); M_S and the
\* enables of both directions stay set.
TegraCommand(cs, soft, value, count) ==
  /\ wiring = "tegra"
  /\ soft => SoftwareCs
  /\ ~soft => ~value /\ count > 0     \* nothing changes that PIO does not write again
  /\ Len(tegra.transmitted) + count <= MaxWords
  /\ LET t     == [tegra EXCEPT !.cs = cs, !.soft = soft, !.value = value]
         same  == soft /\ tegra.soft /\ value = tegra.value /\ cs = tegra.cs
         frame == IF same THEN spi.frame ELSE Len(tegra.transmitted) + 1
         after == IF count = 0 THEN <<t, slave, exchanges>>
                  ELSE Transferred(t, count, frame)
     IN  /\ tegra' = after[1] /\ slave' = after[2] /\ exchanges' = after[3]
         /\ spi' = [spi EXCEPT !.frame = IF count > 0 \/ soft THEN frame ELSE @]
  /\ UNCHANGED <<wiring, bcm>>

\* FIFO_STATUS: flush strobes, and error bits written as one to clear.
TegraFifoStatus(flush) ==
  /\ wiring = "tegra" /\ Budget
  /\ tegra' = [tegra EXCEPT !.tx = IF "TX" \in flush THEN <<>> ELSE @,
                            !.rx = IF "RX" \in flush THEN <<>> ELSE @,
                            !.errors = {}]
  /\ spi' = [spi EXCEPT !.setups = @ + 1]
  /\ UNCHANGED <<wiring, bcm, slave, exchanges>>

TegraAcknowledge ==
  /\ wiring = "tegra" /\ tegra.ready /\ Budget
  /\ tegra' = [tegra EXCEPT !.ready = FALSE]
  /\ spi' = [spi EXCEPT !.setups = @ + 1]
  /\ UNCHANGED <<wiring, bcm, slave, exchanges>>

\* Whether the next octet will be taken for an address; what any other octet
\* would mean as one makes no difference, so one value of it is enough.
Meaningful == Enabling \subseteq slave.cr /\ (slave.awaiting \/ ~slave.selected)

Master ==
  \/ \E cs \in Lines, ta \in BOOLEAN, ints \in {{}, {"INTR", "INTD"}}, clear \in BOOLEAN :
       BcmWriteCs(cs, ta, ints, clear)
  \/ \E to \in Addresses, read \in BOOLEAN :
       \/ BcmWriteFifo(to, read) /\ (Meaningful \/ <<to, read>> = <<0, FALSE>>)
       \/ TegraWriteFifo(to, read)
  \/ BcmReadFifo \/ TegraReadFifo \/ TegraAcknowledge
  \/ \E cs \in Lines, soft \in BOOLEAN, value \in BOOLEAN, count \in 0 .. 2 :
       TegraCommand(cs, soft, value, count)
  \/ \E flush \in SUBSET {"TX", "RX"} : TegraFifoStatus(flush)

-----------------------------------------------------------------------------
(* The slave's firmware. *)

SlaveStep(s) == slave' = s /\ UNCHANGED <<wiring, bcm, tegra, exchanges>>

SlaveReads ==
  /\ SlaveStep(ReadDr(slave))
  /\ spi' = [spi EXCEPT !.heard = IF slave.rx = <<>> THEN @ ELSE Append(@, Head(slave.rx))]

SlaveWrites ==
  /\ Len(spi.queued) < MaxAnswers
  /\ LET answer == Len(spi.queued) + 1
     IN  /\ SlaveStep(WriteDr(slave, answer))
         /\ spi' = [spi EXCEPT !.queued = IF "TXFF" \in Flags(slave) THEN @
                                          ELSE Append(@, answer)]

SlaveControl(bits, brk) ==
  /\ SlaveStep(WriteCr(slave, bits, brk))
  /\ spi' = [spi EXCEPT !.excused = @ \/ "RXE" \notin bits, !.setups = @ + 1]

SlaveAddress(address) ==
  /\ SlaveStep(WriteSlv(slave, address))
  /\ spi' = [spi EXCEPT !.setups = @ + 1]

SlaveMask(bits) ==
  /\ SlaveStep(WriteImsc(slave, bits))
  /\ spi' = [spi EXCEPT !.setups = @ + 1]

SlaveForgives ==
  /\ slave.overrun
  /\ SlaveStep(ClearOverrun(slave))
  /\ spi' = [spi EXCEPT !.excused = TRUE]

Slave ==
  \/ SlaveReads \/ SlaveWrites \/ SlaveForgives
  \/ \E bits \in Controls, brk \in BOOLEAN : Budget /\ SlaveControl(bits, brk)
  \/ \E address \in Addresses : Budget /\ SlaveAddress(address)
  \/ \E bits \in Masks : Budget /\ SlaveMask(bits)

SerialNext == Master \/ Slave

SerialSpec == SerialInit /\ [][SerialNext]_serialVars

-----------------------------------------------------------------------------
(* Properties. *)

\* Octets that firmware wrote, filler aside, are in the order it wrote them.
Increasing(seq) ==
  \A i, j \in DOMAIN seq : i < j /\ seq[i].n > 0 /\ seq[j].n > 0 => seq[i].n < seq[j].n

\* What the slave's firmware is to hear of a dialogue, and of the one going on.
Delivered(d) == IF d.read THEN <<>> ELSE d.payload
OctetsWritten(dialogues) == FlattenSeq([k \in DOMAIN dialogues |-> Delivered(dialogues[k])])
Ongoing(s) == IF s.reading THEN <<>> ELSE s.current

\* What the slave drove in an exchange.
OnMiso(pair) == IF pair[2] = Idle THEN <<>> ELSE <<pair[2]>>
OctetsDriven(pairs) == FlattenSeq([i \in DOMAIN pairs |-> OnMiso(pairs[i])])

\* A dialogue the slave takes part in lies within one assertion of chip select
\* by the master: framing survives every change of line, every octet written
\* outside a selection and every reconfiguration of the block
\* (_update_chip_select, _start_transfer, select, deselect).
DialoguesAreFrames ==
  LET one(payload) == \A i, j \in DOMAIN payload : payload[i].frame = payload[j].frame
  IN  /\ \A k \in DOMAIN slave.dialogues : one(slave.dialogues[k].payload)
      /\ one(slave.current)
      /\ \A k, l \in DOMAIN slave.dialogues :
           k < l => \A i \in DOMAIN slave.dialogues[k].payload,
                       j \in DOMAIN slave.dialogues[l].payload :
                      slave.dialogues[k].payload[i].frame # slave.dialogues[l].payload[j].frame

\* The payload of every write dialogue reaches the slave's firmware, once and in
\* order, unless the overrun flag says otherwise or firmware cleared it or RXE
\* (transfer, read_register DR).  Octets outside a selection are left out: what
\* was collected of them is not logged when the next selection begins.
HeardIsWritten ==
  ~spi.excused /\ ~slave.overrun =>
    spi.heard \o slave.rx = OctetsWritten(slave.dialogues) \o Ongoing(slave)

\* What the slave's firmware queued is driven on MISO once, in order, and the rest
\* is still in the FIFO, whatever the master does in between, BRK included.
QueuedIsAnswered == OctetsDriven(exchanges) \o slave.tx = spi.queued

\* A word given to a master leaves at most once and in the order given; what it
\* fills up with when it has none is not one of them.
WordsLeaveInOrder ==
  Increasing(tegra.transmitted \o tegra.tx) /\ Increasing(bcm.transmitted)

\* The link loses, repeats and invents nothing, in either direction.
LinkIsFaithful == HeardIsWritten /\ QueuedIsAnswered /\ WordsLeaveInOrder

\* What a poll of the flag register told the slave's firmware still holds when it
\* acts on it, although the other board had its turn in between: the master only
\* makes room in the TX FIFO and only adds to the RX FIFO.
PollsHold ==
  [][Master => /\ "TXFF" \notin Flags(slave) => "TXFF" \notin Flags(slave')
               /\ "RXFE" \notin Flags(slave) => "RXFE" \notin Flags(slave')]_serialVars
=============================================================================
