----------------------------- MODULE Gpio_proofs -----------------------------
(***************************************************************************)
(* Theorems about the GPIO controllers and the boards they connect: one    *)
(* controller with any pins and any firmware (GpioEvents), and two boards  *)
(* with any slice, firmware that may crash and any budget (Machine).       *)
(***************************************************************************)
EXTENDS GpioEvents, Machine, Integers, TLAPS

-----------------------------------------------------------------------------
(* The controllers: types, levels and what a refresh latches.              *)

BcmState(P) ==
  [output : SUBSET P, out : SUBSET P, high : SUBSET P, low : SUBSET P, up : SUBSET P,
   pud : {"off", "down", "up"}, rising : SUBSET P, falling : SUBSET P,
   ishigh : SUBSET P, islow : SUBSET P, eds : SUBSET P, last : SUBSET P, irq : BOOLEAN]

TegraState(P) ==
  [mode : SUBSET P, oe : SUBSET P, out : SUBSET P, high : SUBSET P, low : SUBSET P,
   inten : SUBSET P, sta : SUBSET P, last : SUBSET P, irq : BOOLEAN]

\* The fields of a Broadcom block that a refresh leaves alone, in one place.
SameBcm(g, h) ==
  /\ h.output = g.output /\ h.out = g.out /\ h.high = g.high /\ h.low = g.low /\ h.up = g.up
  /\ h.rising = g.rising /\ h.falling = g.falling

SameTegra(g, h) ==
  /\ h.mode = g.mode /\ h.oe = g.oe /\ h.out = g.out /\ h.high = g.high /\ h.low = g.low
  /\ h.inten = g.inten

\* A refresh notes the levels there are, keeps what is latched, and latches the
\* edges that are enabled.
LEMMA BcmRefreshes ==
  ASSUME NEW P, NEW g \in BcmState(P)
  PROVE  LET h   == BcmRefresh(g)
             now == BcmLevels(g)
         IN  /\ h \in BcmState(P) /\ SameBcm(g, h)
             /\ h.last = now /\ BcmLevels(h) = now
             /\ g.eds \subseteq h.eds /\ h.irq = (h.eds # {})
             /\ ((now \ g.last) \cap g.rising) \cup ((g.last \ now) \cap g.falling) \subseteq h.eds
<1> DEFINE now == BcmLevels(g)
           eds == g.eds \cup ((now \ g.last) \cap g.rising) \cup ((g.last \ now) \cap g.falling)
                        \cup (now \cap g.ishigh) \cup (g.islow \ now)
           h == [g EXCEPT !.eds = eds, !.last = now, !.irq = eds # {}]
<1>1. BcmRefresh(g) = h
  BY DEF BcmRefresh
<1>2. now \in SUBSET P
  BY DEF BcmLevels, BcmState
<1>3. eds \in SUBSET P
  <2> HIDE DEF now
  <2> QED BY <1>2 DEF BcmState
<1>4. h \in BcmState(P) /\ SameBcm(g, h) /\ h.last = now /\ h.eds = eds /\ h.irq = (eds # {})
  <2> HIDE DEF now, eds
  <2> QED BY <1>2, <1>3 DEF BcmState, SameBcm
<1>5. BcmLevels(h) = now
  <2> HIDE DEF h
  <2> QED BY <1>4 DEF BcmLevels, SameBcm
<1> HIDE DEF h
<1> QED
  BY <1>1, <1>4, <1>5

LEMMA TegraRefreshes ==
  ASSUME NEW P, NEW g \in TegraState(P)
  PROVE  LET h   == TegraRefresh(g)
             now == TegraLevels(g)
         IN  /\ h \in TegraState(P) /\ SameTegra(g, h)
             /\ h.last = now /\ TegraLevels(h) = now
             /\ g.sta \subseteq h.sta /\ h.irq = (h.sta # {})
             /\ (((now \ g.last) \cup (g.last \ now)) \cap g.inten) \ TegraOutputs(g) \subseteq h.sta
<1> DEFINE now == TegraLevels(g)
           changed == ((now \ g.last) \cup (g.last \ now)) \ TegraOutputs(g)
           sta == g.sta \cup (changed \cap g.inten)
           h == [g EXCEPT !.sta = sta, !.last = now, !.irq = sta # {}]
<1>1. TegraRefresh(g) = h
  BY DEF TegraRefresh
<1>2. now \in SUBSET P
  BY DEF TegraLevels, TegraOutputs, TegraState
<1>3. sta \in SUBSET P
  <2> HIDE DEF changed
  <2> QED BY DEF TegraState
<1>4. h \in TegraState(P) /\ SameTegra(g, h) /\ h.last = now /\ h.sta = sta /\ h.irq = (sta # {})
  <2> HIDE DEF now, sta
  <2> QED BY <1>2, <1>3 DEF TegraState, SameTegra
<1>5. TegraLevels(h) = now
  <2> HIDE DEF h
  <2> QED BY <1>4 DEF TegraLevels, TegraOutputs, SameTegra
<1> HIDE DEF h
<1> QED
  BY <1>1, <1>4, <1>5

LEMMA BcmDrives ==
  ASSUME NEW P, NEW g \in BcmState(P), NEW p \in P, NEW level
  PROVE  /\ Driven(g, p, level) \in BcmState(P)
         /\ Driven(g, p, level).eds = g.eds /\ Driven(g, p, level).last = g.last
         /\ Driven(g, p, level).output = g.output /\ Driven(g, p, level).up = g.up
         /\ p \in Driven(g, p, level).high <=> level = "high"
BY DEF Driven, BcmState

LEMMA TegraDrives ==
  ASSUME NEW P, NEW g \in TegraState(P), NEW p \in P, NEW level
  PROVE  /\ Driven(g, p, level) \in TegraState(P)
         /\ Driven(g, p, level).sta = g.sta /\ Driven(g, p, level).last = g.last
         /\ Driven(g, p, level).oe = g.oe
         /\ p \in Driven(g, p, level).high <=> level = "high"
BY DEF Driven, TegraState

-----------------------------------------------------------------------------
(* Events stay.                                                            *)

\* GpioEventsStay needs the level a controller saw last to be the one there is, of
\* which it says so itself, and the port to be of its type.
PortInv ==
  /\ port \in IF controller = "bcm" THEN BcmState(Pins) ELSE TegraState(Pins)
  /\ GpioEventsStay

\* An access of the Broadcom block that ends in a refresh.
LEMMA BcmStepKeeps ==
  ASSUME PortInv, controller = "bcm", NEW g \in BcmState(Pins),
         g.eds = port.eds, g.last = port.last, Step(BcmRefresh(g))
  PROVE  PortInv'
<1> DEFINE h == BcmRefresh(g)
<1>1. /\ h \in BcmState(Pins) /\ SameBcm(g, h) /\ h.last = BcmLevels(g) /\ BcmLevels(h) = BcmLevels(g)
      /\ g.eds \subseteq h.eds /\ h.irq = (h.eds # {})
      /\ ((BcmLevels(g) \ g.last) \cap g.rising) \cup ((g.last \ BcmLevels(g)) \cap g.falling)
           \subseteq h.eds
  BY BcmRefreshes
<1> HIDE DEF h
<1>2. port' = h /\ owed' = owed \cup Events(port, h) /\ controller' = controller
  BY DEF Step, h
<1>3. Events(port, h) \subseteq h.eds
  <2>1. BcmLevels(port) = g.last
    BY DEF PortInv, GpioEventsStay, LastLevelIsLevel, Levels
  <2> QED BY <1>1, <2>1 DEF Events, Levels, SameBcm
<1>4. owed \subseteq h.eds
  BY <1>1 DEF PortInv, GpioEventsStay, Latched
<1> QED
  BY <1>1, <1>2, <1>3, <1>4 DEF PortInv, GpioEventsStay, Latched, LastLevelIsLevel, Levels

LEMMA TegraStepKeeps ==
  ASSUME PortInv, controller # "bcm", NEW g \in TegraState(Pins),
         g.sta = port.sta, g.last = port.last, Step(TegraRefresh(g))
  PROVE  PortInv'
<1> DEFINE h == TegraRefresh(g)
<1>1. /\ h \in TegraState(Pins) /\ SameTegra(g, h) /\ h.last = TegraLevels(g)
      /\ TegraLevels(h) = TegraLevels(g)
      /\ g.sta \subseteq h.sta /\ h.irq = (h.sta # {})
      /\ (((TegraLevels(g) \ g.last) \cup (g.last \ TegraLevels(g))) \cap g.inten) \ TegraOutputs(g)
           \subseteq h.sta
  BY TegraRefreshes
<1> HIDE DEF h
<1>2. port' = h /\ owed' = owed \cup Events(port, h) /\ controller' = controller
  BY DEF Step, h
<1>3. Events(port, h) \subseteq h.sta
  <2>1. TegraLevels(port) = g.last
    BY DEF PortInv, GpioEventsStay, LastLevelIsLevel, Levels
  <2>2. TegraOutputs(h) = TegraOutputs(g) /\ h.inten = g.inten
    BY <1>1 DEF TegraOutputs, SameTegra
  <2> QED BY <1>1, <2>1, <2>2 DEF Events, Levels
<1>4. owed \subseteq h.sta
  BY <1>1 DEF PortInv, GpioEventsStay, Latched
<1> QED
  BY <1>1, <1>2, <1>3, <1>4 DEF PortInv, GpioEventsStay, Latched, LastLevelIsLevel, Levels

LEMMA BcmAccessKeeps ==
  ASSUME PortInv, BcmAccess
  PROVE  PortInv'
<1>1. controller = "bcm" /\ port \in BcmState(Pins)
  BY DEF PortInv, BcmAccess
<1>2. ASSUME NEW pins \in SUBSET Pins, Step(BcmWriteFsel(port, pins))
      PROVE  PortInv'
  <2>1. /\ [port EXCEPT !.output = pins] \in BcmState(Pins)
        /\ [port EXCEPT !.output = pins].eds = port.eds
        /\ [port EXCEPT !.output = pins].last = port.last
    BY <1>1 DEF BcmState
  <2> QED BY <1>1, <1>2, <2>1, BcmStepKeeps DEF BcmWriteFsel
<1>3. ASSUME NEW pins \in SUBSET Pins, Step(BcmWriteSet(port, pins)) \/ Step(BcmWriteClear(port, pins))
      PROVE  PortInv'
  <2>1. ASSUME NEW out \in SUBSET Pins
        PROVE  /\ [port EXCEPT !.out = out] \in BcmState(Pins)
               /\ [port EXCEPT !.out = out].eds = port.eds
               /\ [port EXCEPT !.out = out].last = port.last
    BY <1>1 DEF BcmState
  <2>2. port.out \cup pins \in SUBSET Pins /\ port.out \ pins \in SUBSET Pins
    BY <1>1 DEF BcmState
  <2>3. /\ BcmWriteSet(port, pins) = BcmRefresh([port EXCEPT !.out = port.out \cup pins])
        /\ BcmWriteClear(port, pins) = BcmRefresh([port EXCEPT !.out = port.out \ pins])
    BY DEF BcmWriteSet, BcmWriteClear
  <2> QED BY <1>1, <1>3, <2>1, <2>2, <2>3, BcmStepKeeps
<1>4. ASSUME NEW pins \in SUBSET Pins, Step(BcmWritePudClock(port, pins))
      PROVE  PortInv'
  <2> DEFINE up == IF port.pud = "up" THEN port.up \cup pins ELSE port.up \ pins
  <2>1. up \in SUBSET Pins
    BY <1>1 DEF BcmState
  <2>2. BcmWritePudClock(port, pins) = BcmRefresh([port EXCEPT !.up = up])
    BY DEF BcmWritePudClock
  <2> HIDE DEF up
  <2>3. /\ [port EXCEPT !.up = up] \in BcmState(Pins)
        /\ [port EXCEPT !.up = up].eds = port.eds /\ [port EXCEPT !.up = up].last = port.last
    BY <1>1, <2>1 DEF BcmState
  <2> QED BY <1>1, <1>4, <2>2, <2>3, BcmStepKeeps
<1>5. ASSUME NEW pins \in SUBSET Pins, Cleared(BcmWriteEds(port, pins), pins)
      PROVE  PortInv'
  <2> DEFINE h == BcmWriteEds(port, pins)
  <2>1. /\ h \in BcmState(Pins) /\ SameBcm(port, h) /\ h.last = port.last
        /\ h.eds = port.eds \ pins /\ h.irq = (h.eds # {})
    BY <1>1 DEF BcmWriteEds, BcmState, SameBcm
  <2> HIDE DEF h
  <2>2. port' = h /\ owed' = owed \ pins /\ controller' = controller
    BY <1>5 DEF Cleared, h
  <2>3. BcmLevels(h) = BcmLevels(port)
    BY <2>1 DEF BcmLevels, SameBcm
  <2> QED BY <1>1, <2>1, <2>2, <2>3 DEF PortInv, GpioEventsStay, Latched, LastLevelIsLevel, Levels
<1>6. ASSUME NEW one \in SUBSET Pins, NEW other \in SUBSET Pins, Step(BcmWriteLevels(port, one, other))
      PROVE  PortInv'
  <2> DEFINE g == [port EXCEPT !.ishigh = one, !.islow = other]
  <2>1. g \in BcmState(Pins) /\ g.eds = port.eds /\ g.last = port.last
    BY <1>1 DEF BcmState
  <2> QED BY <1>1, <1>6, <2>1, BcmStepKeeps DEF BcmWriteLevels
<1>7. ASSUME NEW h \in BcmState(Pins), Step(h), h.eds = port.eds, h.last = port.last,
             h.irq = port.irq, BcmLevels(h) = BcmLevels(port)
      PROVE  PortInv'
  <2>1. port' = h /\ owed' = owed \cup Events(port, h) /\ controller' = controller
    BY <1>7 DEF Step
  <2>2. Events(port, h) = {}
    BY <1>1, <1>7 DEF Events, Levels
  <2> QED BY <1>1, <1>7, <2>1, <2>2 DEF PortInv, GpioEventsStay, Latched, LastLevelIsLevel, Levels
<1>8. ASSUME NEW one \in SUBSET Pins, NEW other \in SUBSET Pins, Step(BcmWriteEdges(port, one, other))
      PROVE  PortInv'
  <2> DEFINE h == [port EXCEPT !.rising = one, !.falling = other]
  <2>1. h \in BcmState(Pins) /\ h.eds = port.eds /\ h.last = port.last /\ h.irq = port.irq
        /\ BcmLevels(h) = BcmLevels(port)
    BY <1>1 DEF BcmState, BcmLevels
  <2> QED BY <1>7, <1>8, <2>1 DEF BcmWriteEdges
<1>9. ASSUME NEW pull \in {"off", "down", "up"}, Step(BcmWritePud(port, pull))
      PROVE  PortInv'
  <2> DEFINE h == [port EXCEPT !.pud = pull]
  <2>1. h \in BcmState(Pins) /\ h.eds = port.eds /\ h.last = port.last /\ h.irq = port.irq
        /\ BcmLevels(h) = BcmLevels(port)
    BY <1>1 DEF BcmState, BcmLevels
  <2> QED BY <1>7, <1>9, <2>1 DEF BcmWritePud
<1> QED
  BY <1>2, <1>3, <1>4, <1>5, <1>6, <1>8, <1>9, PinsAssumption DEF BcmAccess

LEMMA TegraAccessKeeps ==
  ASSUME PortInv, TegraAccess
  PROVE  PortInv'
<1>1. controller # "bcm" /\ port \in TegraState(Pins)
  BY DEF PortInv, TegraAccess
<1>2. ASSUME NEW register \in {"mode", "oe", "out", "inten"}, NEW mask \in SUBSET Pins,
             NEW pins \in SUBSET Pins, Step(TegraWrite(port, register, mask, pins))
      PROVE  PortInv'
  <2> DEFINE value == (port[register] \ mask) \cup (pins \cap mask)
             g == [port EXCEPT ![register] = value]
  <2>1. g \in TegraState(Pins) /\ g.sta = port.sta /\ g.last = port.last
    <3>1. value \in SUBSET Pins
      BY <1>1 DEF TegraState
    <3> HIDE DEF value
    <3>2. CASE register = "mode"
      BY <1>1, <3>1, <3>2 DEF TegraState
    <3>3. CASE register = "oe"
      BY <1>1, <3>1, <3>3 DEF TegraState
    <3>4. CASE register = "out"
      BY <1>1, <3>1, <3>4 DEF TegraState
    <3>5. CASE register = "inten"
      BY <1>1, <3>1, <3>5 DEF TegraState
    <3> QED BY <3>2, <3>3, <3>4, <3>5
  <2>2. TegraWrite(port, register, mask, pins) = TegraRefresh(g)
    BY DEF TegraWrite
  <2> HIDE DEF g
  <2> QED BY <1>1, <1>2, <2>1, <2>2, TegraStepKeeps
<1>3. ASSUME NEW pins \in SUBSET Pins, Cleared(TegraWriteClear(port, pins), pins)
      PROVE  PortInv'
  <2> DEFINE h == TegraWriteClear(port, pins)
  <2>1. /\ h \in TegraState(Pins) /\ SameTegra(port, h) /\ h.last = port.last
        /\ h.sta = port.sta \ pins /\ h.irq = (h.sta # {})
    BY <1>1 DEF TegraWriteClear, TegraState, SameTegra
  <2> HIDE DEF h
  <2>2. port' = h /\ owed' = owed \ pins /\ controller' = controller
    BY <1>3 DEF Cleared, h
  <2>3. TegraLevels(h) = TegraLevels(port)
    BY <2>1 DEF TegraLevels, TegraOutputs, SameTegra
  <2> QED BY <1>1, <2>1, <2>2, <2>3 DEF PortInv, GpioEventsStay, Latched, LastLevelIsLevel, Levels
<1> QED
  BY <1>2, <1>3, PinsAssumption DEF TegraAccess

LEMMA OutsideKeeps ==
  ASSUME PortInv, Outside
  PROVE  PortInv'
<1>1. PICK p \in Pins, level \in World :
        Step(IF controller = "bcm" THEN BcmDriveInput(port, p, level)
                                   ELSE TegraDriveInput(port, p, level))
  BY PinsAssumption DEF Outside
<1>2. CASE controller = "bcm"
  <2>1. port \in BcmState(Pins)
    BY <1>2 DEF PortInv
  <2>2. Step(BcmRefresh(Driven(port, p, level)))
    BY <1>1, <1>2 DEF BcmDriveInput
  <2> QED BY <1>2, <2>1, <2>2, BcmDrives, BcmStepKeeps
<1>3. CASE controller # "bcm"
  <2>1. port \in TegraState(Pins)
    BY <1>3 DEF PortInv
  <2>2. Step(TegraRefresh(Driven(port, p, level)))
    BY <1>1, <1>3 DEF TegraDriveInput
  <2> QED BY <1>3, <2>1, <2>2, TegraDrives, TegraStepKeeps
<1> QED
  BY <1>2, <1>3

\* An enabled event stays latched until firmware clears that pin, the interrupt line
\* is up exactly while one is latched, and the controller compares the next level
\* with the one there is: for any pins, any accesses and any wires, of both
\* controllers (_refresh_events, _refresh, write_register, drive_input).
THEOREM EventsStayLatched == GpioSpec => []GpioEventsStay
<1>1. GpioInit => PortInv
  <2> SUFFICES ASSUME GpioInit PROVE PortInv
    OBVIOUS
  <2>1. /\ BcmAtReset \in BcmState(Pins) /\ BcmLevels(BcmAtReset) = {}
        /\ TegraAtReset \in TegraState(Pins) /\ TegraLevels(TegraAtReset) = {}
    BY DEF BcmAtReset, TegraAtReset, BcmState, TegraState, BcmLevels, TegraLevels, TegraOutputs
  <2>2. /\ BcmAtReset.eds = {} /\ BcmAtReset.last = {} /\ BcmAtReset.irq = FALSE
        /\ TegraAtReset.sta = {} /\ TegraAtReset.last = {} /\ TegraAtReset.irq = FALSE
    BY DEF BcmAtReset, TegraAtReset
  <2> QED BY <2>1, <2>2 DEF GpioInit, PortInv, GpioEventsStay, Latched, LastLevelIsLevel, Levels
<1>2. PortInv /\ [GpioNext]_gpioVars => PortInv'
  <2> SUFFICES ASSUME PortInv, [GpioNext]_gpioVars PROVE PortInv'
    OBVIOUS
  <2>1. CASE UNCHANGED gpioVars
    BY <2>1 DEF gpioVars, PortInv, GpioEventsStay, Latched, LastLevelIsLevel, Levels
  <2> QED BY <2>1, BcmAccessKeeps, TegraAccessKeeps, OutsideKeeps DEF GpioNext
<1>3. PortInv => GpioEventsStay
  BY DEF PortInv
<1> QED
  BY <1>1, <1>2, <1>3, PTL DEF GpioSpec

-----------------------------------------------------------------------------
(* Two boards.                                                             *)

PiPort   == {g \in BcmState(Pins) : "in" \notin g.output \cup g.up}
NanoPort == {g \in TegraState(Pins) : "in" \notin g.oe}
PortOf(b) == IF b = "pi" THEN PiPort ELSE NanoPort

BoardState ==
  [place : Places, back : {"main", "loop"}, masked : BOOLEAN, halted : BOOLEAN,
   faultLoop : BOOLEAN, gpio : BcmState(Pins) \cup TegraState(Pins)]

\* A board's record with the port of board b: interrupts are masked exactly outside
\* its main program and its halt loop.
IsBoard(b, s) ==
  s \in BoardState /\ s.gpio \in PortOf(b) /\ s.masked = (s.place \notin {"main", "loop"})

\* What HaltedIsParked needs: a board on its halt loop is open to interrupts, so one
\* that stays there has none waiting; and whose turn it is, so that a board's report
\* is about the slice it had.
MachineInv ==
  /\ DOMAIN board = Boards /\ board = [b \in Boards |-> board[b]]
  /\ \A b \in Boards : IsBoard(b, board[b])
  /\ turn \in [running : BOOLEAN, of : Boards \cup {"nobody"}, left : Int, still : BOOLEAN]
  /\ ~turn.running => turn.of = "pi"
  /\ HaltedIsParked

\* The interrupt that is taken after an instruction.
LEMMA ServicedFacts ==
  ASSUME NEW b \in Boards, NEW s, IsBoard(b, s)
  PROVE  LET now == Serviced(s)
         IN  /\ IsBoard(b, now) /\ now.gpio = s.gpio /\ now.halted = s.halted
             /\ now.place = s.place => now.masked = s.masked /\ (s.gpio.irq => s.masked)
             /\ now.faultLoop = s.faultLoop
<1>1. s \in BoardState /\ s.gpio.irq \in BOOLEAN
  BY DEF IsBoard, BoardState, BcmState, TegraState
<1>2. CASE s.gpio.irq /\ ~s.masked
  <2> DEFINE now == [s EXCEPT !.place = "handler", !.back = s.place, !.masked = TRUE]
  <2>1. Serviced(s) = now
    BY <1>2 DEF Serviced
  <2>2. /\ now \in BoardState /\ now.gpio = s.gpio /\ now.halted = s.halted
        /\ now.place = "handler" /\ now.masked = TRUE /\ now.faultLoop = s.faultLoop
    BY <1>1, <1>2 DEF IsBoard, BoardState, Places
  <2> HIDE DEF now
  <2> QED BY <1>2, <2>1, <2>2 DEF IsBoard
<1>3. CASE ~(s.gpio.irq /\ ~s.masked)
  <2>1. Serviced(s) = s
    BY <1>3 DEF Serviced
  <2> QED BY <1>1, <1>3, <2>1
<1> QED
  BY <1>2, <1>3

\* An instruction of board b that leads to s.  It leaves the PC where it was only on
\* the halt loop or on a vector that faults.
LEMMA RanKeeps ==
  ASSUME MachineInv, SliceSize \in Nat, NEW b \in Boards, turn.running, turn.of = b,
         NEW s, IsBoard(b, s), NEW moved \in BOOLEAN, NEW faulted \in BOOLEAN,
         moved \/ (s.place = "loop" /\ ~faulted) \/ (s.place = "crash" /\ faulted),
         Ran(b, s, moved, faulted)
  PROVE  MachineInv'
<1> DEFINE now    == Serviced(s)
           stays  == ~moved /\ now.place = s.place
           parked == stays /\ turn.still
           loops  == parked /\ faulted /\ CountsExceptions(b)
           ends   == parked \/ turn.left = 1
           next   == [now EXCEPT !.halted = IF ends THEN parked /\ ~loops ELSE @,
                                 !.faultLoop = @ \/ loops]
<1>1. /\ board' = [board EXCEPT ![b] = next]
      /\ turn' = IF ends /\ b = "nano" THEN [turn EXCEPT !.of = "nobody"]
                 ELSE IF ends THEN [turn EXCEPT !.of = "nano", !.left = SliceSize, !.still = FALSE]
                 ELSE [turn EXCEPT !.left = @ - 1, !.still = stays]
  BY DEF Ran
<1>2. /\ IsBoard(b, now) /\ now.gpio = s.gpio
      /\ now.place = s.place => now.masked = s.masked /\ (s.gpio.irq => s.masked)
  BY ServicedFacts
<1>3. parked \in BOOLEAN /\ loops \in BOOLEAN /\ ends \in BOOLEAN /\ stays \in BOOLEAN
  OBVIOUS
<1>4. /\ IsBoard(b, next) /\ next.place = now.place /\ next.gpio = now.gpio
      /\ ends => next.halted = (parked /\ ~loops)
  <2> HIDE DEF now, parked, loops, ends
  <2>1. now \in BoardState
    BY <1>2 DEF IsBoard
  <2> QED BY <1>2, <1>3, <2>1 DEF IsBoard, BoardState
<1>5. ends /\ next.halted =>
        \/ next.place = "loop" /\ ~next.gpio.irq
        \/ next.place = "crash" /\ ~CountsExceptions(b)
  <2> HAVE ends /\ next.halted
  <2>1. parked /\ ~loops
    BY <1>4
  <2>2. ~moved /\ now.place = s.place /\ (s.gpio.irq => s.masked)
    BY <1>2, <2>1
  <2>3. CASE s.place = "loop"
    BY <1>2, <1>4, <2>2, <2>3 DEF IsBoard
  <2>4. CASE s.place = "crash" /\ faulted
    BY <1>4, <2>1, <2>2, <2>4
  <2> QED BY <2>2, <2>3, <2>4
<1>6. /\ board'[b] = next /\ \A d \in Boards \ {b} : board'[d] = board[d]
      /\ DOMAIN board' = Boards /\ board' = [d \in Boards |-> board'[d]]
  <2> HIDE DEF next
  <2> QED BY <1>1 DEF MachineInv
<1>7. \A d \in Boards : IsBoard(d, board'[d])
  BY <1>4, <1>6 DEF MachineInv
<1> HIDE DEF next
<1>8. /\ turn' \in [running : BOOLEAN, of : Boards \cup {"nobody"}, left : Int, still : BOOLEAN]
      /\ turn'.running
      /\ turn'.of = IF ends THEN IF b = "nano" THEN "nobody" ELSE "nano" ELSE b
  <2> HIDE DEF ends, stays
  <2>1. turn \in [running : BOOLEAN, of : Boards \cup {"nobody"}, left : Int, still : BOOLEAN]
    BY DEF MachineInv
  <2>2. CASE ends /\ b = "nano"
    BY <1>1, <2>1, <2>2 DEF Boards
  <2>3. CASE ends /\ b # "nano"
    <3>1. turn' = [turn EXCEPT !.of = "nano", !.left = SliceSize, !.still = FALSE]
      BY <1>1, <2>3, Zenon
    <3>2. turn' \in [running : BOOLEAN, of : {"nano"}, left : Int, still : BOOLEAN]
      <4>1. SliceSize \in Int
        OBVIOUS
      <4>2. turn' = [running |-> turn.running, of |-> "nano", left |-> SliceSize, still |-> FALSE]
        BY <2>1, <3>1
      <4> QED BY <2>1, <4>1, <4>2
    <3>3. turn'.running /\ turn'.of = "nano"
      BY <2>1, <3>1
    <3> QED BY <2>3, <3>2, <3>3 DEF Boards
  <2>4. CASE ~ends
    <3>1. turn' = [turn EXCEPT !.left = @ - 1, !.still = stays]
      BY <1>1, <2>4, Zenon
    <3>2. turn.left - 1 \in Int
      BY <2>1
    <3> QED BY <1>3, <2>1, <2>4, <3>1, <3>2
  <2> QED BY <2>2, <2>3, <2>4
<1>9. HaltedIsParked'
  <2> HIDE DEF ends
  <2>1. ASSUME NEW d \in Boards, board'[d].halted, turn'.running, turn'.of # d,
               d = "nano" => turn'.of = "nobody"
        PROVE  \/ board'[d].place = "loop" /\ ~board'[d].gpio.irq
               \/ board'[d].place = "crash" /\ ~CountsExceptions(d)
    <3>1. CASE d = b
      <4>1. ends
        BY <1>8, <2>1, <3>1
      <4> QED BY <1>5, <1>6, <2>1, <3>1, <4>1
    <3>2. CASE d # b
      <4>1. d = "pi" /\ b = "nano"
        BY <1>8, <2>1, <3>2 DEF Boards
      <4> QED BY <1>6, <2>1, <3>2, <4>1 DEF MachineInv, HaltedIsParked, HadItsSlice
    <3> QED BY <3>1, <3>2
  <2> QED BY <2>1 DEF HaltedIsParked, HadItsSlice
<1> QED
  BY <1>6, <1>7, <1>8, <1>9 DEF MachineInv

\* An instruction that changes the port, or the place.
LEMMA OutputPorts ==
  ASSUME {"in", "out"} \subseteq Pins, NEW b \in Boards, NEW g \in PortOf(b), NEW on \in BOOLEAN
  PROVE  /\ b = "nano" => /\ TegraWrite(g, "out", {"out"}, IF on THEN {"out"} ELSE {}) \in PortOf(b)
                          /\ TegraWrite(g, "oe", {"out"}, IF on THEN {"out"} ELSE {}) \in PortOf(b)
                          /\ TegraWriteClear(g, {"in"}) \in PortOf(b)
         /\ b = "pi" => /\ BcmWriteSet(g, {"out"}) \in PortOf(b)
                        /\ BcmWriteClear(g, {"out"}) \in PortOf(b)
                        /\ BcmWriteFsel(g, IF on THEN {"out"} ELSE {}) \in PortOf(b)
                        /\ BcmWriteEds(g, {"in"}) \in PortOf(b)
<1> DEFINE pins == IF on THEN {"out"} ELSE {}
<1>0. pins \in SUBSET Pins /\ "in" \notin pins
  OBVIOUS
<1>1. CASE b = "nano"
  <2>1. g \in TegraState(Pins) /\ "in" \notin g.oe /\ PortOf(b) = NanoPort
    BY <1>1 DEF PortOf, NanoPort
  <2>2. ASSUME NEW h \in TegraState(Pins), "in" \notin h.oe
        PROVE  TegraRefresh(h) \in NanoPort
    BY <2>2, TegraRefreshes DEF NanoPort, SameTegra
  <2>3. TegraWrite(g, "out", {"out"}, pins) \in NanoPort
    <3> DEFINE out == (g.out \ {"out"}) \cup (pins \cap {"out"})
               h == [g EXCEPT !.out = out]
    <3>1. out \in SUBSET Pins
      BY <1>0, <2>1 DEF TegraState
    <3> HIDE DEF out
    <3>2. h \in TegraState(Pins) /\ h.oe = g.oe
      BY <2>1, <3>1 DEF TegraState
    <3>3. TegraWrite(g, "out", {"out"}, pins) = TegraRefresh(h)
      BY DEF TegraWrite, out
    <3> HIDE DEF h
    <3> QED BY <2>1, <2>2, <3>2, <3>3
  <2>4. TegraWrite(g, "oe", {"out"}, pins) \in NanoPort
    <3> DEFINE oe == (g.oe \ {"out"}) \cup (pins \cap {"out"})
               h == [g EXCEPT !.oe = oe]
    <3>1. oe \in SUBSET Pins /\ "in" \notin oe
      BY <1>0, <2>1 DEF TegraState
    <3> HIDE DEF oe
    <3>2. h \in TegraState(Pins) /\ h.oe = oe
      BY <2>1, <3>1 DEF TegraState
    <3>3. TegraWrite(g, "oe", {"out"}, pins) = TegraRefresh(h)
      BY DEF TegraWrite, oe
    <3> HIDE DEF h
    <3> QED BY <2>2, <3>1, <3>2, <3>3
  <2>5. TegraWriteClear(g, {"in"}) \in NanoPort
    BY <2>1 DEF TegraWriteClear, NanoPort, TegraState
  <2> QED BY <1>1, <2>1, <2>3, <2>4, <2>5
<1>2. CASE b = "pi"
  <2>1. g \in BcmState(Pins) /\ "in" \notin g.output \cup g.up /\ PortOf(b) = PiPort
    BY <1>2 DEF PortOf, PiPort
  <2>2. ASSUME NEW h \in BcmState(Pins), "in" \notin h.output \cup h.up
        PROVE  BcmRefresh(h) \in PiPort
    BY <2>2, BcmRefreshes DEF PiPort, SameBcm
  <2>3. ASSUME NEW out \in SUBSET Pins
        PROVE  BcmRefresh([g EXCEPT !.out = out]) \in PiPort
    <3> DEFINE h == [g EXCEPT !.out = out]
    <3>1. h \in BcmState(Pins) /\ "in" \notin h.output \cup h.up
      BY <2>1 DEF BcmState
    <3> HIDE DEF h
    <3>2. BcmRefresh(h) \in PiPort
      BY <2>2, <3>1
    <3> QED BY <3>2 DEF h
  <2>4. BcmWriteSet(g, {"out"}) \in PiPort /\ BcmWriteClear(g, {"out"}) \in PiPort
    <3>1. g.out \cup {"out"} \in SUBSET Pins /\ g.out \ {"out"} \in SUBSET Pins
      BY <2>1 DEF BcmState
    <3> QED BY <2>3, <3>1 DEF BcmWriteSet, BcmWriteClear
  <2>5. BcmWriteFsel(g, pins) \in PiPort
    <3> DEFINE h == [g EXCEPT !.output = pins]
    <3> HIDE DEF pins
    <3>1. h \in BcmState(Pins) /\ "in" \notin h.output \cup h.up
      BY <1>0, <2>1 DEF BcmState
    <3>2. BcmWriteFsel(g, pins) = BcmRefresh(h)
      BY DEF BcmWriteFsel
    <3> HIDE DEF h
    <3> QED BY <2>2, <3>1, <3>2
  <2>6. BcmWriteEds(g, {"in"}) \in PiPort
    BY <2>1 DEF BcmWriteEds, PiPort, BcmState
  <2> QED BY <1>2, <2>1, <2>4, <2>5, <2>6
<1> QED
  BY <1>1, <1>2

LEMMA InstructionMachine ==
  ASSUME MachineInv, SliceSize \in Nat, {"in", "out"} \subseteq Pins, NEW b \in Boards, Instruction(b)
  PROVE  MachineInv'
<1> DEFINE s == board[b]
<1>1. turn.running /\ turn.of = b
  BY DEF Instruction, WriteOutput, WriteDirection, Compute, Park, Spin, Crash, FaultAgain,
         AcknowledgeEvent, Return, Turn
<1>2. IsBoard(b, s) /\ s \in BoardState /\ s.gpio \in PortOf(b)
  BY DEF MachineInv, IsBoard
<1> HIDE DEF s
<1>3. ASSUME NEW g \in PortOf(b)
      PROVE  IsBoard(b, [s EXCEPT !.gpio = g])
  <2>1. g \in BcmState(Pins) \cup TegraState(Pins)
    BY DEF PortOf, PiPort, NanoPort
  <2> QED BY <1>2, <2>1 DEF IsBoard, BoardState
<1>4. ASSUME NEW on \in BOOLEAN, WriteOutput(b, on) \/ WriteDirection(b, on)
      PROVE  MachineInv'
  <2>1. PICK g \in PortOf(b) : Ran(b, [s EXCEPT !.gpio = g], TRUE, FALSE)
    <3>1. CASE WriteOutput(b, on)
      <4> DEFINE g == IF b = "nano"
                      THEN TegraWrite(s.gpio, "out", {"out"}, IF on THEN {"out"} ELSE {})
                      ELSE IF on THEN BcmWriteSet(s.gpio, {"out"}) ELSE BcmWriteClear(s.gpio, {"out"})
      <4>1. g \in PortOf(b)
        BY <1>2, OutputPorts DEF Boards
      <4>2. Ran(b, [s EXCEPT !.gpio = g], TRUE, FALSE)
        BY <3>1 DEF WriteOutput, s
      <4> HIDE DEF g
      <4> QED BY <4>1, <4>2
    <3>2. CASE WriteDirection(b, on)
      <4> DEFINE g == IF b = "nano"
                      THEN TegraWrite(s.gpio, "oe", {"out"}, IF on THEN {"out"} ELSE {})
                      ELSE BcmWriteFsel(s.gpio, IF on THEN {"out"} ELSE {})
      <4>1. g \in PortOf(b)
        BY <1>2, OutputPorts DEF Boards
      <4>2. Ran(b, [s EXCEPT !.gpio = g], TRUE, FALSE)
        BY <3>2 DEF WriteDirection, s
      <4> HIDE DEF g
      <4> QED BY <4>1, <4>2
    <3> QED BY <1>4, <3>1, <3>2
  <2> QED BY <1>1, <1>3, <2>1, RanKeeps
<1>5. CASE Compute(b)
  BY <1>1, <1>2, <1>5, RanKeeps DEF Compute, s
<1>6. CASE Park(b)
  <2>1. IsBoard(b, [s EXCEPT !.place = "loop"])
    BY <1>2, <1>6 DEF Park, Turn, IsBoard, BoardState, Places, s
  <2> QED BY <1>1, <1>6, <2>1, RanKeeps DEF Park, s
<1>7. CASE Spin(b)
  BY <1>1, <1>2, <1>7, RanKeeps DEF Spin, Turn, s
<1>8. CASE Crash(b)
  <2>1. IsBoard(b, [s EXCEPT !.place = "crash", !.masked = TRUE])
    BY <1>2 DEF IsBoard, BoardState, Places
  <2> QED BY <1>1, <1>8, <2>1, RanKeeps DEF Crash, s
<1>9. CASE FaultAgain(b)
  BY <1>1, <1>2, <1>9, RanKeeps DEF FaultAgain, Turn, s
<1>10. CASE AcknowledgeEvent(b)
  <2> DEFINE g == IF b = "pi" THEN BcmWriteEds(s.gpio, {"in"}) ELSE TegraWriteClear(s.gpio, {"in"})
  <2>1. g \in PortOf(b)
    BY <1>2, OutputPorts DEF Boards
  <2>2. Ran(b, [s EXCEPT !.place = "return", !.gpio = g], TRUE, FALSE) /\ s.place = "handler"
    BY <1>10 DEF AcknowledgeEvent, Turn, s
  <2> HIDE DEF g
  <2>3. IsBoard(b, [s EXCEPT !.place = "return", !.gpio = g])
    <3>1. g \in BcmState(Pins) \cup TegraState(Pins)
      BY <2>1 DEF PortOf, PiPort, NanoPort
    <3> QED BY <1>2, <2>1, <2>2, <3>1 DEF IsBoard, BoardState, Places
  <2> QED BY <1>1, <2>2, <2>3, RanKeeps
<1>11. CASE Return(b)
  <2>1. IsBoard(b, [s EXCEPT !.place = s.back, !.masked = FALSE])
    BY <1>2 DEF IsBoard, BoardState, Places
  <2> QED BY <1>1, <1>11, <2>1, RanKeeps DEF Return, s
<1> QED
  BY <1>4, <1>5, <1>6, <1>7, <1>8, <1>9, <1>10, <1>11 DEF Instruction

\* A level put on the input of a port is the level it then has: the pin is not an
\* output and nothing pulls it up.
LEMMA DrivenPort ==
  ASSUME {"in", "out"} \subseteq Pins, NEW b \in Boards, NEW g \in PortOf(b), NEW level
  PROVE  LET h == IF b = "pi" THEN BcmDriveInput(g, "in", level) ELSE TegraDriveInput(g, "in", level)
         IN  /\ h \in PortOf(b)
             /\ "in" \in (IF b = "pi" THEN BcmLevels(h) ELSE TegraLevels(h)) <=> level = "high"
<1>1. CASE b = "pi"
  <2> DEFINE d == Driven(g, "in", level)
  <2>1. g \in BcmState(Pins) /\ "in" \notin g.output \cup g.up
    BY <1>1 DEF PortOf, PiPort
  <2>2. d \in BcmState(Pins) /\ "in" \notin d.output \cup d.up /\ ("in" \in d.high <=> level = "high")
    BY <2>1, BcmDrives
  <2> HIDE DEF d
  <2>3. /\ BcmRefresh(d) \in BcmState(Pins) /\ SameBcm(d, BcmRefresh(d))
        /\ BcmLevels(BcmRefresh(d)) = BcmLevels(d)
    BY <2>2, BcmRefreshes
  <2>4. "in" \in BcmLevels(d) <=> level = "high"
    BY <2>2 DEF BcmLevels
  <2>5. BcmRefresh(d) \in PiPort
    BY <2>2, <2>3 DEF PiPort, SameBcm
  <2>6. BcmDriveInput(g, "in", level) = BcmRefresh(d)
    BY DEF BcmDriveInput, d
  <2> QED BY <1>1, <2>3, <2>4, <2>5, <2>6 DEF PortOf
<1>2. CASE b = "nano"
  <2> DEFINE d == Driven(g, "in", level)
  <2>1. g \in TegraState(Pins) /\ "in" \notin g.oe
    BY <1>2 DEF PortOf, NanoPort
  <2>2. d \in TegraState(Pins) /\ "in" \notin d.oe /\ ("in" \in d.high <=> level = "high")
    BY <2>1, TegraDrives
  <2> HIDE DEF d
  <2>3. /\ TegraRefresh(d) \in TegraState(Pins) /\ SameTegra(d, TegraRefresh(d))
        /\ TegraLevels(TegraRefresh(d)) = TegraLevels(d)
    BY <2>2, TegraRefreshes
  <2>4. "in" \in TegraLevels(d) <=> level = "high"
    BY <2>2 DEF TegraLevels, TegraOutputs
  <2>5. TegraRefresh(d) \in NanoPort
    BY <2>2, <2>3 DEF NanoPort, SameTegra
  <2>6. TegraDriveInput(g, "in", level) = TegraRefresh(d)
    BY DEF TegraDriveInput, d
  <2> QED BY <1>2, <2>3, <2>4, <2>5, <2>6 DEF PortOf
<1> QED
  BY <1>1, <1>2 DEF Boards

\* Settling the wires.
LEMMA SettledKeeps ==
  ASSUME MachineInv, {"in", "out"} \subseteq Pins, Settled
  PROVE  /\ DOMAIN board' = Boards /\ board' = [b \in Boards |-> board'[b]]
         /\ \A b \in Boards : IsBoard(b, board'[b])
         /\ \A b \in Boards : PinLevel(b, "in")' = (OnWire(Other(b)) = "high")
<1>1. board' = [b \in Boards |-> [board[b] EXCEPT !.gpio = Drive(b, OnWire(Other(b)))]]
  BY DEF Settled
<1>2. DOMAIN board' = Boards /\ board' = [b \in Boards |-> board'[b]]
  BY <1>1
<1>3. ASSUME NEW b \in Boards
      PROVE  IsBoard(b, board'[b]) /\ PinLevel(b, "in")' = (OnWire(Other(b)) = "high")
  <2> DEFINE level == OnWire(Other(b))
             s     == board[b]
             h     == Drive(b, level)
             next  == [s EXCEPT !.gpio = h]
  <2>1. IsBoard(b, s) /\ s \in BoardState /\ s.gpio \in PortOf(b)
    BY DEF MachineInv, IsBoard
  <2>2. board'[b] = next
    BY <1>1
  <2>3. h = IF b = "pi" THEN BcmDriveInput(s.gpio, "in", level)
                        ELSE TegraDriveInput(s.gpio, "in", level)
    BY DEF Drive
  <2> HIDE DEF h, s, level
  <2>4. /\ h \in PortOf(b)
        /\ "in" \in (IF b = "pi" THEN BcmLevels(h) ELSE TegraLevels(h)) <=> level = "high"
    BY <2>1, <2>3, DrivenPort
  <2>5. h \in BcmState(Pins) \cup TegraState(Pins)
    BY <2>4 DEF PortOf, PiPort, NanoPort
  <2>6. IsBoard(b, next) /\ next.gpio = h
    BY <2>1, <2>4, <2>5 DEF IsBoard, BoardState
  <2> HIDE DEF next
  <2>7. PinLevel(b, "in")' = ("in" \in IF b = "pi" THEN BcmLevels(h) ELSE TegraLevels(h))
    BY <2>2, <2>6 DEF PinLevel
  <2>8. CASE b = "pi"
    BY <2>2, <2>4, <2>6, <2>7, <2>8 DEF level
  <2>9. CASE b # "pi"
    BY <2>2, <2>4, <2>6, <2>7, <2>9 DEF level
  <2> QED BY <2>8, <2>9
<1> QED
  BY <1>2, <1>3

LEMMA MachineStarts ==
  ASSUME SliceSize \in Nat, {"in", "out"} \subseteq Pins, MachineInit
  PROVE  MachineInv
<1> DEFINE pi   == BcmWriteEdges(BcmWriteFsel(BcmAtReset, {"out"}), {"in"}, {"in"})
           all  == TegraWrite(TegraAtReset, "mode", Pins, Pins)
           out  == TegraWrite(all, "oe", Pins, {"out"})
           nano == TegraWrite(out, "inten", Pins, {"in"})
           first(g) == [place |-> "main", back |-> "main", masked |-> FALSE, halted |-> FALSE,
                        faultLoop |-> FALSE, gpio |-> g]
<1>1. pi \in PiPort
  <2> DEFINE f == [BcmAtReset EXCEPT !.output = {"out"}]
  <2>1. f \in BcmState(Pins) /\ f.output = {"out"} /\ f.up = {}
    BY DEF BcmAtReset, BcmState
  <2> HIDE DEF f
  <2>2. /\ BcmRefresh(f) \in BcmState(Pins)
        /\ BcmRefresh(f).output = {"out"} /\ BcmRefresh(f).up = {}
    BY <2>1, BcmRefreshes DEF SameBcm
  <2>3. pi = [BcmRefresh(f) EXCEPT !.rising = {"in"}, !.falling = {"in"}]
    BY DEF BcmWriteEdges, BcmWriteFsel, f
  <2> HIDE DEF pi
  <2> QED BY <2>2, <2>3 DEF BcmState, PiPort
<1>2. ASSUME NEW g \in TegraState(Pins), NEW register \in {"mode", "oe", "inten"},
             NEW pins \in SUBSET Pins
      PROVE  /\ TegraWrite(g, register, Pins, pins) \in TegraState(Pins)
             /\ TegraWrite(g, register, Pins, pins).oe = IF register = "oe" THEN pins ELSE g.oe
  <2> DEFINE h == [g EXCEPT ![register] = pins]
  <2>1. (g[register] \ Pins) \cup (pins \cap Pins) = pins
    BY DEF TegraState
  <2>2. TegraWrite(g, register, Pins, pins) = TegraRefresh(h)
    BY <2>1 DEF TegraWrite
  <2>3. h \in TegraState(Pins) /\ h.oe = IF register = "oe" THEN pins ELSE g.oe
    BY DEF TegraState
  <2> HIDE DEF h
  <2> QED BY <2>2, <2>3, TegraRefreshes DEF SameTegra
<1>3. nano \in NanoPort
  <2>1. TegraAtReset \in TegraState(Pins)
    BY DEF TegraAtReset, TegraState
  <2>2. all \in TegraState(Pins)
    BY <1>2, <2>1
  <2> HIDE DEF all
  <2>3. out \in TegraState(Pins) /\ out.oe = {"out"}
    BY <1>2, <2>2
  <2> HIDE DEF out
  <2>4. nano \in TegraState(Pins) /\ nano.oe = {"out"}
    BY <1>2, <2>3
  <2> HIDE DEF nano
  <2> QED BY <2>4 DEF NanoPort
<1>4. board = [b \in Boards |-> first(IF b = "pi" THEN pi ELSE nano)]
  BY DEF MachineInit
<1>5. turn = [running |-> FALSE, of |-> "pi", left |-> SliceSize, still |-> FALSE]
  BY DEF MachineInit
<1> HIDE DEF pi, nano
<1>6. ASSUME NEW b \in Boards
      PROVE  IsBoard(b, board[b]) /\ board[b].halted = FALSE
  <2>1. (IF b = "pi" THEN pi ELSE nano) \in PortOf(b)
    BY <1>1, <1>3 DEF PortOf
  <2> QED BY <1>1, <1>3, <1>4, <2>1 DEF IsBoard, BoardState, Places, PiPort, NanoPort
<1>7. DOMAIN board = Boards /\ board = [b \in Boards |-> board[b]]
  <2> HIDE DEF first
  <2> QED BY <1>4
<1>8. turn \in [running : BOOLEAN, of : Boards \cup {"nobody"}, left : Int, still : BOOLEAN]
  <2>1. SliceSize \in Int
    OBVIOUS
  <2> QED BY <1>5, <2>1 DEF Boards
<1> QED
  BY <1>5, <1>6, <1>7, <1>8 DEF MachineInv, HaltedIsParked

\* Whose turn it is when a round, or Machine.run, begins or ends.
LEMMA BeginsWithPi ==
  ASSUME SliceSize \in Nat, MachineInv, {"in", "out"} \subseteq Pins,
         Settled \/ UNCHANGED <<board, wire>>,
         turn' = Slices \/ turn' = [Slices EXCEPT !.running = FALSE]
  PROVE  MachineInv'
<1>1. /\ DOMAIN board' = Boards /\ board' = [b \in Boards |-> board'[b]]
      /\ \A b \in Boards : IsBoard(b, board'[b])
  <2>1. CASE Settled
    BY <2>1, SettledKeeps
  <2>2. CASE UNCHANGED <<board, wire>>
    BY <2>2 DEF MachineInv
  <2> QED BY <2>1, <2>2
<1>2. /\ turn' \in [running : BOOLEAN, of : Boards \cup {"nobody"}, left : Int, still : BOOLEAN]
      /\ turn'.of = "pi"
  <2>1. SliceSize \in Int
    OBVIOUS
  <2>2. PICK on \in BOOLEAN :
          turn' = [running |-> on, of |-> "pi", left |-> SliceSize, still |-> FALSE]
    <3>1. CASE turn' = Slices
      BY <3>1 DEF Slices
    <3>2. CASE turn' = [Slices EXCEPT !.running = FALSE]
      <4>1. turn' = [running |-> FALSE, of |-> "pi", left |-> SliceSize, still |-> FALSE]
        BY <3>2 DEF Slices
      <4> QED BY <4>1
    <3> QED BY <3>1, <3>2
  <2> QED BY <2>1, <2>2 DEF Boards
<1>3. HaltedIsParked'
  BY <1>2 DEF HaltedIsParked, HadItsSlice, Boards
<1> QED
  BY <1>1, <1>2, <1>3 DEF MachineInv

LEMMA MachineKeeps ==
  ASSUME SliceSize \in Nat, {"in", "out"} \subseteq Pins, MachineInv, [MachineNext]_machineVars
  PROVE  MachineInv'
<1>1. CASE \E b \in Boards : Instruction(b)
  BY <1>1, InstructionMachine
<1>2. CASE \E spent \in BOOLEAN : EndRound(spent)
  BY <1>2, BeginsWithPi DEF EndRound
<1>3. CASE CallRun
  BY <1>3, BeginsWithPi DEF CallRun
<1>4. CASE CallRunUntil
  BY <1>4, BeginsWithPi DEF CallRunUntil
<1>5. CASE UNCHANGED machineVars
  BY <1>5 DEF machineVars, MachineInv, HaltedIsParked, HadItsSlice
<1> QED
  BY <1>1, <1>2, <1>3, <1>4, <1>5 DEF MachineNext

\* A board reported as halted at the end of its slice spins with no interrupt waiting,
\* or loops in faults where the core does not count exceptions: whatever the size of a
\* slice, the other pins, the budgets, and the firmware (Board.run).
THEOREM HaltedBoardsAreParked ==
  ASSUME SliceSize \in Nat, {"in", "out"} \subseteq Pins
  PROVE  MachineSpec => []HaltedIsParked
<1>1. MachineInit => MachineInv
  BY MachineStarts
<1>2. MachineInv /\ [MachineNext]_machineVars => MachineInv'
  BY MachineKeeps
<1>3. MachineInv => HaltedIsParked
  BY DEF MachineInv
<1> QED
  BY <1>1, <1>2, <1>3, PTL DEF MachineSpec

\* When a round ends each input pin takes the level that the other board drives, or
\* its pull's, for any slice and any firmware (GpioLink.settle, step_slice).
THEOREM InputsTakeTheLevel ==
  ASSUME SliceSize \in Nat, {"in", "out"} \subseteq Pins
  PROVE  MachineSpec => InputsFollowWires
<1>1. MachineInit => MachineInv
  BY MachineStarts
<1>2. MachineInv /\ [MachineNext]_machineVars => MachineInv'
  BY MachineKeeps
<1>3. MachineInv /\ [MachineNext]_machineVars => [InputsFollow]_machineVars
  <2> SUFFICES ASSUME MachineInv, MachineNext, turn.of = "nobody", NEW b \in Boards
               PROVE  PinLevel(b, "in")' = (OnWire(Other(b)) = "high")
    BY DEF InputsFollow
  <2>1. turn.running
    BY DEF MachineInv
  <2>2. ~\E d \in Boards : Instruction(d)
    BY DEF Instruction, WriteOutput, WriteDirection, Compute, Park, Spin, Crash, FaultAgain,
           AcknowledgeEvent, Return, Turn, Boards
  <2>3. Settled
    BY <2>1, <2>2 DEF MachineNext, EndRound, CallRun, CallRunUntil
  <2> QED BY <2>3, SettledKeeps
<1> QED
  BY <1>1, <1>2, <1>3, PTL DEF MachineSpec, InputsFollowWires
=============================================================================
