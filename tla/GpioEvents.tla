----------------------------- MODULE GpioEvents -----------------------------
(***************************************************************************)
(* One GPIO controller, its firmware and the outside world, in any order.  *)
(***************************************************************************)
EXTENDS Gpio

CONSTANTS
  Controllers,            \* which controllers: subset of {"bcm", "tegra"}
  BcmPins, TegraPins      \* BOUND: the pins that firmware and the wires use on each

ASSUME PinsAssumption == BcmPins \cup TegraPins \subseteq Pins

VARIABLES
  controller,             \* the one on the bench
  port,                   \* its state
  owed                    \* history: pins whose event firmware has not cleared yet
gpioVars == <<controller, port, owed>>

Levels(g) == IF controller = "bcm" THEN BcmLevels(g) ELSE TegraLevels(g)

GpioInit ==
  /\ controller \in Controllers
  /\ port = IF controller = "bcm" THEN BcmAtReset ELSE TegraAtReset
  /\ owed = {}

\* The pins whose electrical level makes an event of it to go from g to h.
Events(g, h) ==
  LET before == Levels(g)
      now    == Levels(h)
  IN  IF controller = "bcm"
      THEN ((now \ before) \cap h.rising) \cup ((before \ now) \cap h.falling)
      ELSE (((now \ before) \cup (before \ now)) \cap h.inten) \ TegraOutputs(h)

Step(g) == port' = g /\ owed' = owed \cup Events(port, g) /\ UNCHANGED controller

Cleared(g, pins) == port' = g /\ owed' = owed \ pins /\ UNCHANGED controller

BcmAccess ==
  /\ controller = "bcm"
  /\ \/ \E pins \in SUBSET BcmPins :
          \/ Step(BcmWriteFsel(port, pins)) \/ Step(BcmWriteSet(port, pins))
          \/ Step(BcmWriteClear(port, pins)) \/ Step(BcmWritePudClock(port, pins))
          \/ Cleared(BcmWriteEds(port, pins), pins)
     \/ \E one, other \in SUBSET BcmPins :
          Step(BcmWriteEdges(port, one, other)) \/ Step(BcmWriteLevels(port, one, other))
     \/ \E pull \in {"off", "down", "up"} : Step(BcmWritePud(port, pull))

TegraAccess ==
  /\ controller = "tegra"
  /\ \/ \E register \in {"mode", "oe", "out", "inten"}, mask, pins \in SUBSET TegraPins :
          Step(TegraWrite(port, register, mask, pins))
     \/ \E pins \in SUBSET TegraPins : Cleared(TegraWriteClear(port, pins), pins)

Outside ==
  \E p \in IF controller = "bcm" THEN BcmPins ELSE TegraPins, level \in World :
    Step(IF controller = "bcm" THEN BcmDriveInput(port, p, level)
                               ELSE TegraDriveInput(port, p, level))

GpioNext == BcmAccess \/ TegraAccess \/ Outside

GpioSpec == GpioInit /\ [][GpioNext]_gpioVars

-----------------------------------------------------------------------------
Latched == IF controller = "bcm" THEN port.eds ELSE port.sta

\* The level a controller compares the next one with is the level the pin has:
\* whatever moves a pin (the world, a direction, an output, a pull) is noticed by
\* the operation that does it, and not blamed on the next one (_refresh_events,
\* _refresh).
LastLevelIsLevel == port.last = Levels(port)

\* An enabled event of a pin's level, whatever caused it, stays latched until
\* firmware clears that pin, the interrupt line is up exactly while one is, and no
\* later access is blamed for it.
GpioEventsStay ==
  owed \subseteq Latched /\ port.irq = (Latched # {}) /\ LastLevelIsLevel
=============================================================================
