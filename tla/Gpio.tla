-------------------------------- MODULE Gpio --------------------------------
(***************************************************************************)
(* The two GPIO controllers: Broadcom (peripherals/gpio_bcm.py) and Tegra  *)
(* (peripherals/gpio_tegra.py), as operators on a record that holds one    *)
(* controller.  An array of booleans of the code, one per pin, is the set  *)
(* of pins where it is true.  The asynchronous edge enables of the         *)
(* Broadcom block act like the synchronous ones and are in the same sets.  *)
(***************************************************************************)
EXTENDS Naturals

CONSTANT Pins

\* What the outside world does to a pin: drive it high or low, or leave it.
World == {"high", "low", "released"}

Driven(g, p, level) ==
  [g EXCEPT !.high = IF level = "high" THEN @ \cup {p} ELSE @ \ {p},
            !.low  = IF level = "low" THEN @ \cup {p} ELSE @ \ {p}]

-----------------------------------------------------------------------------
(* Broadcom. *)

BcmAtReset ==
  [output |-> {}, out |-> {}, high |-> {}, low |-> {}, up |-> {}, pud |-> "off",
   rising |-> {}, falling |-> {}, ishigh |-> {}, islow |-> {},
   eds |-> {}, last |-> {}, irq |-> FALSE]

BcmLevels(g) ==
  (g.output \cap g.out) \cup ((g.high \cup (g.up \ g.low)) \ g.output)

\* MUTANT: a falling edge is compared with the new level.
BcmRefresh_RisingOnly(g) ==
  LET now == BcmLevels(g)
      eds == g.eds \cup ((now \ g.last) \cap g.rising)
                   \cup (now \cap g.ishigh) \cup (g.islow \ now)
  IN  [g EXCEPT !.eds = eds, !.last = now, !.irq = eds # {}]

\* _refresh_events: edges against the last level seen, and level events.
BcmRefresh(g) ==
  LET now == BcmLevels(g)
      eds == g.eds \cup ((now \ g.last) \cap g.rising) \cup ((g.last \ now) \cap g.falling)
                   \cup (now \cap g.ishigh) \cup (g.islow \ now)
  IN  [g EXCEPT !.eds = eds, !.last = now, !.irq = eds # {}]

BcmDriveInput(g, p, level) == BcmRefresh(Driven(g, p, level))

\* GPFSEL: whether a pin is an output; the alternate functions behave as input.
BcmWriteFsel(g, outputs) == BcmRefresh([g EXCEPT !.output = outputs])

BcmWriteSet(g, pins) == BcmRefresh([g EXCEPT !.out = @ \cup pins])

BcmWriteClear(g, pins) == BcmRefresh([g EXCEPT !.out = @ \ pins])

\* GPEDS, one to clear: a level that still holds is latched again by the next
\* refresh, not by this write.
BcmWriteEds(g, pins) == [g EXCEPT !.eds = @ \ pins, !.irq = g.eds \ pins # {}]

BcmWriteEdges(g, rising, falling) == [g EXCEPT !.rising = rising, !.falling = falling]

BcmWriteLevels(g, ishigh, islow) == BcmRefresh([g EXCEPT !.ishigh = ishigh, !.islow = islow])

\* The legacy sequence: GPPUD stages a pull, GPPUDCLK applies it to pins.
BcmWritePud(g, pull) == [g EXCEPT !.pud = pull]

BcmWritePudClock(g, pins) ==
  BcmRefresh([g EXCEPT !.up = IF g.pud = "up" THEN @ \cup pins ELSE @ \ pins])

-----------------------------------------------------------------------------
(* Tegra. *)

TegraAtReset ==
  [mode |-> {}, oe |-> {}, out |-> {}, high |-> {}, low |-> {},
   inten |-> {}, sta |-> {}, last |-> {}, irq |-> FALSE]

TegraOutputs(g) == g.mode \cap g.oe

TegraLevels(g) == (TegraOutputs(g) \cap g.out) \cup (g.high \ TegraOutputs(g))

\* _refresh: any change of an input raises its interrupt, whatever INT_LVL says.
TegraRefresh(g) ==
  LET now     == TegraLevels(g)
      changed == ((now \ g.last) \cup (g.last \ now)) \ TegraOutputs(g)
      sta     == g.sta \cup (changed \cap g.inten)
  IN  [g EXCEPT !.sta = sta, !.last = now, !.irq = sta # {}]

TegraDriveInput(g, p, level) == TegraRefresh(Driven(g, p, level))

\* One of the registers CNF, OE, OUT, INT_ENB, written whole or through its
\* masked alias (only the pins in mask).
TegraWrite(g, register, mask, pins) ==
  TegraRefresh([g EXCEPT ![register] = (@ \ mask) \cup (pins \cap mask)])

TegraWriteClear(g, pins) == [g EXCEPT !.sta = @ \ pins, !.irq = g.sta \ pins # {}]
=============================================================================
