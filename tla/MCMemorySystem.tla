--------------------------- MODULE MCMemorySystem ---------------------------
(***************************************************************************)
(* The adversarial memory under programs: those of Litmus, and, where test *)
(* is Free, two cores that do whatever they like for a while, on a buffer  *)
(* and a history small enough to overflow.                                 *)
(***************************************************************************)
EXTENDS Litmus

CONSTANT Ticks   \* BOUND: the clock of Free

ASSUME TicksAssumption == Ticks \in Nat

At(address, size) == [addr |-> address, size |-> size]

\* Two bytes of one reservation block, and the halfword that covers them.
Overlapping == {At(0, 1), At(1, 1), At(0, 2)}

\* A program that is never finished.
Free == [code |-> [c \in Core |-> <<dmb>>], forbidden |-> {}]

\* A second store spills, and the third tick prunes the history.
Small == INSTANCE MemorySystem WITH Capacity <- 1, Horizon <- 2, MaxClock <- Ticks

MInit ==
  \/ LInit
  \/ Init /\ test = Free /\ pc = [c \in Core |-> 1]

FreeStep ==
  /\ test = Free
  /\ \E c \in IF clock = 0 THEN {p0} ELSE {p0, p1} :   \* they are alike: p0 is the first
       \/ Small!Fetch(c)
       \/ Small!Silent(c)
       \/ \E a \in Access, r \in {r1, XZR} : Small!Loading(c, a, r) \/ Small!Reserving(c, a, r)
  /\ UNCHANGED <<test, pc>>

LitmusStep == test # Free /\ LNext

MSpec == MInit /\ [][FreeStep \/ LitmusStep]_lvars
=============================================================================
