--------------------------- MODULE Gic400_proofs ---------------------------
(***************************************************************************)
(* Facts about the operators of Gic400, for any cores, interrupts and      *)
(* priorities: what is presented to a core and where it is kept.           *)
(***************************************************************************)
EXTENDS Gic400, WellFoundedInduction, TLAPS

-----------------------------------------------------------------------------
(* The interrupt that is presented.                                        *)

\* A nonempty set of naturals has a least element.
LEMMA LeastNat ==
  ASSUME NEW S, S \subseteq Nat, S # {}
  PROVE  \E m \in S : \A k \in S : m <= k
<1>1. IsWellFoundedOn(OpToRel(<, Nat), Nat)
  BY NatLessThanWellFounded
<1>2. PICK m \in S : \A k \in S : ~(<<k, m>> \in OpToRel(<, Nat))
  BY <1>1, WFMin, Zenon
<1>3. ASSUME NEW k \in S PROVE m <= k
  <2>1. m \in Nat /\ k \in Nat
    OBVIOUS
  <2>2. ~(k < m)
    BY <1>2, <2>1, Zenon DEF OpToRel
  <2> QED BY <2>1, <2>2
<1> QED
  BY <1>3

\* A nonempty set of interrupts has a best one, so Best picks a member.
LEMMA BestIsMember ==
  ASSUME NEW S, S \subseteq Interrupt, S # {}, priority \in [Interrupt -> 0..255]
  PROVE  Best(S) \in S
<1> DEFINE Values == {priority[i] : i \in S}
           First(m) == {i \in S : priority[i] = m}
<1>1. \A i \in S : priority[i] \in Nat /\ i \in Nat
  BY InterruptAssumption
<1>2. Values \subseteq Nat /\ Values # {}
  BY <1>1
<1>3. PICK m \in Values : \A v \in Values : m <= v
  <2> HIDE DEF Values
  <2> QED BY <1>2, LeastNat
<1>4. First(m) \subseteq Nat /\ First(m) # {}
  BY <1>1, <1>3
<1>5. PICK i \in First(m) : \A j \in First(m) : i <= j
  <2> HIDE DEF First
  <2> QED BY <1>4, LeastNat
<1>6. ASSUME NEW j \in S
      PROVE  priority[i] < priority[j] \/ (priority[i] = priority[j] /\ i <= j)
  <2>1. priority[j] \in Values /\ priority[i] = m /\ m \in Nat /\ priority[j] \in Nat
    BY <1>1, <1>5, <1>6
  <2>2. m <= priority[j]
    BY <1>3, <2>1
  <2>3. CASE priority[j] = m
    BY <1>5, <1>6, <2>1, <2>3
  <2>4. CASE priority[j] # m
    BY <2>1, <2>2, <2>4
  <2> QED BY <2>3, <2>4
<1> QED
  BY <1>5, <1>6 DEF Best

\* What a core acknowledges is in use, and nobody is servicing it for that core.
LEMMA PresentedIsIdle ==
  ASSUME NEW c \in Cpu, NEW i \in Interrupt, priority \in [Interrupt -> 0..255],
         Acknowledge(c, i)
  PROVE  ~IsActiveFor(i, c)
<1> DEFINE S == Candidates(c, pending)
<1>1. S \subseteq Interrupt /\ \A j \in S : ~IsActiveFor(j, c)
  BY DEF Candidates
<1>2. i = Best(S) /\ S # {}
  <2>1. i # SPURIOUS_ID /\ HighestPriorityPending(c, pending) = i
    BY DEF Acknowledge
  <2> QED BY <2>1, Zenon DEF HighestPriorityPending
<1>3. Best(S) \in S
  <2> HIDE DEF S
  <2> QED BY <1>1, <1>2, BestIsMember
<1> QED
  BY <1>1, <1>2, <1>3

-----------------------------------------------------------------------------
(* Slots.                                                                  *)

LEMMA SlotFacts ==
  \A i \in Interrupt, c \in Cpu : Slot(i, c) \in Slots
BY DEF Slots

LEMMA AssignStays ==
  ASSUME NEW S, S \subseteq Slots, NEW slot \in Slots, NEW value
  PROVE  Assign(S, slot, value) \subseteq Slots
BY DEF Assign

\* Two cores share the slot of an interrupt only if it is a shared one.
LEMMA SharedSlots ==
  \A i \in Interrupt, j \in Interrupt, c \in Cpu, d \in Cpu :
    Slot(i, c) = Slot(j, d) <=> i = j /\ (i >= SPI_BASE \/ c = d)
<1>1. \A i \in Interrupt : i \in Int
  BY InterruptAssumption
<1> QED
  BY <1>1, CpuAssumption DEF Slot, SPI_BASE

-----------------------------------------------------------------------------
(* The handshake keeps the controller's state well formed.                 *)

LEMMA SendSgiType ==
  ASSUME TypeOK, NEW i \in SGI, NEW cpus \in SUBSET Cpu, SendSgi(i, cpus)
  PROVE  TypeOK'
<1>1. i \in Interrupt
  BY DEF SGI
<1>2. pending' \subseteq Slots
  BY <1>1, SlotFacts DEF SendSgi, TypeOK
<1> QED
  BY <1>1, <1>2 DEF SendSgi, interface, TypeOK

LEMMA AcknowledgeType ==
  ASSUME TypeOK, NEW c \in Cpu, NEW i \in Interrupt, Acknowledge(c, i)
  PROVE  TypeOK'
<1>1. CASE i < 16
  <2>1. AcknowledgeSgi(c, i) /\ i \in SGI
    BY <1>1 DEF Acknowledge, SGI
  <2> QED BY <2>1 DEF AcknowledgeSgi, interface, routing, TypeOK
<1>2. CASE ~(i < 16)
  <2>1. AcknowledgeLine(c, i)
    BY <1>2 DEF Acknowledge
  <2> QED BY <2>1, SlotFacts, AssignStays DEF AcknowledgeLine, interface, routing, sgis, TypeOK
<1> QED
  BY <1>1, <1>2

LEMMA EndOfInterruptType ==
  ASSUME TypeOK, NEW c \in Cpu, NEW i \in Interrupt, EndOfInterrupt(c, i)
  PROVE  TypeOK'
BY SlotFacts, AssignStays DEF EndOfInterrupt, SGI, interface, routing, sgis, TypeOK

\* What highest_priority_pending returns is an interrupt in use, or none.
LEMMA PresentedType ==
  ASSUME NEW c \in Cpu, NEW P, priority \in [Interrupt -> 0..255]
  PROVE  HighestPriorityPending(c, P) \in Interrupt \cup {SPURIOUS_ID}
<1>1. CASE Candidates(c, P) = {}
  BY <1>1, Zenon DEF HighestPriorityPending
<1>2. CASE Candidates(c, P) # {}
  <2>1. Candidates(c, P) \subseteq Interrupt
    BY DEF Candidates
  <2>2. Best(Candidates(c, P)) \in Interrupt
    BY <1>2, <2>1, BestIsMember
  <2>3. HighestPriorityPending(c, P) \in {Best(Candidates(c, P)), SPURIOUS_ID}
    BY Zenon DEF HighestPriorityPending
  <2> QED BY <2>2, <2>3
<1> QED
  BY <1>1, <1>2
=============================================================================
