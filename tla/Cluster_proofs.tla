--------------------------- MODULE Cluster_proofs ---------------------------
(***************************************************************************)
(* Theorems about Cluster, for any number of cores, any programs, devices, *)
(* slice and store latency, and both drivers.                              *)
(***************************************************************************)
EXTENDS Cluster, Gic400_proofs, FiniteSetTheorems

\* The inductive invariant.  NoSleepThroughEvent rests on the executing core being
\* a running one, which is the last conjunct of ClusterTypeOK; the counters of the
\* store buffers have to be functions, so that EXCEPT says what they become.
ClusterInv ==
  /\ ClusterTypeOK
  /\ unpublished \in [Cpu -> [count : Nat, wait : Nat]]
  /\ NoSleepThroughEvent
  /\ HaltedIsSpinning

-----------------------------------------------------------------------------
(* The scheduler's turn.                                                   *)

LEMMA CpuRange == Cpu \subseteq Nat /\ 0 \in Cpu
<1> DEFINE n == Cardinality(Cpu) - 1
<1>1. n \in Int /\ Cpu = 0..n
  BY CoreAssumption, FS_CardinalityType
<1>2. 0..n # {}
  BY <1>1, CoreAssumption
<1> QED
  BY <1>1, <1>2

\* After the last core comes the first one.
LEMMA NextTurn ==
  ASSUME turn \in Cpu
  PROVE  (IF \A d \in Cpu : d <= turn THEN 0 ELSE turn + 1) \in Cpu
<1> DEFINE n == Cardinality(Cpu) - 1
<1>1. n \in Int /\ Cpu = 0..n
  BY CoreAssumption, FS_CardinalityType
<1>2. CASE \A d \in Cpu : d <= turn
  BY <1>2, CpuRange
<1>3. CASE ~ \A d \in Cpu : d <= turn
  <2>1. PICK d \in Cpu : ~(d <= turn)
    BY <1>3
  <2>2. turn + 1 \in 0..n
    <3> HIDE DEF n
    <3> QED BY <1>1, <2>1
  <2> QED BY <1>1, <1>3, <2>2
<1> QED
  BY <1>2, <1>3

\* What a turn's end leaves: a scheduler that is about to deliver interrupts, and
\* the stores as they were, unless run returns and drains them.
LEMMA EndTurnFacts ==
  ASSUME turn \in Cpu, NEW k, NEW stores, EndTurn(k, stores)
  PROVE  /\ turn' \in Cpu /\ left' \in 1..SLICE_SIZE /\ phase' = "deliver"
         /\ stopped' \in BOOLEAN
         /\ unpublished' = stores \/ unpublished' = [d \in Cpu |-> Empty]
<1>1. left' \in 1..SLICE_SIZE
  BY SliceAssumption DEF EndTurn
<1>2. turn' = IF \A d \in Cpu : d <= turn THEN 0 ELSE turn + 1
  BY DEF EndTurn
<1>3. turn' \in Cpu
  BY <1>2, NextTurn
<1>4. /\ phase' = "deliver" /\ stopped' \in BOOLEAN
      /\ unpublished' = stores \/ unpublished' = [d \in Cpu |-> Empty]
  BY DEF EndTurn
<1> QED
  BY <1>1, <1>3, <1>4

-----------------------------------------------------------------------------
(* The store buffers, as far as the scheduler is concerned.                *)

\* A buffer that holds no more than has been issued, and counts down if it holds any.
Counted(b, n) ==
  b.count \in 0..n /\ b.wait \in 0..LATENCY /\ (b.count = 0) = (b.wait = 0)

Counts(u, n) ==
  u \in [Cpu -> [count : Nat, wait : Nat]] /\ \A c \in Cpu : Counted(u[c], n[c])

LEMMA EmptyCounts ==
  ASSUME NEW n \in [Cpu -> 0..MaxStores]
  PROVE  Counts([d \in Cpu |-> Empty], n)
BY LatencyAssumption, StoresAssumption DEF Counts, Counted, Empty

LEMMA BufferSteps ==
  ASSUME NEW b \in [count : Nat, wait : Nat], NEW n \in Nat, Counted(b, n)
  PROVE  /\ Empty \in [count : Nat, wait : Nat] /\ Counted(Empty, n)
         /\ Retired(b) \in [count : Nat, wait : Nat] /\ Counted(Retired(b), n)
         /\ Pushed(Retired(b)) \in [count : Nat, wait : Nat]
         /\ Counted(Pushed(Retired(b)), n + 1)
<1>1. Empty \in [count : Nat, wait : Nat] /\ Counted(Empty, n)
  BY LatencyAssumption DEF Empty, Counted
<1>2. Retired(b) \in [count : Nat, wait : Nat] /\ Counted(Retired(b), n)
  <2>1. CASE b.wait > 1
    BY <2>1, LatencyAssumption DEF Retired, Counted
  <2>2. CASE b.wait = 1 /\ b.count > 1
    BY <2>2, LatencyAssumption DEF Retired, Counted
  <2>3. CASE ~(b.wait > 1) /\ ~(b.wait = 1 /\ b.count > 1)
    BY <1>1, <2>3 DEF Retired
  <2> QED BY <2>1, <2>2, <2>3
<1>3. ASSUME NEW r \in [count : Nat, wait : Nat], Counted(r, n)
      PROVE  Pushed(r) \in [count : Nat, wait : Nat] /\ Counted(Pushed(r), n + 1)
  <2>1. CASE r.count = 0
    BY <2>1, LatencyAssumption DEF Pushed, Counted
  <2>2. CASE r.count # 0
    BY <1>3, <2>2, LatencyAssumption DEF Pushed, Counted
  <2> QED BY <2>1, <2>2
<1> QED
  BY <1>1, <1>2, <1>3

-----------------------------------------------------------------------------
(* The cores.                                                              *)

\* Core records a step may leave while it is core turn's: nobody waits for an event
\* it holds, and whoever else is halted was so before and is where it was.
Sound(k) ==
  /\ k \in [Cpu -> CoreState]
  /\ \A c \in Cpu : k[c].wfe => ~k[c].event
  /\ \A c \in Cpu \ {turn} : k[c].halted =>
       /\ core[c].halted /\ k[c].place = core[c].place
       /\ k[c].elr = core[c].elr /\ k[c].masked = core[c].masked

\* The core whose turn it is becomes r.
LEMMA BecomesSound ==
  ASSUME ClusterInv, NEW r \in CoreState, r.wfe => ~r.event
  PROVE  Sound(Becomes(r))
<1>1. core \in [Cpu -> CoreState] /\ turn \in Cpu
  BY DEF ClusterInv, ClusterTypeOK
<1>2. \A c \in Cpu : core[c].wfe => ~core[c].event
  BY DEF ClusterInv, NoSleepThroughEvent
<1> QED
  BY <1>1, <1>2 DEF Sound, Becomes

\* The executing core is running.
LEMMA SelfFacts ==
  ASSUME ClusterInv, phase = "execute"
  PROVE  /\ turn \in Cpu /\ core[turn] \in CoreState /\ Self \in CoreState
         /\ ~core[turn].wfe /\ ~core[turn].halted /\ ~Self.wfe
<1>1. core \in [Cpu -> CoreState] /\ turn \in Cpu /\ IsRunning(core[turn])
  BY DEF ClusterInv, ClusterTypeOK
<1>2. core[turn] \in CoreState /\ ~core[turn].wfe /\ ~core[turn].halted
  BY <1>1 DEF IsRunning
<1>3. ASSUME NEW r \in CoreState
      PROVE  Onward(r) \in CoreState /\ Onward(r).wfe = r.wfe
  <2>1. {"program", "handler"} \subseteq Place
    BY DEF Place
  <2> QED BY <2>1 DEF Onward, CoreState
<1> QED
  BY <1>1, <1>2, <1>3 DEF Self

\* The rest of the cycle, after an instruction that leaves the cores sound.
LEMMA FinishKeeps ==
  ASSUME ClusterInv, NEW k, NEW effect \in {"none", "drain", "store"},
         Sound(k), Finish(k, effect), effect = "store" => issued[turn] < MaxStores,
         TypeOK', UNCHANGED <<device, instr>>
  PROVE  ClusterInv'
<1> DEFINE done == [k EXCEPT ![turn].halted = Halts(core[turn], k[turn]),
                             ![turn].previous = core[turn].place]
           buffer == unpublished[turn]
           after == CASE effect = "drain" -> Empty
                      [] effect = "store" -> Pushed(Retired(buffer))
                      [] OTHER -> Retired(buffer)
           stores == [unpublished EXCEPT ![turn] = after]
<1>1. /\ core \in [Cpu -> CoreState] /\ turn \in Cpu /\ left \in 1..SLICE_SIZE
      /\ issued \in [Cpu -> 0..MaxStores] /\ stopped \in BOOLEAN
      /\ Counts(unpublished, issued) /\ device \subseteq Wired /\ instr \in Programs
  BY DEF ClusterInv, ClusterTypeOK, Counts, Counted
<1>2. core' = done
  BY DEF Finish
<1>3. k \in [Cpu -> CoreState] /\ core[turn].place \in Place
  BY <1>1 DEF Sound, CoreState
<1>4. Halts(core[turn], k[turn]) \in BOOLEAN
  BY DEF Halts
<1>5. /\ done \in [Cpu -> CoreState]
      /\ \A c \in Cpu \ {turn} : done[c] = k[c]
      /\ done[turn] = [k[turn] EXCEPT !.halted = Halts(core[turn], k[turn]),
                                      !.previous = core[turn].place]
  <2>1. k[turn] \in CoreState
    BY <1>1, <1>3
  <2>2. [k[turn] EXCEPT !.halted = Halts(core[turn], k[turn]),
                        !.previous = core[turn].place] \in CoreState
    BY <1>3, <1>4, <2>1 DEF CoreState
  <2> QED BY <1>1, <1>3, <2>2
<1>6. /\ done[turn].wfe = k[turn].wfe /\ done[turn].event = k[turn].event
      /\ done[turn].place = k[turn].place
      /\ done[turn].halted = Halts(core[turn], k[turn])
  <2>1. k[turn] \in CoreState
    BY <1>1, <1>3
  <2> QED BY <1>5, <2>1 DEF CoreState
<1>7. NoSleepThroughEvent'
  BY <1>1, <1>2, <1>5, <1>6 DEF Sound, NoSleepThroughEvent
<1>8. HaltedIsSpinning'
  <2>1. ASSUME NEW c \in Cpu, done[c].halted
        PROVE  \/ done[c].place = "loop"
               \/ done[c].place = "vector" /\ done[c].elr.place = "loop" /\ done[c].masked
    <3>1. CASE c = turn
      BY <1>6, <2>1, <3>1 DEF Halts
    <3>2. CASE c # turn
      <4>1. /\ core[c].halted /\ done[c].place = core[c].place
            /\ done[c].elr = core[c].elr /\ done[c].masked = core[c].masked
        BY <1>5, <2>1, <3>2 DEF Sound
      <4> QED BY <4>1 DEF ClusterInv, HaltedIsSpinning
    <3> QED BY <3>1, <3>2
  <2> QED BY <1>2, <2>1 DEF HaltedIsSpinning
<1>9. /\ issued' \in [Cpu -> 0..MaxStores]
      /\ Counts(stores, issued')
  <2>1. issued[turn] \in Nat /\ buffer \in [count : Nat, wait : Nat] /\ Counted(buffer, issued[turn])
    BY <1>1, StoresAssumption DEF Counts
  <2>2. CASE effect = "store"
    <3>1. issued' = [issued EXCEPT ![turn] = @ + 1]
      BY <2>2 DEF Finish
    <3>2. after = Pushed(Retired(buffer))
      BY <2>2
    <3>3. after \in [count : Nat, wait : Nat] /\ Counted(after, issued[turn] + 1)
      BY <2>1, <3>2, BufferSteps
    <3>4. issued' \in [Cpu -> 0..MaxStores] /\ issued'[turn] = issued[turn] + 1
      BY <1>1, <2>1, <2>2, <3>1, StoresAssumption
    <3> HIDE DEF after
    <3> QED BY <1>1, <3>1, <3>3, <3>4 DEF Counts
  <2>3. CASE effect # "store"
    <3>1. issued' = issued
      BY <1>1, <2>3 DEF Finish
    <3>2. after = Empty \/ after = Retired(buffer)
      BY <2>3
    <3>3. after \in [count : Nat, wait : Nat] /\ Counted(after, issued[turn])
      BY <2>1, <3>2, BufferSteps
    <3> HIDE DEF after
    <3> QED BY <1>1, <3>1, <3>3 DEF Counts
  <2> QED BY <2>2, <2>3
<1>10. /\ turn' \in Cpu /\ left' \in 1..SLICE_SIZE /\ phase' = "deliver" /\ stopped' \in BOOLEAN
       /\ unpublished' = stores \/ unpublished' = [d \in Cpu |-> Empty]
  <2>1. CASE EndTurn(done, stores)
    BY <1>1, <2>1, EndTurnFacts
  <2>2. CASE ~EndTurn(done, stores)
    <3>1. /\ left # 1 /\ left' = left - 1 /\ phase' = "deliver"
          /\ unpublished' = stores /\ turn' = turn /\ stopped' = stopped
      BY <2>2, Zenon DEF Finish
    <3> QED BY <1>1, <3>1, SliceAssumption
  <2> QED BY <2>1, <2>2
<1>11. Counts(unpublished', issued')
  BY <1>9, <1>10, EmptyCounts
<1> QED
  BY <1>1, <1>2, <1>5, <1>7, <1>8, <1>9, <1>10, <1>11
  DEF ClusterInv, ClusterTypeOK, Counts, Counted

\* An instruction that changes its own core only.
LEMMA InstructionKeeps ==
  ASSUME ClusterInv, NEW r \in CoreState, r.wfe => ~r.event,
         NEW effect \in {"none", "drain", "store"},
         Finish(Becomes(r), effect), effect = "store" => issued[turn] < MaxStores,
         TypeOK', UNCHANGED <<device, instr>>
  PROVE  ClusterInv'
<1>1. Sound(Becomes(r))
  BY BecomesSound
<1> QED
  BY <1>1, FinishKeeps

LEMMA GicStays ==
  ASSUME TypeOK, UNCHANGED gic
  PROVE  TypeOK'
BY DEF TypeOK, gic, gvars, interface, routing, sgis

\* An exception leaves the core masked at the vector.
LEMMA VectoredType ==
  ASSUME NEW k \in CoreState
  PROVE  /\ Vectored(k) \in CoreState
         /\ Vectored(k).wfe = k.wfe /\ Vectored(k).event = k.event
         /\ Vectored(k).halted = k.halted /\ Vectored(k).powered = k.powered
         /\ Vectored(k).wfi = k.wfi
         /\ Vectored(k).place = "vector" /\ Vectored(k).elr.place = k.place
         /\ Vectored(k).masked
BY DEF Vectored, CoreState, Place

-----------------------------------------------------------------------------
(* Each instruction keeps the invariant.                                   *)

LEMMA ExecuteKeeps ==
  ASSUME ClusterInv, Execute
  PROVE  ClusterInv'
<1>1. phase = "execute"
  BY DEF Execute, May, SelfBranch, GoToLoop, Plain, Fault, ExceptionReturn, Mask,
         WaitForInterrupt, WaitForEvent, SendEvent, SendEventLocal, BufferedStore, Drain,
         Interprocessor, ReadIar, WriteEoir, CpuOn, CpuOff
<1>2. /\ turn \in Cpu /\ core[turn] \in CoreState /\ Self \in CoreState
      /\ ~core[turn].wfe /\ ~core[turn].halted /\ ~Self.wfe
  BY <1>1, SelfFacts
<1>3. TypeOK /\ core \in [Cpu -> CoreState]
  BY DEF ClusterInv, ClusterTypeOK
<1>4. \A c \in Cpu : core[c].wfe => ~core[c].event
  BY DEF ClusterInv, NoSleepThroughEvent
<1>5. CASE SelfBranch
  <2>1. Sound(core)
    BY <1>3, <1>4 DEF Sound
  <2>2. Finish(core, "none") /\ UNCHANGED <<device, instr>> /\ TypeOK'
    BY <1>3, <1>5, GicStays DEF SelfBranch
  <2> QED BY <2>1, <2>2, FinishKeeps
<1>6. CASE GoToLoop
  <2>1. /\ [Self EXCEPT !.place = "loop"] \in CoreState
        /\ ~[Self EXCEPT !.place = "loop"].wfe
    BY <1>2 DEF CoreState, Place
  <2>2. /\ Finish(Becomes([Self EXCEPT !.place = "loop"]), "none")
        /\ UNCHANGED <<device, instr>> /\ TypeOK'
    BY <1>3, <1>6, GicStays DEF GoToLoop
  <2> QED BY <2>1, <2>2, InstructionKeeps
<1>7. CASE Plain \/ BufferedStore \/ Drain
  <2>1. PICK effect \in {"none", "drain", "store"} :
          /\ Finish(Becomes(Self), effect) /\ UNCHANGED <<gic, device, instr>>
          /\ effect = "store" => issued[turn] < MaxStores
    BY <1>7 DEF Plain, BufferedStore, Drain
  <2>2. TypeOK'
    BY <1>3, <2>1, GicStays
  <2> QED BY <1>2, <2>1, <2>2, InstructionKeeps
<1>8. CASE Fault
  <2>1. Vectored(core[turn]) \in CoreState /\ ~Vectored(core[turn]).wfe
    BY <1>2, VectoredType
  <2>2. Finish(Becomes(Vectored(core[turn])), "drain") /\ UNCHANGED <<device, instr>> /\ TypeOK'
    BY <1>3, <1>8, GicStays DEF Fault
  <2> QED BY <2>1, <2>2, InstructionKeeps
<1>9. CASE ExceptionReturn
  <2> DEFINE r == [Self EXCEPT !.place = core[turn].elr.place, !.masked = core[turn].elr.masked]
  <2>1. r \in CoreState /\ ~r.wfe
    BY <1>2 DEF CoreState
  <2>2. Finish(Becomes(r), "drain") /\ UNCHANGED <<device, instr>> /\ TypeOK'
    BY <1>3, <1>9, GicStays DEF ExceptionReturn
  <2> QED BY <2>1, <2>2, InstructionKeeps
<1>10. ASSUME NEW on \in BOOLEAN, Mask(on)
       PROVE  ClusterInv'
  <2>1. [Self EXCEPT !.masked = on] \in CoreState /\ ~[Self EXCEPT !.masked = on].wfe
    BY <1>2 DEF CoreState
  <2>2. /\ Finish(Becomes([Self EXCEPT !.masked = on]), "none")
        /\ UNCHANGED <<device, instr>> /\ TypeOK'
    BY <1>3, <1>10, GicStays DEF Mask
  <2> QED BY <2>1, <2>2, InstructionKeeps
<1>11. CASE WaitForInterrupt
  <2>1. [Self EXCEPT !.wfi = TRUE] \in CoreState /\ ~[Self EXCEPT !.wfi = TRUE].wfe
    BY <1>2 DEF CoreState
  <2>2. /\ Finish(Becomes([Self EXCEPT !.wfi = TRUE]), "none")
        /\ UNCHANGED <<device, instr>> /\ TypeOK'
    BY <1>3, <1>11, GicStays DEF WaitForInterrupt
  <2> QED BY <2>1, <2>2, InstructionKeeps
<1>12. CASE WaitForEvent
  <2> DEFINE r == [Self EXCEPT !.wfe = ~core[turn].event, !.event = FALSE]
  <2>1. r \in CoreState /\ ~r.event
    BY <1>2 DEF CoreState
  <2>2. Finish(Becomes(r), "none") /\ UNCHANGED <<device, instr>> /\ TypeOK'
    BY <1>3, <1>12, GicStays DEF WaitForEvent
  <2> QED BY <2>1, <2>2, InstructionKeeps
<1>13. CASE SendEvent
  <2> DEFINE woken(d) == IF d = turn THEN Self ELSE [core[d] EXCEPT !.wfe = FALSE]
             k == [d \in Cpu |-> [woken(d) EXCEPT !.event = TRUE]]
  <2>1. Finish(k, "none") /\ UNCHANGED <<device, instr>> /\ TypeOK'
    BY <1>3, <1>13, GicStays DEF SendEvent
  <2>2. ASSUME NEW d \in Cpu
        PROVE  /\ k[d] \in CoreState /\ ~k[d].wfe
               /\ d # turn => /\ k[d].halted = core[d].halted /\ k[d].place = core[d].place
                              /\ k[d].elr = core[d].elr /\ k[d].masked = core[d].masked
    <3>1. core[d] \in CoreState
      BY <1>3
    <3>2. CASE d = turn
      BY <1>2, <3>2 DEF CoreState
    <3>3. CASE d # turn
      BY <3>1, <3>3 DEF CoreState
    <3> QED BY <3>2, <3>3
  <2>3. Sound(k)
    <3>1. k \in [Cpu -> CoreState]
      BY <2>2
    <3> HIDE DEF k
    <3> QED BY <2>2, <3>1 DEF Sound
  <2> HIDE DEF k
  <2> QED BY <2>1, <2>3, FinishKeeps
<1>14. CASE SendEventLocal
  <2>1. [Self EXCEPT !.event = TRUE] \in CoreState /\ ~[Self EXCEPT !.event = TRUE].wfe
    BY <1>2 DEF CoreState
  <2>2. /\ Finish(Becomes([Self EXCEPT !.event = TRUE]), "none")
        /\ UNCHANGED <<device, instr>> /\ TypeOK'
    BY <1>3, <1>14, GicStays DEF SendEventLocal
  <2> QED BY <2>1, <2>2, InstructionKeeps
<1>15. ASSUME NEW i \in SGI, NEW cpus \in SUBSET Cpu \ {{}}, Interprocessor(i, cpus)
       PROVE  ClusterInv'
  <2>1. TypeOK'
    BY <1>3, <1>15, SendSgiType DEF Interprocessor
  <2> QED BY <1>2, <1>15, <2>1, InstructionKeeps DEF Interprocessor
<1>16. CASE ReadIar
  <2> DEFINE i == HighestPriorityPending(turn, pending)
             r == [Self EXCEPT !.iar = i]
  <2>1. i \in Interrupt \cup {SPURIOUS_ID}
    BY <1>2, <1>3, PresentedType DEF TypeOK
  <2>2. TypeOK'
    <3>1. CASE i = SPURIOUS_ID
      BY <1>3, <1>16, <3>1, GicStays DEF ReadIar
    <3>2. CASE i # SPURIOUS_ID
      BY <1>2, <1>3, <1>16, <2>1, <3>2, AcknowledgeType DEF ReadIar
    <3> QED BY <3>1, <3>2
  <2>3. r \in CoreState /\ ~r.wfe
    <3> HIDE DEF i
    <3> QED BY <1>2, <2>1 DEF CoreState
  <2>4. Finish(Becomes(r), "none") /\ UNCHANGED <<device, instr>>
    BY <1>16 DEF ReadIar
  <2> HIDE DEF r
  <2> QED BY <2>2, <2>3, <2>4, InstructionKeeps
<1>17. CASE WriteEoir
  <2>1. core[turn].iar \in Interrupt
    BY <1>2, <1>17 DEF WriteEoir, CoreState
  <2>2. TypeOK'
    BY <1>2, <1>3, <1>17, <2>1, EndOfInterruptType DEF WriteEoir
  <2>3. [Self EXCEPT !.iar = SPURIOUS_ID] \in CoreState /\ ~[Self EXCEPT !.iar = SPURIOUS_ID].wfe
    BY <1>2 DEF CoreState
  <2>4. Finish(Becomes([Self EXCEPT !.iar = SPURIOUS_ID]), "none") /\ UNCHANGED <<device, instr>>
    BY <1>17 DEF WriteEoir
  <2> QED BY <2>2, <2>3, <2>4, InstructionKeeps
<1>18. ASSUME NEW d \in Cpu, CpuOn(d)
       PROVE  ClusterInv'
  <2> DEFINE k == Becomes(Self)
             on == [k EXCEPT ![d] = PoweredOn(@)]
  <2>1. UNCHANGED <<device, instr>> /\ TypeOK'
    BY <1>3, <1>18, GicStays DEF CpuOn
  <2>2. Sound(k)
    BY <1>2, BecomesSound
  <2>3. Sound(on)
    <3>1. k \in [Cpu -> CoreState]
      BY <2>2 DEF Sound
    <3>2. ASSUME NEW r \in CoreState
          PROVE  PoweredOn(r) \in CoreState /\ ~PoweredOn(r).wfe /\ ~PoweredOn(r).halted
      BY DEF PoweredOn, Reset, CoreState, Place
    <3>3. PoweredOn(k[d]) \in CoreState /\ ~PoweredOn(k[d]).wfe /\ ~PoweredOn(k[d]).halted
      BY <3>1, <3>2
    <3> HIDE DEF k
    <3> QED BY <2>2, <3>1, <3>3 DEF Sound
  <2>4. Finish(k, "none") \/ Finish(on, "none")
    BY <1>18 DEF CpuOn
  <2> HIDE DEF on, k
  <2> QED BY <2>1, <2>2, <2>3, <2>4, FinishKeeps
<1>19. CASE CpuOff
  <2>1. [Self EXCEPT !.powered = FALSE] \in CoreState /\ ~[Self EXCEPT !.powered = FALSE].wfe
    BY <1>2 DEF CoreState
  <2>2. /\ Finish(Becomes([Self EXCEPT !.powered = FALSE]), "none")
        /\ UNCHANGED <<device, instr>> /\ TypeOK'
    BY <1>3, <1>19, GicStays DEF CpuOff
  <2> QED BY <2>1, <2>2, InstructionKeeps
<1> QED
  BY <1>5, <1>6, <1>7, <1>8, <1>9, <1>10, <1>11, <1>12, <1>13, <1>14, <1>15, <1>16, <1>17,
     <1>18, <1>19 DEF Execute

-----------------------------------------------------------------------------
(* The steps of the scheduler.                                             *)

\* What a parked core's turn does to its buffer.
LEMMA ParkedCounts ==
  ASSUME ClusterInv, NEW stores, Counts(stores, issued)
  PROVE  Counts(Parked(stores), issued)
<1>1. issued \in [Cpu -> 0..MaxStores] /\ turn \in Cpu
  BY DEF ClusterInv, ClusterTypeOK
<1>2. issued[turn] \in Nat
  BY <1>1, StoresAssumption
<1>3. Retired(stores[turn]) \in [count : Nat, wait : Nat] /\ Counted(Retired(stores[turn]), issued[turn])
  BY <1>1, <1>2, BufferSteps DEF Counts
<1>4. Parked(stores) = stores \/ Parked(stores) = [stores EXCEPT ![turn] = Retired(stores[turn])]
  BY DEF Parked
<1> QED
  BY <1>1, <1>3, <1>4 DEF Counts

\* Interrupts that are offered to a core: it may leave WFI, and be at its vector.
LEMMA DeliveredFacts ==
  ASSUME NEW k \in CoreState, NEW asserting \in BOOLEAN
  PROVE  LET r == Delivered(k, asserting)
         IN  /\ r \in CoreState /\ r.wfe = k.wfe /\ r.event = k.event
             /\ r.halted = k.halted
             /\ \/ r.place = k.place /\ r.elr = k.elr /\ r.masked = k.masked
                \/ ~k.masked /\ r.place = "vector" /\ r.elr.place = k.place /\ r.masked
<1> DEFINE awake == [k EXCEPT !.wfi = @ /\ ~asserting]
<1>1. /\ awake \in CoreState /\ awake.wfe = k.wfe /\ awake.event = k.event
      /\ awake.halted = k.halted /\ awake.place = k.place /\ awake.elr = k.elr
      /\ awake.masked = k.masked
  BY DEF CoreState
<1>2. Delivered(k, asserting) = IF asserting /\ ~k.masked THEN Vectored(awake) ELSE awake
  BY DEF Delivered
<1> HIDE DEF awake
<1> QED
  BY <1>1, <1>2, VectoredType

LEMMA SampledType ==
  ASSUME ClusterInv
  PROVE  SampledLines \subseteq Slots /\ SampledPending \subseteq Slots
<1>1. device \subseteq Interrupt /\ turn \in Cpu /\ lines \subseteq Slots /\ pending \subseteq Slots
  BY WiredAssumption DEF ClusterInv, ClusterTypeOK, TypeOK, SPI
<1> QED
  BY <1>1, SlotFacts DEF SampledLines, SampledPending

LEMMA DeliverKeeps ==
  ASSUME ClusterInv, DeliverInterrupts
  PROVE  ClusterInv'
<1> DEFINE asserting == IrqPendingFor(turn, SampledPending)
           k == [core EXCEPT ![turn] = Delivered(@, asserting)]
           taken == asserting /\ ~core[turn].masked
           stores == [unpublished EXCEPT ![turn] = IF taken THEN Empty ELSE @]
<1>1. /\ core \in [Cpu -> CoreState] /\ turn \in Cpu /\ left \in 1..SLICE_SIZE
      /\ issued \in [Cpu -> 0..MaxStores] /\ stopped \in BOOLEAN /\ TypeOK
      /\ Counts(unpublished, issued) /\ device \subseteq Wired /\ instr \in Programs
  BY DEF ClusterInv, ClusterTypeOK, Counts, Counted
<1>2. /\ lines' = SampledLines /\ pending' = SampledPending /\ core' = k
      /\ UNCHANGED <<interface, enabled, active, routing, sgis, issued, device, instr>>
      /\ IF IsRunning(k[turn])
         THEN phase' = "execute" /\ unpublished' = stores /\ UNCHANGED <<turn, left, stopped>>
         ELSE EndTurn(k, Parked(stores))
  BY DEF DeliverInterrupts
<1>3. asserting \in BOOLEAN
  BY DEF IrqPendingFor
<1>4. TypeOK'
  BY <1>1, <1>2, SampledType DEF TypeOK, interface, routing, sgis
<1>5. k \in [Cpu -> CoreState] /\ \A c \in Cpu \ {turn} : k[c] = core[c]
  <2>1. Delivered(core[turn], asserting) \in CoreState
    <3> HIDE DEF asserting
    <3> QED BY <1>1, <1>3, DeliveredFacts
  <2> HIDE DEF asserting
  <2> QED BY <1>1, <2>1
<1>6. /\ k[turn].wfe = core[turn].wfe /\ k[turn].event = core[turn].event
      /\ k[turn].halted = core[turn].halted
      /\ \/ k[turn].place = core[turn].place /\ k[turn].elr = core[turn].elr
              /\ k[turn].masked = core[turn].masked
         \/ ~core[turn].masked /\ k[turn].place = "vector"
              /\ k[turn].elr.place = core[turn].place /\ k[turn].masked
  <2>1. k[turn] = Delivered(core[turn], asserting) /\ core[turn] \in CoreState
    BY <1>1
  <2> HIDE DEF asserting, k
  <2> QED BY <1>3, <2>1, DeliveredFacts
<1>7. NoSleepThroughEvent'
  <2> HIDE DEF k
  <2> QED BY <1>1, <1>2, <1>5, <1>6 DEF ClusterInv, NoSleepThroughEvent
<1>8. HaltedIsSpinning'
  <2>1. \A c \in Cpu : core[c].halted =>
          \/ core[c].place = "loop"
          \/ core[c].place = "vector" /\ core[c].elr.place = "loop" /\ core[c].masked
    BY DEF ClusterInv, HaltedIsSpinning
  <2> HIDE DEF k
  <2>2. k[turn].halted =>
          \/ k[turn].place = "loop"
          \/ k[turn].place = "vector" /\ k[turn].elr.place = "loop" /\ k[turn].masked
    BY <1>1, <1>6, <2>1
  <2> QED BY <1>2, <1>5, <2>1, <2>2 DEF HaltedIsSpinning
<1>9. Counts(stores, issued)
  <2>1. issued[turn] \in Nat
    BY <1>1, StoresAssumption
  <2>2. Empty \in [count : Nat, wait : Nat] /\ Counted(Empty, issued[turn])
    BY <1>1, <2>1, BufferSteps DEF Counts
  <2> HIDE DEF taken
  <2> QED BY <1>1, <2>2 DEF Counts
<1>10. CASE IsRunning(k[turn])
  <2>1. phase' = "execute" /\ unpublished' = stores /\ UNCHANGED <<turn, left, stopped>>
    BY <1>2, <1>10
  <2> HIDE DEF k, stores
  <2> QED BY <1>1, <1>2, <1>4, <1>5, <1>7, <1>8, <1>9, <1>10, <2>1
          DEF ClusterInv, ClusterTypeOK, Counts, Counted
<1>11. CASE ~IsRunning(k[turn])
  <2> HIDE DEF k, stores
  <2>1. /\ turn' \in Cpu /\ left' \in 1..SLICE_SIZE /\ phase' = "deliver" /\ stopped' \in BOOLEAN
        /\ unpublished' = Parked(stores) \/ unpublished' = [d \in Cpu |-> Empty]
    BY <1>1, <1>2, <1>11, EndTurnFacts
  <2>2. Counts(unpublished', issued)
    BY <1>1, <1>9, <2>1, ParkedCounts, EmptyCounts
  <2> QED BY <1>1, <1>2, <1>4, <1>5, <1>7, <1>8, <2>1, <2>2
          DEF ClusterInv, ClusterTypeOK, Counts, Counted
<1> QED
  BY <1>10, <1>11

LEMMA SkipKeeps ==
  ASSUME ClusterInv, SkipOff
  PROVE  ClusterInv'
<1>1. /\ core \in [Cpu -> CoreState] /\ turn \in Cpu
      /\ issued \in [Cpu -> 0..MaxStores] /\ TypeOK
      /\ Counts(unpublished, issued) /\ device \subseteq Wired /\ instr \in Programs
  BY DEF ClusterInv, ClusterTypeOK, Counts, Counted
<1>2. EndTurn(core, unpublished) /\ UNCHANGED <<gic, core, issued, device, instr>>
  BY DEF SkipOff
<1>3. /\ turn' \in Cpu /\ left' \in 1..SLICE_SIZE /\ phase' = "deliver" /\ stopped' \in BOOLEAN
      /\ unpublished' = unpublished \/ unpublished' = [d \in Cpu |-> Empty]
  BY <1>1, <1>2, EndTurnFacts
<1>4. Counts(unpublished', issued)
  BY <1>1, <1>3, EmptyCounts
<1>5. TypeOK'
  BY <1>1, <1>2, GicStays
<1>6. NoSleepThroughEvent' /\ HaltedIsSpinning'
  BY <1>2 DEF ClusterInv, NoSleepThroughEvent, HaltedIsSpinning
<1> QED
  BY <1>1, <1>2, <1>3, <1>4, <1>5, <1>6 DEF ClusterInv, ClusterTypeOK, Counts, Counted

LEMMA ClusterInitially == ClusterInit => ClusterInv
<1> SUFFICES ASSUME ClusterInit PROVE ClusterInv
  OBVIOUS
<1> USE DEF ClusterInit
<1>1. TypeOK
  <2>1. \A S \in {enabled, pending, active, lines} : S \subseteq Slots
    OBVIOUS
  <2>2. priority_mask \in [Cpu -> 0..255]
    <3>1. priority_mask \in [Cpu -> {255}]
      OBVIOUS
    <3>2. {255} \subseteq 0..255
      OBVIOUS
    <3> QED BY <3>1, <3>2
  <2>3. priority \in [Interrupt -> 0..255]
    <3>1. priority \in [Interrupt -> {160}]
      OBVIOUS
    <3>2. {160} \subseteq 0..255
      OBVIOUS
    <3> QED BY <3>1, <3>2
  <2>4. targets \in [Interrupt -> SUBSET Cpu]
    BY CpuRange
  <2>5. sgi_targets \in [SGI -> SUBSET Cpu] /\ sgi_active \in [SGI -> SUBSET Cpu]
    OBVIOUS
  <2> QED BY <2>1, <2>2, <2>3, <2>4, <2>5 DEF TypeOK
<1>2. ASSUME NEW powered \in BOOLEAN
      PROVE  /\ CoreAtReset(powered) \in CoreState
             /\ ~CoreAtReset(powered).wfe /\ ~CoreAtReset(powered).halted
  BY DEF CoreAtReset, CoreState, Place
<1>3. /\ core \in [Cpu -> CoreState]
      /\ \A c \in Cpu : ~core[c].wfe /\ ~core[c].halted
  <2>1. \A c \in Cpu : (c = 0 \/ "on" \notin instr) \in BOOLEAN
    OBVIOUS
  <2> QED BY <1>2, <2>1
<1>4. issued \in [Cpu -> 0..MaxStores]
  BY StoresAssumption
<1>5. Counts(unpublished, issued)
  BY <1>4, EmptyCounts
<1>6. turn \in Cpu /\ left \in 1..SLICE_SIZE
  BY CpuRange, SliceAssumption
<1>7. NoSleepThroughEvent /\ HaltedIsSpinning
  BY <1>3 DEF NoSleepThroughEvent, HaltedIsSpinning
<1>8. device \subseteq Wired /\ instr \in Programs /\ phase = "deliver" /\ stopped = FALSE
  OBVIOUS
<1> HIDE DEF ClusterInit
<1> QED
  BY <1>1, <1>3, <1>4, <1>5, <1>6, <1>7, <1>8 DEF ClusterInv, ClusterTypeOK, Counts, Counted

LEMMA ClusterKeeps == ClusterInv /\ [ClusterNext]_cvars => ClusterInv'
<1> SUFFICES ASSUME ClusterInv, [ClusterNext]_cvars
             PROVE  ClusterInv'
  OBVIOUS
<1>1. CASE DeliverInterrupts
  BY <1>1, DeliverKeeps
<1>2. CASE SkipOff
  BY <1>2, SkipKeeps
<1>3. CASE Execute
  BY <1>3, ExecuteKeeps
<1>4. CASE CallAgain
  <2>1. TypeOK'
    BY <1>4, GicStays DEF CallAgain, ClusterInv, ClusterTypeOK
  <2> QED BY <1>4, <2>1
          DEF CallAgain, ClusterInv, ClusterTypeOK, NoSleepThroughEvent, HaltedIsSpinning
<1>5. ASSUME NEW i \in Wired, DeviceLine(i)
      PROVE  ClusterInv'
  <2>1. TypeOK'
    BY <1>5, GicStays DEF DeviceLine, ClusterInv, ClusterTypeOK
  <2> QED BY <1>5, <2>1
          DEF DeviceLine, schedule, ClusterInv, ClusterTypeOK, NoSleepThroughEvent, HaltedIsSpinning
<1>6. CASE UNCHANGED cvars
  <2>1. TypeOK'
    BY <1>6, GicStays DEF cvars, ClusterInv, ClusterTypeOK
  <2> QED BY <1>6, <2>1 DEF cvars, ClusterInv, ClusterTypeOK, NoSleepThroughEvent, HaltedIsSpinning
<1> QED
  BY <1>1, <1>2, <1>3, <1>4, <1>5, <1>6 DEF ClusterNext, Scheduler

LEMMA ClusterAlways == ClusterSpec => []ClusterInv
BY ClusterInitially, ClusterKeeps, PTL DEF ClusterSpec

-----------------------------------------------------------------------------
(* Theorems.                                                               *)

\* The scheduler's state is well formed: whoever executes is powered, not halted and
\* not waiting, and a core has no more stores in its buffer than it has issued, with
\* a countdown to the next one exactly when there is one.
THEOREM ClusterTypeCorrect == ClusterSpec => []ClusterTypeOK
<1>1. ClusterInv => ClusterTypeOK
  BY DEF ClusterInv
<1> QED
  BY <1>1, ClusterAlways, PTL

\* No core ever waits for an event that has been sent to it, whatever programs run
\* and wherever in their loops SEV and SEVL fall.
THEOREM EventsEndWaits == ClusterSpec => []NoSleepThroughEvent
<1>1. ClusterInv => NoSleepThroughEvent
  BY DEF ClusterInv
<1> QED
  BY <1>1, ClusterAlways, PTL

\* A core is called halted on its own halt loop only, and leaves it only for an
\* interrupt that arrives after that.
THEOREM HaltedOnTheLoop == ClusterSpec => []HaltedIsSpinning
<1>1. ClusterInv => HaltedIsSpinning
  BY DEF ClusterInv
<1> QED
  BY <1>1, ClusterAlways, PTL
=============================================================================
