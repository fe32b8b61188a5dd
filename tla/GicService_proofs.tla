-------------------------- MODULE GicService_proofs --------------------------
(***************************************************************************)
(* Theorems about GicService, for any cores, interrupts, priorities and    *)
(* register accesses, and about the timer interrupt it carries (TimerTick).*)
(***************************************************************************)
EXTENDS GicService, TimerTick, Gic400_proofs

-----------------------------------------------------------------------------
(* Types.                                                                  *)

\* Whatever devices, cores and firmware do, with every register it may write, the
\* controller's state stays well formed.
THEOREM ServiceTypeCorrect == SSpec => []TypeOK
<1>1. ASSUME SInit PROVE TypeOK
  <2> USE <1>1 DEF SInit, Configured
  <2>1. \A S \in {enabled, pending, active, lines} : S \subseteq Slots
    OBVIOUS
  <2>2. /\ priority_mask \in [Cpu -> 0..255]
        /\ priority \in [Interrupt -> 0..255]
    <3>1. priority_mask \in [Cpu -> {255}]
      OBVIOUS
    <3>2. {255} \subseteq 0..255
      OBVIOUS
    <3>3. priority_mask \in [Cpu -> 0..255]
      BY <3>1, <3>2
    <3> QED BY <3>3, LevelAssumption
  <2>3. targets \in [Interrupt -> SUBSET Cpu]
    OBVIOUS
  <2>4. sgi_targets \in [SGI -> SUBSET Cpu] /\ sgi_active \in [SGI -> SUBSET Cpu]
    OBVIOUS
  <2> QED BY <2>1, <2>2, <2>3, <2>4 DEF TypeOK
<1>2. ASSUME TypeOK, [SNext]_svars
      PROVE  TypeOK'
  <2> USE <1>2 DEF TypeOK
  <2>1. CASE UNCHANGED svars
    BY <2>1 DEF svars, gvars, interface, routing, sgis
  <2>2. ASSUME NEW c \in Cpu, SetUp(c)
        PROVE  TypeOK'
    <3>1. ASSUME NEW i \in Interrupt, NEW on \in BOOLEAN,
                 WriteEnable(c, i, on) \/ WritePending(c, i, on) \/ WriteActive(c, i, on)
          PROVE  TypeOK'
      BY <3>1, SlotFacts, AssignStays
      DEF WriteEnable, WritePending, WriteActive, interface, routing, sgis
    <3>2. ASSUME NEW i \in Interrupt, WriteRouting(i)
          PROVE  TypeOK'
      <4>1. config' \subseteq Interrupt
        BY <3>2 DEF WriteRouting, Assign
      <4>2. priority' \in [Interrupt -> 0..255]
        BY <3>2, LevelAssumption DEF WriteRouting
      <4>3. targets' \in [Interrupt -> SUBSET Cpu]
        BY <3>2 DEF WriteRouting
      <4> QED BY <3>2, <4>1, <4>2, <4>3 DEF WriteRouting, interface, sgis
    <3>3. CASE WriteInterface(c)
      <4>1. distributor_enabled' \in BOOLEAN
        BY <3>3 DEF WriteInterface
      <4>2. cpu_interface_enabled' \subseteq Cpu
        BY <3>3 DEF WriteInterface, Assign
      <4>3. priority_mask' \in [Cpu -> 0..255]
        BY <3>3, LevelAssumption DEF WriteInterface
      <4> QED BY <3>3, <4>1, <4>2, <4>3 DEF WriteInterface, routing, sgis
    <3> QED BY <2>2, <3>1, <3>2, <3>3 DEF SetUp, Configure
  <2>3. ASSUME NEW c \in Cpu, NEW i \in Interrupt \ SGI, NEW level \in BOOLEAN, Line(i, c, level)
        PROVE  TypeOK'
    BY <2>3, SlotFacts, AssignStays DEF Line, SetLine, interface, routing, sgis
  <2>4. ASSUME NEW i \in SGI, NEW cpus \in SUBSET Cpu, Poke(i, cpus)
        PROVE  TypeOK'
    BY <1>2, <2>4, SendSgiType DEF Poke
  <2>5. ASSUME NEW c \in Cpu, NEW i \in Interrupt, Take(c, i)
        PROVE  TypeOK'
    BY <1>2, <2>5, AcknowledgeType DEF Take
  <2>6. ASSUME NEW c \in Cpu, NEW i \in Interrupt, End(c, i)
        PROVE  TypeOK'
    BY <1>2, <2>6, EndOfInterruptType DEF End
  <2> QED BY <1>2, <2>1, <2>2, <2>3, <2>4, <2>5, <2>6 DEF SNext
<1> QED
  BY <1>1, <1>2, PTL DEF SSpec

-----------------------------------------------------------------------------
(* One server.                                                             *)

\* What OneServer needs to be inductive: the types of what it speaks of, and that
\* the controller's two ways of keeping active state agree with who is serving.
\* The active register of an SGI's slot is never looked at, so it is left free.
ServiceInv ==
  /\ priority \in [Interrupt -> 0..255]
  /\ serving \in [Cpu -> SUBSET Interrupt]
  /\ sgi_active \in [SGI -> SUBSET Cpu]
  /\ OneServer

\* A step that touches neither the active state nor the handlers.
LEMMA QuietStep ==
  ASSUME ServiceInv, UNCHANGED <<active, sgi_active, serving>>,
         priority' \in [Interrupt -> 0..255]
  PROVE  ServiceInv'
BY DEF ServiceInv, OneServer, IsActiveFor

\* An acknowledgement: the interrupt was idle, and is served by this core alone.
LEMMA TakeKeepsOneServer ==
  ASSUME ServiceInv, NEW c \in Cpu, NEW i \in Interrupt, Take(c, i)
  PROVE  ServiceInv'
<1> USE DEF ServiceInv
<1>1. ~IsActiveFor(i, c)
  BY PresentedIsIdle DEF Take
<1>2. /\ serving' = [serving EXCEPT ![c] = @ \cup {i}]
      /\ priority' = priority
  BY DEF Take, Acknowledge, AcknowledgeSgi, AcknowledgeLine, routing
<1>3. \A d \in Cpu : i \in serving[d] => Slot(i, c) # Slot(i, d)
  BY <1>1 DEF OneServer
<1>4. ASSUME NEW d \in Cpu, NEW e \in Cpu, NEW j \in serving'[d] \cap serving'[e], j >= SPI_BASE
      PROVE  d = e
  <2>1. j \in Interrupt
    BY <1>2
  <2>2. CASE j \in serving[d] /\ j \in serving[e]
    BY <1>4, <2>2 DEF OneServer
  <2>3. CASE j = i
    BY <1>2, <1>3, <1>4, <2>1, <2>3, SharedSlots
  <2> QED BY <1>2, <1>4, <2>2, <2>3
<1>5. ASSUME NEW j \in Interrupt, NEW d \in Cpu
      PROVE  IsActiveFor(j, d)' <=> \E e \in Cpu : j \in serving'[e] /\ Slot(j, d) = Slot(j, e)
  <2>1. IsActiveFor(j, d)' <=> IsActiveFor(j, d) \/ Slot(j, d) = Slot(i, c)
    <3>1. CASE i < 16
      <4>1. AcknowledgeSgi(c, i) /\ i \in SGI
        BY <3>1 DEF Take, Acknowledge, SGI
      <4>2. /\ sgi_active' = [sgi_active EXCEPT ![i] = @ \cup {c}]
            /\ active' = active
        BY <4>1 DEF AcknowledgeSgi
      <4>3. Slot(j, d) = Slot(i, c) <=> j = i /\ d = c
        BY <3>1, SharedSlots, InterruptAssumption DEF SPI_BASE
      <4>4. j < 16 => j \in SGI
        BY DEF SGI
      <4> QED BY <3>1, <4>1, <4>2, <4>3, <4>4 DEF IsActiveFor
    <3>2. CASE ~(i < 16)
      <4>1. active' = active \cup {Slot(i, c)} /\ sgi_active' = sgi_active
        BY <3>2 DEF Take, Acknowledge, AcknowledgeLine, sgis
      <4>2. j < 16 => Slot(j, d) # Slot(i, c)
        BY <3>2, SharedSlots
      <4> QED BY <4>1, <4>2 DEF IsActiveFor
    <3> QED BY <3>1, <3>2
  <2>2. (\E e \in Cpu : j \in serving'[e] /\ Slot(j, d) = Slot(j, e))
          <=> \/ \E e \in Cpu : j \in serving[e] /\ Slot(j, d) = Slot(j, e)
              \/ j = i /\ Slot(j, d) = Slot(j, c)
    BY <1>2
  <2>3. Slot(j, d) = Slot(i, c) <=> j = i /\ Slot(j, d) = Slot(j, c)
    BY SharedSlots
  <2> QED BY <2>1, <2>2, <2>3 DEF OneServer
<1>6. serving' \in [Cpu -> SUBSET Interrupt] /\ sgi_active' \in [SGI -> SUBSET Cpu]
  BY <1>2 DEF Take, Acknowledge, AcknowledgeSgi, AcknowledgeLine, SGI, sgis
<1> QED
  BY <1>2, <1>4, <1>5, <1>6 DEF OneServer, Slot, SPI_BASE

\* An end: nobody else was serving the interrupt through the same slot.
LEMMA EndKeepsOneServer ==
  ASSUME ServiceInv, NEW c \in Cpu, NEW i \in Interrupt, End(c, i)
  PROVE  ServiceInv'
<1> USE DEF ServiceInv
<1>1. /\ i \in serving[c]
      /\ serving' = [serving EXCEPT ![c] = @ \ {i}]
      /\ priority' = priority
  BY DEF End, EndOfInterrupt, routing
<1>2. \A d \in Cpu : i \in serving[d] /\ Slot(i, c) = Slot(i, d) => d = c
  BY <1>1, SharedSlots DEF OneServer
<1>3. ASSUME NEW j \in Interrupt, NEW d \in Cpu
      PROVE  IsActiveFor(j, d)' <=> \E e \in Cpu : j \in serving'[e] /\ Slot(j, d) = Slot(j, e)
  <2>1. IsActiveFor(j, d)' <=> IsActiveFor(j, d) /\ Slot(j, d) # Slot(i, c)
    <3>1. CASE i < 16
      <4>1. /\ sgi_active' = [sgi_active EXCEPT ![i] = @ \ {c}]
            /\ active' = active /\ i \in SGI
        BY <3>1 DEF End, EndOfInterrupt, SGI
      <4>2. Slot(j, d) = Slot(i, c) <=> j = i /\ d = c
        BY <3>1, SharedSlots, InterruptAssumption DEF SPI_BASE
      <4>3. j < 16 => j \in SGI
        BY DEF SGI
      <4> QED BY <3>1, <4>1, <4>2, <4>3 DEF IsActiveFor
    <3>2. CASE ~(i < 16)
      <4>1. active' = active \ {Slot(i, c)} /\ sgi_active' = sgi_active
        BY <3>2 DEF End, EndOfInterrupt
      <4>2. j < 16 => Slot(j, d) # Slot(i, c)
        BY <3>2, SharedSlots
      <4> QED BY <4>1, <4>2 DEF IsActiveFor
    <3> QED BY <3>1, <3>2
  <2>2. (\E e \in Cpu : j \in serving'[e] /\ Slot(j, d) = Slot(j, e))
          <=> \E e \in Cpu : /\ j \in serving[e] /\ ~(j = i /\ e = c)
                             /\ Slot(j, d) = Slot(j, e)
    BY <1>1
  <2>3. ASSUME NEW e \in Cpu, j \in serving[e], Slot(j, d) = Slot(j, e)
        PROVE  (Slot(j, d) = Slot(i, c)) <=> (j = i /\ e = c)
    BY <1>2, <2>3, SharedSlots
  <2> QED BY <2>1, <2>2, <2>3 DEF OneServer
<1>4. serving' \in [Cpu -> SUBSET Interrupt] /\ sgi_active' \in [SGI -> SUBSET Cpu]
  BY <1>1 DEF End, EndOfInterrupt, SGI
<1>5. \A d \in Cpu, e \in Cpu : \A j \in serving'[d] \cap serving'[e] : j >= SPI_BASE => d = e
  BY <1>1 DEF OneServer
<1> QED
  BY <1>1, <1>3, <1>4, <1>5 DEF OneServer, Slot, SPI_BASE

\* As long as firmware leaves the active registers to the handshake, a shared
\* interrupt has one server at a time and the controller's active state is exactly
\* what the cores are servicing, whatever else firmware reconfigures meanwhile.
THEOREM ServedOnce ==
  ASSUME "ACTIVER" \notin Firmware
  PROVE  SSpec => []OneServer
<1>1. ASSUME SInit PROVE ServiceInv
  <2> USE <1>1 DEF SInit, Configured
  <2>1. priority \in [Interrupt -> 0..255]
    BY LevelAssumption
  <2>2. sgi_active \in [SGI -> SUBSET Cpu] /\ serving \in [Cpu -> SUBSET Interrupt]
    OBVIOUS
  <2>3. \A i \in Interrupt, c \in Cpu : ~IsActiveFor(i, c)
    BY DEF IsActiveFor, SGI
  <2> QED BY <2>1, <2>2, <2>3 DEF ServiceInv, OneServer
<1>2. ASSUME ServiceInv, [SNext]_svars
      PROVE  ServiceInv'
  <2>1. CASE UNCHANGED svars
    <3>1. UNCHANGED <<active, sgi_active, serving, priority>>
      BY <2>1 DEF svars, gvars, routing, sgis
    <3> QED BY <1>2, <3>1, QuietStep DEF ServiceInv
  <2>2. ASSUME NEW c \in Cpu, SetUp(c)
        PROVE  ServiceInv'
    <3>1. UNCHANGED <<active, sgi_active, serving>>
      BY <2>2 DEF SetUp, Configure, WriteEnable, WritePending, WriteRouting, WriteInterface, sgis
    <3>2. priority' \in [Interrupt -> 0..255]
      BY <1>2, <2>2, LevelAssumption
      DEF SetUp, Configure, WriteEnable, WritePending, WriteRouting, WriteInterface, routing, ServiceInv
    <3> QED BY <1>2, <3>1, <3>2, QuietStep
  <2>3. ASSUME NEW c \in Cpu, NEW i \in Interrupt \ SGI, NEW level \in BOOLEAN, Line(i, c, level)
        PROVE  ServiceInv'
    <3>1. UNCHANGED <<active, sgi_active, serving, priority>>
      BY <2>3 DEF Line, SetLine, routing, sgis
    <3> QED BY <1>2, <3>1, QuietStep DEF ServiceInv
  <2>4. ASSUME NEW i \in SGI, NEW cpus \in SUBSET Cpu, Poke(i, cpus)
        PROVE  ServiceInv'
    <3>1. UNCHANGED <<active, sgi_active, serving, priority>>
      BY <2>4 DEF Poke, SendSgi
    <3> QED BY <1>2, <3>1, QuietStep DEF ServiceInv
  <2> QED
    BY <1>2, <2>1, <2>2, <2>3, <2>4, TakeKeepsOneServer, EndKeepsOneServer DEF SNext
<1>3. ServiceInv => OneServer
  BY DEF ServiceInv
<1> QED
  BY <1>1, <1>2, <1>3, PTL DEF SSpec

-----------------------------------------------------------------------------
(* Edges.                                                                  *)

\* Only edge-triggered interrupts owe an edge; without that a level interrupt's
\* line or end could take away a pending bit that is still owed.
EdgeInv ==
  /\ EdgesAreLatched
  /\ \A slot \in edges : slot[1] \in config

\* No edge is lost before a core acknowledges it, whatever registers firmware writes
\* in between, unless the write itself withdraws it.
THEOREM EdgesStayLatched == SSpec => []EdgesAreLatched
<1> USE DEF EdgeInv, EdgesAreLatched
<1>1. SInit => EdgeInv
  BY DEF SInit
<1>2. ASSUME EdgeInv, [SNext]_svars
      PROVE  EdgeInv'
  <2> USE <1>2
  <2>1. CASE UNCHANGED svars
    BY <2>1 DEF svars, gvars, routing
  <2>2. ASSUME NEW c \in Cpu, SetUp(c)
        PROVE  EdgeInv'
    BY <2>2 DEF SetUp
  <2>3. ASSUME NEW c \in Cpu, NEW i \in Interrupt \ SGI, NEW level \in BOOLEAN, Line(i, c, level)
        PROVE  EdgeInv'
    <3>1. Slot(i, c)[1] = i /\ config' = config
      BY <2>3 DEF Slot, Line, SetLine, routing
    <3>2. CASE i \in config
      BY <2>3, <3>1, <3>2 DEF Line, SetLine, Assign
    <3>3. CASE i \notin config
      BY <2>3, <3>1, <3>3 DEF Line, SetLine, Assign
    <3> QED BY <3>2, <3>3
  <2>4. ASSUME NEW i \in SGI, NEW cpus \in SUBSET Cpu, Poke(i, cpus)
        PROVE  EdgeInv'
    BY <2>4 DEF Poke, SendSgi
  <2>5. ASSUME NEW c \in Cpu, NEW i \in Interrupt, Take(c, i)
        PROVE  EdgeInv'
    <3>1. edges' = edges \ {Slot(i, c)}
      BY <2>5 DEF Take
    <3>2. pending \ {Slot(i, c)} \subseteq pending' /\ config' = config
      BY <2>5 DEF Take, Acknowledge, AcknowledgeSgi, AcknowledgeLine, Assign, routing
    <3> QED BY <3>1, <3>2
  <2>6. ASSUME NEW c \in Cpu, NEW i \in Interrupt, End(c, i)
        PROVE  EdgeInv'
    <3>1. edges' = edges /\ config' = config
      BY <2>6 DEF End, EndOfInterrupt, routing
    <3>2. pending' = pending \/ (i \notin config /\ pending \ {Slot(i, c)} \subseteq pending')
      BY <2>6 DEF End, EndOfInterrupt, Assign
    <3>3. Slot(i, c)[1] = i
      BY DEF Slot
    <3> QED BY <3>1, <3>2, <3>3
  <2> QED BY <1>2, <2>1, <2>2, <2>3, <2>4, <2>5, <2>6 DEF SNext
<1> QED
  BY <1>1, <1>2, PTL DEF SSpec

-----------------------------------------------------------------------------
(* Levels.                                                                 *)

\* What a step may do to the pending bits if level interrupts are to follow their
\* lines: nothing to theirs, or make one slot what its line is.
LEMMA FollowingStep ==
  ASSUME LevelsFollowTheirLine, UNCHANGED config, NEW slot,
         \A other \in Slots \ {slot} :
           /\ other[1] \notin SGI => (other \in pending' <=> other \in pending)
           /\ other \in lines' <=> other \in lines,
         slot \in Slots /\ slot[1] \notin config \cup SGI => (slot \in pending' <=> slot \in lines')
  PROVE  LevelsFollowTheirLine'
BY DEF LevelsFollowTheirLine, Slots, SGI, Slot

\* A level interrupt is pending exactly while its line is up, through acknowledgement,
\* end of interrupt and everything firmware may configure, as long as firmware neither
\* writes pending bits itself nor makes an edge interrupt a level one (which keeps
\* the latch of its last edge).
THEOREM LevelsFollowLines ==
  ASSUME {"PENDR", "ROUTING"} \cap Firmware = {}
  PROVE  SSpec => []LevelsFollowTheirLine
<1>1. SInit => LevelsFollowTheirLine
  BY DEF SInit, Configured, LevelsFollowTheirLine
<1>2. ASSUME LevelsFollowTheirLine, [SNext]_svars
      PROVE  LevelsFollowTheirLine'
  <2> USE <1>2
  <2>1. ASSUME UNCHANGED <<config, pending, lines>> PROVE LevelsFollowTheirLine'
    BY <2>1 DEF LevelsFollowTheirLine
  <2>2. CASE UNCHANGED svars
    BY <2>1, <2>2 DEF svars, gvars, routing
  <2>3. ASSUME NEW c \in Cpu, SetUp(c)
        PROVE  LevelsFollowTheirLine'
    <3>1. UNCHANGED <<config, pending, lines>>
      BY <2>3 DEF SetUp, Configure, WriteEnable, WriteActive, WriteInterface, routing
    <3> QED BY <2>1, <3>1
  <2>4. ASSUME NEW c \in Cpu, NEW i \in Interrupt \ SGI, NEW level \in BOOLEAN, Line(i, c, level)
        PROVE  LevelsFollowTheirLine'
    <3>1. UNCHANGED config /\ Slot(i, c)[1] = i
      BY <2>4 DEF Line, SetLine, routing, Slot
    <3>2. lines' = Assign(lines, Slot(i, c), level)
      BY <2>4 DEF Line, SetLine
    <3>3. /\ pending \ {Slot(i, c)} \subseteq pending'
          /\ pending' \subseteq pending \cup {Slot(i, c)}
          /\ i \notin config => pending' = Assign(pending, Slot(i, c), level)
      BY <2>4 DEF Line, SetLine, Assign
    <3> HIDE DEF LevelsFollowTheirLine
    <3> QED BY <3>1, <3>2, <3>3, FollowingStep DEF Assign
  <2>5. ASSUME NEW i \in SGI, NEW cpus \in SUBSET Cpu, Poke(i, cpus)
        PROVE  LevelsFollowTheirLine'
    <3>1. UNCHANGED <<config, lines>> /\ pending' = pending \cup {Slot(i, d) : d \in cpus}
      BY <2>5 DEF Poke, SendSgi
    <3>2. \A d \in cpus : Slot(i, d)[1] = i
      BY DEF Slot
    <3> QED BY <3>1, <3>2 DEF LevelsFollowTheirLine
  <2>6. ASSUME NEW c \in Cpu, NEW i \in Interrupt, Take(c, i) \/ End(c, i)
        PROVE  LevelsFollowTheirLine'
    <3>1. UNCHANGED <<config, lines>> /\ Slot(i, c)[1] = i
      BY <2>6 DEF Take, Acknowledge, AcknowledgeSgi, AcknowledgeLine, End, EndOfInterrupt, routing, Slot
    <3>2. CASE i \in SGI
      <4>1. pending' \subseteq pending /\ pending \ {Slot(i, c)} \subseteq pending'
        BY <2>6, <3>2 DEF Take, Acknowledge, AcknowledgeSgi, End, EndOfInterrupt, SGI
      <4> QED BY <3>1, <3>2, <4>1, FollowingStep
    <3>3. CASE i \notin SGI
      <4>1. /\ pending \ {Slot(i, c)} \subseteq pending'
            /\ pending' \subseteq pending \cup {Slot(i, c)}
        BY <2>6, <3>3 DEF Take, Acknowledge, AcknowledgeLine, End, EndOfInterrupt, SGI, Assign
      <4>2. i \notin config => (Slot(i, c) \in pending' <=> Slot(i, c) \in lines)
        BY <2>6, <3>3 DEF Take, Acknowledge, AcknowledgeLine, End, EndOfInterrupt, SGI, Assign
      <4> QED BY <3>1, <4>1, <4>2, FollowingStep
    <3> QED BY <3>2, <3>3
  <2> QED BY <1>2, <2>2, <2>3, <2>4, <2>5, <2>6 DEF SNext
<1> QED
  BY <1>1, <1>2, PTL DEF SSpec

-----------------------------------------------------------------------------
(* Interrupts between cores.                                               *)

\* When firmware sends an SGI again only once all its targets have taken the last
\* one, it stays routed to each of them until then.  (Without that discipline the
\* mask of targets is overwritten: the run GicService_broadcast.)
THEOREM PatientPokesArrive ==
  ASSUME Patient
  PROVE  SSpec => []PokesStayRouted
<1> DEFINE PokeInv == /\ PokesStayRouted
                      /\ poked \in [SGI -> SUBSET Cpu]
                      /\ sgi_targets \in [SGI -> SUBSET Cpu]
<1>1. SInit => PokeInv
  BY DEF SInit, Configured, PokesStayRouted
<1>2. ASSUME PokeInv, [SNext]_svars
      PROVE  PokeInv'
  <2> USE <1>2 DEF PokesStayRouted
  <2>1. CASE UNCHANGED svars
    BY <2>1 DEF svars, gvars, sgis
  <2>2. ASSUME NEW c \in Cpu, SetUp(c)
        PROVE  PokeInv'
    <3>1. sgi_targets' = sgi_targets
      BY <2>2 DEF SetUp, Configure, WriteEnable, WritePending, WriteActive, WriteRouting,
                  WriteInterface, sgis
    <3>2. poked' = [i \in SGI |-> {d \in poked[i] : Slot(i, d) \in pending'}]
      BY <2>2 DEF SetUp
    <3> QED BY <3>1, <3>2 DEF Slot
  <2>3. ASSUME NEW c \in Cpu, NEW j \in Interrupt \ SGI, NEW level \in BOOLEAN, Line(j, c, level)
        PROVE  PokeInv'
    <3>1. sgi_targets' = sgi_targets /\ poked' = poked
      BY <2>3 DEF Line, SetLine, sgis
    <3>2. pending \ {Slot(j, c)} \subseteq pending'
      BY <2>3 DEF Line, SetLine, Assign
    <3>3. \A i \in SGI, d \in Cpu : Slot(i, d) # Slot(j, c)
      BY SharedSlots DEF SGI
    <3> QED BY <3>1, <3>2, <3>3 DEF Slot
  <2>4. ASSUME NEW j \in SGI, NEW cpus \in SUBSET Cpu, Poke(j, cpus)
        PROVE  PokeInv'
    <3>1. /\ poked' = [poked EXCEPT ![j] = cpus]
          /\ sgi_targets' = [sgi_targets EXCEPT ![j] = cpus]
          /\ pending' = pending \cup {Slot(j, c) : c \in cpus}
      BY <2>4 DEF Poke, SendSgi
    <3> QED BY <3>1 DEF Slot
  <2>5. ASSUME NEW c \in Cpu, NEW j \in Interrupt, Take(c, j)
        PROVE  PokeInv'
    <3>1. pending \ {Slot(j, c)} \subseteq pending'
      BY <2>5 DEF Take, Acknowledge, AcknowledgeSgi, AcknowledgeLine, Assign
    <3>2. \A i \in SGI, d \in Cpu : Slot(i, d) = Slot(j, c) <=> i = j /\ d = c
      BY SharedSlots, InterruptAssumption DEF SGI, SPI_BASE
    <3>3. CASE j \in SGI
      <4>1. AcknowledgeSgi(c, j)
        BY <2>5, <3>3 DEF Take, Acknowledge, SGI
      <4>2. /\ poked' = [poked EXCEPT ![j] = @ \ {c}]
            /\ sgi_targets' = [sgi_targets EXCEPT ![j] = @ \ {c}]
        BY <2>5, <3>3, <4>1 DEF Take, AcknowledgeSgi
      <4> QED BY <3>1, <3>2, <4>2 DEF Slot
    <3>4. CASE j \notin SGI
      <4>1. AcknowledgeLine(c, j)
        BY <2>5, <3>4 DEF Take, Acknowledge, SGI
      <4>2. poked' = poked /\ sgi_targets' = sgi_targets
        BY <2>5, <3>4, <4>1 DEF Take, AcknowledgeLine, sgis
      <4> QED BY <3>1, <3>2, <3>4, <4>2 DEF Slot
    <3> QED BY <3>3, <3>4
  <2>6. ASSUME NEW c \in Cpu, NEW j \in Interrupt, End(c, j)
        PROVE  PokeInv'
    <3>1. poked' = poked /\ sgi_targets' = sgi_targets
      BY <2>6 DEF End, EndOfInterrupt
    <3>2. \A i \in SGI, d \in Cpu : Slot(i, d) \in pending => Slot(i, d) \in pending'
      <4>1. CASE j \in SGI
        BY <2>6, <4>1 DEF End, EndOfInterrupt, SGI
      <4>2. CASE j \notin SGI
        <5>1. pending \ {Slot(j, c)} \subseteq pending'
          BY <2>6 DEF End, EndOfInterrupt, Assign
        <5>2. \A i \in SGI, d \in Cpu : Slot(i, d) # Slot(j, c)
          BY <4>2, SharedSlots DEF SGI
        <5> QED BY <5>1, <5>2
      <4> QED BY <4>1, <4>2
    <3> QED BY <3>1, <3>2 DEF Slot
  <2> QED BY <1>2, <2>1, <2>2, <2>3, <2>4, <2>5, <2>6 DEF SNext
<1>3. PokeInv => PokesStayRouted
  OBVIOUS
<1> QED
  BY <1>1, <1>2, <1>3, PTL DEF SSpec

-----------------------------------------------------------------------------
(* Registers.                                                              *)

\* Whatever register firmware writes, the controller stays well formed and only a
\* write withdraws an edge (write_register, set_line).
THEOREM RegistersStayFormed == SSpec => []RegistersHold
BY ServiceTypeCorrect, EdgesStayLatched, PTL DEF RegistersHold

-----------------------------------------------------------------------------
(* The timer interrupt.                                                    *)

TimerState == [togo : Int, enabled : BOOLEAN, masked : BOOLEAN]

Timers == timer \in [Cpu -> TimerState]

\* Where firmware of a core may be, and the places that a timer interrupt leads to.
Ordinary == {"main", "critical", "leaving", "eoir", "eret"}
InHandler == {"iar", "rearm"}

\* A board of one core: when it executes, the line of its bank is what its timer says,
\* because it was sampled since the timer last moved; and nothing but that line is
\* ever pending.
SampledInv ==
  /\ pending \subseteq {Slot(TIMER_PPI, step.of)}
  /\ step.doing = "execute" => (Slot(TIMER_PPI, step.of) \in lines <=> TimerLine(timer[step.of]))
  /\ cpu[step.of].at = "iar" => step.doing = "execute"
  /\ \A c \in Cpu : c # step.of => cpu[c].at \notin InHandler
  /\ TickIsReal

\* A board of several: nothing ever raises the line, so nobody is interrupted.
UnsampledInv ==
  /\ pending = {}
  /\ \A c \in Cpu : cpu[c].at \notin InHandler

CpuState == [at : Ordinary \cup InHandler, masked : BOOLEAN, wfi : BOOLEAN,
             iar : Interrupt \cup {SPURIOUS_ID}]

TickInv ==
  /\ Timers /\ cpu \in [Cpu -> CpuState]
  /\ step \in [of : Cpu, doing : {"execute", "service"}]
  /\ priority \in [Interrupt -> 0..255]
  /\ config = {} /\ pending = lines
  /\ IF SingleCore THEN SampledInv ELSE UnsampledInv

\* Time does not stop a timer that asserts.
LEMMA TickedStays ==
  ASSUME Ticks \in Nat, Far \in Nat, NEW t \in TimerState
  PROVE  Ticked(t) \in TimerState /\ (TimerLine(t) => TimerLine(Ticked(t)))
<1> DEFINE n == NoLater(t.togo - Ticks)
<1>1. Ticked(t) = [t EXCEPT !.togo = n]
  BY DEF Ticked
<1>2. n \in Int /\ (t.togo <= 0 => n <= 0)
  BY DEF NoLater, TimerState
<1> HIDE DEF n
<1>3. /\ Ticked(t) \in TimerState /\ Ticked(t).togo = n
      /\ Ticked(t).enabled = t.enabled /\ Ticked(t).masked = t.masked
  BY <1>1, <1>2 DEF TimerState
<1> HIDE DEF Ticked
<1> QED
  BY <1>2, <1>3 DEF TimerLine, Istatus

\* What is offered when the timer's slot is the only one pending.
LEMMA OnlyTheTimer ==
  ASSUME NEW c \in Cpu, NEW P, P \subseteq {Slot(TIMER_PPI, c)}, IrqPendingFor(c, P)
  PROVE  HighestPriorityPending(c, P) = TIMER_PPI /\ Slot(TIMER_PPI, c) \in P
<1> DEFINE best == Best(Candidates(c, P))
<1>1. HighestPriorityPending(c, P) # SPURIOUS_ID
  BY DEF IrqPendingFor
<1>2. Candidates(c, P) # {} /\ HighestPriorityPending(c, P) = best
  BY <1>1, Zenon DEF HighestPriorityPending
<1>3. \A i \in Candidates(c, P) : i = TIMER_PPI /\ Slot(TIMER_PPI, c) \in P
  BY DEF Candidates, Slot
<1>4. Candidates(c, P) = {TIMER_PPI}
  BY <1>2, <1>3
<1>5. best = TIMER_PPI
  BY <1>4 DEF Best, TIMER_PPI
<1> QED
  BY <1>2, <1>3, <1>5

\* The core after a look at the GIC's output: interrupted, or where it was.
LEMMA OfferedCore ==
  ASSUME NEW k \in CpuState, NEW asserting \in BOOLEAN
  PROVE  /\ Offered(k, asserting) \in CpuState
         /\ Offered(k, asserting).at # k.at => asserting /\ Offered(k, asserting).at = "iar"
<1> DEFINE awake == [k EXCEPT !.wfi = k.wfi /\ ~asserting]
<1>1. awake \in CpuState /\ awake.at = k.at
  <2>1. (k.wfi /\ ~asserting) \in BOOLEAN
    OBVIOUS
  <2> DEFINE w == k.wfi /\ ~asserting
  <2> HIDE DEF w
  <2> QED BY <2>1 DEF CpuState, w
<1>2. Offered(k, asserting) = IF asserting /\ ~k.masked
                              THEN [awake EXCEPT !.at = "iar", !.masked = TRUE] ELSE awake
  BY DEF Offered
<1> HIDE DEF awake
<1>3. /\ [awake EXCEPT !.at = "iar", !.masked = TRUE] \in CpuState
      /\ [awake EXCEPT !.at = "iar", !.masked = TRUE].at = "iar"
  BY <1>1 DEF CpuState, InHandler
<1> QED
  BY <1>1, <1>2, <1>3

\* What is presented does not change if the rest of the controller does not.
LEMMA SamePresented ==
  ASSUME UNCHANGED <<interface, enabled, active, routing, sgis>>, NEW c
  PROVE  HighestPriorityPending(c, pending)' = HighestPriorityPending(c, pending')
<1>1. /\ distributor_enabled' = distributor_enabled /\ priority_mask' = priority_mask
      /\ enabled' = enabled /\ active' = active /\ priority' = priority /\ targets' = targets
      /\ sgi_targets' = sgi_targets /\ sgi_active' = sgi_active
  BY DEF interface, routing, sgis
<1> QED
  BY <1>1 DEF HighestPriorityPending, Candidates, Best, IsActiveFor, TargetsCpu

LEMMA ServiceTick ==
  ASSUME 0 \in Cpu, TickInv, Service
  PROVE  TickInv'
<1>0. PICK c \in Cpu : c = step.of
  BY DEF TickInv
<1>1. timer' = timer /\ Timers /\ cpu \in [Cpu -> CpuState] /\ cpu[c] \in CpuState
  BY <1>0 DEF TickInv, Service
<1>2. CASE SingleCore
  <2> DEFINE slot == Slot(TIMER_PPI, c)
             level == TimerLine(timer[c])
             asserting == IrqPendingFor(c, pending')
  <2>1. /\ SetLine(TIMER_PPI, c, level) /\ cpu' = [cpu EXCEPT ![c] = Offered(cpu[c], asserting)]
        /\ step' = [step EXCEPT !.doing = "execute"] /\ step.doing = "service"
    BY <1>0, <1>2 DEF Service, SampleTimer
  <2>2. /\ lines' = Assign(lines, slot, level) /\ pending' = lines' /\ config' = {}
        /\ UNCHANGED <<interface, enabled, active, routing, sgis>> /\ priority' = priority
    BY <2>1 DEF SetLine, TickInv, routing
  <2>3. pending' \subseteq {slot} /\ (slot \in lines' <=> level)
    BY <1>0, <1>2, <2>2 DEF Assign, TickInv, SampledInv
  <2>4. step' \in [of : Cpu, doing : {"execute", "service"}] /\ step'.of = c /\ step'.doing = "execute"
    BY <1>0, <2>1 DEF TickInv
  <2>5. asserting \in BOOLEAN
    BY DEF IrqPendingFor
  <2> HIDE DEF asserting
  <2>6. /\ cpu' \in [Cpu -> CpuState] /\ cpu'[c] = Offered(cpu[c], asserting)
        /\ \A d \in Cpu \ {c} : cpu'[d] = cpu[d]
        /\ cpu'[c].at # cpu[c].at => asserting /\ cpu'[c].at = "iar"
    BY <1>1, <2>1, <2>5, OfferedCore
  <2>7. ASSUME cpu'[c].at # cpu[c].at
        PROVE  /\ HighestPriorityPending(c, pending)' = TIMER_PPI
               /\ TimerLine(timer[c]) /\ cpu'[c].at = "iar"
    <3>1. HighestPriorityPending(c, pending') = TIMER_PPI /\ slot \in pending'
      BY <1>1, <2>3, <2>6, <2>7, OnlyTheTimer DEF asserting
    <3> QED BY <2>2, <2>3, <2>6, <2>7, <3>1, SamePresented
  <2>8. cpu[c].at # "iar" /\ (cpu[c].at = "rearm" => level)
    BY <1>0, <1>1, <1>2, <2>1 DEF TickInv, SampledInv, TickIsReal
  <2>9. \A d \in Cpu \ {c} : cpu'[d].at \notin InHandler
    BY <1>0, <1>2, <2>6 DEF TickInv, SampledInv
  <2>10. TickIsReal'
    <3>1. ASSUME NEW d \in Cpu
          PROVE  /\ cpu'[d].at = "iar" => HighestPriorityPending(d, pending)' = TIMER_PPI
                 /\ cpu'[d].at \in {"iar", "rearm"} => TimerLine(timer'[d])
      BY <1>1, <2>7, <2>8, <2>9, <3>1 DEF InHandler
    <3> QED BY <3>1 DEF TickIsReal, TimerLine, Istatus
  <2>11. SampledInv'
    BY <1>1, <2>2, <2>3, <2>4, <2>9, <2>10 DEF SampledInv, Slot, TimerLine, Istatus
  <2> QED BY <1>0, <1>1, <1>2, <2>2, <2>4, <2>6, <2>11 DEF TickInv, SingleCore, Timers
<1>3. CASE ~SingleCore
  <2>1. /\ cpu' = [cpu EXCEPT ![c] = Offered(cpu[c], IrqPendingFor(c, pending))]
        /\ UNCHANGED gvars
        /\ step' = IF cpu'[c].wfi THEN [step EXCEPT !.of = Next1(c)]
                   ELSE [step EXCEPT !.doing = "execute"]
    BY <1>0, <1>3, Zenon DEF Service, DeliverOnly
  <2>2. pending = {} /\ \A d \in Cpu : cpu[d].at \notin InHandler
    BY <1>3 DEF TickInv, UnsampledInv
  <2>3. IrqPendingFor(c, pending) = FALSE
    <3>1. Candidates(c, pending) = {}
      BY <2>2 DEF Candidates
    <3>2. HighestPriorityPending(c, pending) = SPURIOUS_ID
      BY <3>1, Zenon DEF HighestPriorityPending
    <3> QED BY <3>2 DEF IrqPendingFor
  <2>4. /\ cpu' \in [Cpu -> CpuState] /\ \A d \in Cpu : cpu'[d].at = cpu[d].at
    BY <1>1, <2>1, <2>3, OfferedCore
  <2>5. step' \in [of : Cpu, doing : {"execute", "service"}]
    BY <1>0, <1>1, <2>1 DEF TickInv, Next1
  <2> QED BY <1>1, <1>3, <2>1, <2>2, <2>4, <2>5 DEF TickInv, UnsampledInv, SingleCore, Timers,
                                        gvars, routing
<1> QED
  BY <1>2, <1>3

\* An instruction that changes nothing pending keeps the invariant, if it does not lead
\* back to the handler's first place and its second finds the timer still asserting.
LEMMA RetiredTick ==
  ASSUME 0 \in Cpu, TickInv, NEW k \in CpuState, NEW t \in TimerState, Retires(k, t),
         pending' = pending, UNCHANGED lines, config' = config, priority' = priority,
         k.at # "iar", k.at = "rearm" => SingleCore /\ TimerLine(t)
  PROVE  TickInv'
<1>0. PICK c \in Cpu : c = step.of
  BY DEF TickInv
<1>1. /\ cpu' = [cpu EXCEPT ![c] = k] /\ timer' = [timer EXCEPT ![c] = t]
      /\ step' = [of |-> IF SingleCore THEN c ELSE Next1(c), doing |-> "service"]
  BY <1>0 DEF Retires
<1>2. /\ cpu' \in [Cpu -> CpuState] /\ cpu'[c] = k /\ \A d \in Cpu \ {c} : cpu'[d] = cpu[d]
      /\ Timers' /\ timer'[c] = t
  BY <1>1 DEF TickInv, Timers
<1>3. /\ step' \in [of : Cpu, doing : {"execute", "service"}]
      /\ step'.doing = "service" /\ (SingleCore => step'.of = c)
  BY <1>1 DEF Next1
<1>4. CASE SingleCore
  <2>1. pending \subseteq {Slot(TIMER_PPI, c)} /\ \A d \in Cpu : d # c => cpu[d].at \notin InHandler
    BY <1>0, <1>4 DEF TickInv, SampledInv
  <2>2. \A d \in Cpu : d # c => cpu'[d].at \notin InHandler
    BY <1>2, <2>1
  <2>3. TickIsReal'
    <3>1. ASSUME NEW d \in Cpu
          PROVE  cpu'[d].at # "iar" /\ (cpu'[d].at = "rearm" => TimerLine(timer'[d]))
      BY <1>2, <2>2, <3>1 DEF InHandler
    <3> QED BY <3>1 DEF TickIsReal, TimerLine, Istatus
  <2>4. SampledInv'
    BY <1>2, <1>3, <1>4, <2>1, <2>2, <2>3 DEF SampledInv, Slot
  <2> QED BY <1>2, <1>3, <1>4, <2>4 DEF TickInv, SingleCore
<1>5. CASE ~SingleCore
  <2>1. pending = {} /\ \A d \in Cpu : cpu[d].at \notin InHandler
    BY <1>5 DEF TickInv, UnsampledInv
  <2>2. \A d \in Cpu : cpu'[d].at \notin InHandler
    BY <1>2, <1>5, <2>1 DEF InHandler
  <2> QED BY <1>2, <1>3, <1>5, <2>1, <2>2 DEF TickInv, UnsampledInv, SingleCore
<1> QED
  BY <1>4, <1>5

\* While what is pending is what asserts, and everything is level-sensitive, neither
\* half of the handshake changes what is pending.
LEMMA HandshakeTick ==
  ASSUME TickInv, NEW c \in Cpu, NEW i \in Interrupt,
         \/ Acknowledge(c, i) /\ i >= 16
         \/ EndOfInterrupt(c, i)
  PROVE  pending' = pending /\ UNCHANGED lines /\ config' = config /\ priority' = priority
<1>1. config = {} /\ pending = lines
  BY DEF TickInv
<1>2. UNCHANGED <<lines, routing>>
  BY DEF Acknowledge, AcknowledgeLine, AcknowledgeSgi, EndOfInterrupt
<1>3. pending' = pending \/ pending' = Assign(pending, Slot(i, c), Slot(i, c) \in lines)
  <2>1. CASE Acknowledge(c, i) /\ i >= 16
    <3>1. AcknowledgeLine(c, i)
      BY <2>1, InterruptAssumption DEF Acknowledge
    <3> QED BY <1>1, <3>1 DEF AcknowledgeLine
  <2>2. CASE EndOfInterrupt(c, i)
    BY <1>1, <2>2, Zenon DEF EndOfInterrupt
  <2> QED BY <2>1, <2>2
<1>4. pending' = pending
  BY <1>1, <1>3 DEF Assign
<1> QED
  BY <1>2, <1>4 DEF routing

\* The accesses of a handler.
LEMMA HandlerTick ==
  ASSUME 0 \in Cpu, Ticks \in Nat, Far \in Nat, TickInv, NEW c \in Cpu, c = step.of,
         cpu[c] \in CpuState, timer[c] \in TimerState, ReadIar \/ WriteEoir
  PROVE  TickInv'
<1> DEFINE me == cpu[c]
           now == Ticked(timer[c])
<1>1. now \in TimerState /\ (TimerLine(timer[c]) => TimerLine(now))
  BY TickedStays
<1>2. CASE ReadIar
  <2> DEFINE i == HighestPriorityPending(c, pending)
  <2>1. /\ cpu[c].at = "iar" /\ step.doing = "execute" /\ me.masked \in BOOLEAN /\ me.wfi \in BOOLEAN
        /\ IF i = SPURIOUS_ID THEN UNCHANGED gvars ELSE Acknowledge(c, i)
        /\ Retires([me EXCEPT !.iar = i, !.at = "rearm"], now)
    BY <1>2 DEF ReadIar, At, CpuState, Me, Now
  <2>2. SingleCore
    BY <2>1 DEF TickInv, UnsampledInv, InHandler
  <2>3. i = TIMER_PPI /\ TimerLine(timer[c])
    BY <2>1, <2>2 DEF TickInv, SampledInv, TickIsReal
  <2>4. i \in Interrupt
    BY <2>3, PresentedType DEF TickInv, SPURIOUS_ID, TIMER_PPI
  <2> HIDE DEF i, now
  <2>5. Acknowledge(c, i) /\ i >= 16
    BY <2>1, <2>3 DEF SPURIOUS_ID, TIMER_PPI
  <2>6. pending' = pending /\ UNCHANGED lines /\ config' = config /\ priority' = priority
    BY <2>4, <2>5, HandshakeTick
  <2>7. PICK k : k = [me EXCEPT !.iar = i, !.at = "rearm"]
    OBVIOUS
  <2>8. k \in CpuState /\ k.at = "rearm"
    BY <2>4, <2>7 DEF CpuState, InHandler
  <2>9. Retires(k, now)
    BY <2>1, <2>7
  <2> QED BY <1>1, <2>2, <2>3, <2>6, <2>8, <2>9, RetiredTick
<1>3. CASE WriteEoir
  <2>1. /\ IF me.iar = SPURIOUS_ID THEN UNCHANGED gvars ELSE EndOfInterrupt(c, me.iar)
        /\ Retires([me EXCEPT !.iar = SPURIOUS_ID, !.at = "eret"], now)
    BY <1>3 DEF WriteEoir, At, Me, Now
  <2> HIDE DEF now
  <2>2. me.iar \in Interrupt \cup {SPURIOUS_ID}
    BY DEF CpuState
  <2>3. pending' = pending /\ UNCHANGED lines /\ config' = config /\ priority' = priority
    <3>1. CASE me.iar = SPURIOUS_ID
      BY <2>1, <3>1 DEF gvars, routing
    <3>2. CASE me.iar # SPURIOUS_ID
      <4>1. EndOfInterrupt(c, me.iar) /\ me.iar \in Interrupt
        BY <2>1, <2>2, <3>2
      <4> QED BY <4>1, HandshakeTick
    <3> QED BY <3>1, <3>2
  <2>4. PICK k : k = [me EXCEPT !.iar = SPURIOUS_ID, !.at = "eret"]
    OBVIOUS
  <2>5. k \in CpuState /\ k.at = "eret"
    BY <2>4 DEF CpuState, Ordinary
  <2>6. Retires(k, now)
    BY <2>1, <2>4
  <2> QED BY <1>1, <2>3, <2>5, <2>6, RetiredTick
<1> QED
  BY <1>2, <1>3

\* Firmware that is neither taking nor ending an interrupt.
LEMMA PlainTick ==
  ASSUME 0 \in Cpu, Ticks \in Nat, Far \in Nat, TickInv, NEW k \in CpuState, NEW t \in TimerState,
         k.at \in Ordinary, Retires(k, t), UNCHANGED gvars
  PROVE  TickInv'
<1>1. pending' = pending /\ UNCHANGED lines /\ config' = config /\ priority' = priority
  BY DEF gvars, routing
<1>2. k.at # "iar" /\ k.at # "rearm"
  BY DEF Ordinary
<1> QED
  BY <1>1, <1>2, RetiredTick

LEMMA ExecutesTick ==
  ASSUME 0 \in Cpu, Ticks \in Nat, Far \in Nat, Delays \subseteq Int, TickInv, Executes
  PROVE  TickInv'
<1>0. PICK c \in Cpu : c = step.of
  BY DEF TickInv
<1> DEFINE me == cpu[c]
           now == Ticked(timer[c])
           Moved(k) == [me EXCEPT !.at = k]
<1>1. me \in CpuState /\ timer[c] \in TimerState
  BY <1>0 DEF TickInv, Timers
<1>2. now \in TimerState
  BY <1>1, TickedStays
<1>3. CASE ReadIar \/ WriteEoir
  BY <1>0, <1>1, <1>3, HandlerTick
<1>4. \A n \in Int : NoLater(n) \in Int
  BY DEF NoLater
<1>5. ASSUME NEW n \in Int PROVE [now EXCEPT !.togo = NoLater(n)] \in TimerState
  BY <1>2, <1>4 DEF TimerState
<1>6. ASSUME NEW at \in Ordinary PROVE [me EXCEPT !.at = at] \in CpuState /\ [me EXCEPT !.at = at].at = at
  BY <1>1 DEF CpuState
<1>7. ASSUME NEW at \in Ordinary, NEW b \in BOOLEAN
      PROVE  [me EXCEPT !.at = at, !.masked = b] \in CpuState /\ [me EXCEPT !.at = at, !.masked = b].at = at
  BY <1>1 DEF CpuState
<1>8. PICK g : g = [me EXCEPT !.at = IF me.at = "main" THEN "main" ELSE "leaving"]
  OBVIOUS
<1>9. g \in CpuState /\ g.at \in Ordinary
  BY <1>1, <1>8 DEF CpuState, Ordinary
<1> HIDE DEF now
<1>10. ASSUME NEW on \in BOOLEAN, NEW mask \in BOOLEAN, WriteCtl(on, mask)
       PROVE  TickInv'
  <2>1. PICK t : t = [now EXCEPT !.enabled = on, !.masked = mask]
    OBVIOUS
  <2>2. t \in TimerState
    BY <1>2, <2>1 DEF TimerState
  <2>3. Retires(g, t) /\ UNCHANGED gvars
    BY <1>0, <1>8, <1>10, <2>1 DEF WriteCtl, Goes, Me, Now, now
  <2> QED BY <1>9, <2>2, <2>3, PlainTick
<1>11. ASSUME NEW n \in Int, WriteTval(n)
       PROVE  TickInv'
  <2>1. PICK t : t = [now EXCEPT !.togo = NoLater(n)]
    OBVIOUS
  <2>2. Retires(g, t) /\ UNCHANGED gvars
    BY <1>0, <1>8, <1>11, <2>1 DEF WriteTval, Goes, Me, Now, now
  <2> QED BY <1>5, <1>9, <2>1, <2>2, PlainTick
<1>12. ASSUME NEW n \in Int, Rearm(n)
       PROVE  TickInv'
  <2>1. PICK t : t = [now EXCEPT !.togo = NoLater(n)]
    OBVIOUS
  <2>2. Retires([me EXCEPT !.at = "eoir"], t) /\ UNCHANGED gvars
    BY <1>0, <1>12, <2>1 DEF Rearm, Me, Now, now
  <2>3. "eoir" \in Ordinary
    BY DEF Ordinary
  <2> QED BY <1>5, <1>6, <2>1, <2>2, <2>3, PlainTick
<1>13. CASE OtherInstruction
  <2>1. Retires(g, now) /\ UNCHANGED gvars
    BY <1>0, <1>8, <1>13 DEF OtherInstruction, Goes, Me, Now, now
  <2> QED BY <1>2, <1>9, <2>1, PlainTick
<1>14. CASE Wait
  <2>1. PICK k : k = [me EXCEPT !.wfi = TRUE]
    OBVIOUS
  <2>2. Retires(k, now) /\ UNCHANGED gvars /\ me.at = "main"
    BY <1>0, <1>14, <2>1 DEF Wait, At, Me, Now, now
  <2>3. k \in CpuState /\ k.at \in Ordinary
    BY <1>1, <2>1, <2>2 DEF CpuState, Ordinary
  <2> QED BY <1>2, <2>2, <2>3, PlainTick
<1>15. CASE Enter \/ Leave \/ ExceptionReturn
  <2>1. PICK at \in Ordinary, b \in BOOLEAN :
          Retires([me EXCEPT !.at = at, !.masked = b], now) /\ UNCHANGED gvars
    <3>1. "main" \in Ordinary /\ "critical" \in Ordinary
      BY DEF Ordinary
    <3> QED BY <1>0, <1>15, <3>1 DEF Enter, Leave, ExceptionReturn, Me, Now, now
  <2> QED BY <1>2, <1>7, <2>1, PlainTick
<1>16. \A n \in Delays : n \in Int /\ 0 - n \in Int
  OBVIOUS
<1> QED
  BY <1>3, <1>10, <1>11, <1>12, <1>13, <1>14, <1>15, <1>16 DEF Executes

\* Interrupt 30 is offered to a core exactly while its own timer asserts, and a handler
\* finds it in IAR, for any number of cores, any tick and any compare values
\* (sample_timer, set_line, end_of_interrupt).  On a board of one core because it samples
\* the line before every instruction; on a board of several because nobody ever raises it.
THEOREM TicksAreReal ==
  ASSUME 0 \in Cpu, Ticks \in Nat, Far \in Nat, Delays \subseteq Int
  PROVE  TickSpec => []TickIsReal
<1>1. TickInit => TickInv
  <2> SUFFICES ASSUME TickInit PROVE TickInv
    OBVIOUS
  <2>1. (CHOOSE c \in Cpu : TRUE) \in Cpu
    OBVIOUS
  <2>2. step \in [of : Cpu, doing : {"execute", "service"}]
    BY <2>1 DEF TickInit, TimersOff
  <2>3. timer \in [Cpu -> TimerState] /\ \A c \in Cpu : ~TimerLine(timer[c])
    BY DEF TickInit, TimersOff, TimerState, TimerLine, Istatus
  <2>4. cpu \in [Cpu -> CpuState] /\ \A c \in Cpu : cpu[c].at \notin InHandler
    BY DEF TickInit, TimersOff, CpuState, Ordinary, InHandler
  <2>5. pending = {} /\ lines = {} /\ config = {} /\ priority \in [Interrupt -> 0..255]
    BY DEF TickInit
  <2>6. TickIsReal
    BY <2>4 DEF TickIsReal, InHandler
  <2>7. SampledInv /\ UnsampledInv
    <3>1. cpu[step.of].at # "iar" /\ ~TimerLine(timer[step.of])
      BY <2>2, <2>3, <2>4 DEF InHandler
    <3> QED BY <2>4, <2>5, <2>6, <3>1 DEF SampledInv, UnsampledInv
  <2> QED BY <2>2, <2>3, <2>4, <2>5, <2>7 DEF TickInv, Timers
<1>2. TickInv /\ [TickNext]_tickVars => TickInv'
  <2>1. ASSUME TickInv, TickNext PROVE TickInv'
    BY <2>1, ServiceTick, ExecutesTick DEF TickNext
  <2>2. ASSUME TickInv, UNCHANGED tickVars PROVE TickInv'
    <3>1. /\ UNCHANGED <<interface, enabled, active, routing, sgis>>
          /\ timer' = timer /\ cpu' = cpu /\ step' = step
          /\ pending' = pending /\ lines' = lines /\ config' = config /\ priority' = priority
      BY <2>2 DEF tickVars, gvars, routing
    <3>2. \A c \in Cpu : HighestPriorityPending(c, pending)' = HighestPriorityPending(c, pending)
      BY <3>1, SamePresented
    <3>3. TickIsReal => TickIsReal'
      BY <3>1, <3>2 DEF TickIsReal, TimerLine, Istatus
    <3> QED BY <2>2, <3>1, <3>3 DEF TickInv, Timers, SampledInv, UnsampledInv, TimerLine, Istatus,
                                    Slot, SingleCore
  <2> QED BY <2>1, <2>2
<1>3. TickInv => TickIsReal
  <2>1. ASSUME UnsampledInv PROVE TickIsReal
    BY <2>1 DEF UnsampledInv, TickIsReal, InHandler
  <2> QED BY <2>1 DEF TickInv, SampledInv
<1> QED
  BY <1>1, <1>2, <1>3, PTL DEF TickSpec
=============================================================================
