----------------------------- MODULE GicService -----------------------------
(***************************************************************************)
(* Gic400 with the firmware that uses it: each core ends what it has       *)
(* acknowledged, devices raise and lower their lines, and history          *)
(* variables note what is owed to whom.                                    *)
(***************************************************************************)
EXTENDS Gic400

CONSTANT Patient   \* firmware sends an SGI only once its last one is taken

VARIABLES
  serving,   \* core -> interrupts it has acknowledged and not ended
  edges,     \* slots whose last rising edge nobody has acknowledged
  poked      \* SGI -> cores it was sent to that have not acknowledged it

svars == <<gvars, serving, edges, poked>>

\* The state firmware leaves the controller in once it has set it up.
Configured ==
  /\ distributor_enabled = TRUE
  /\ cpu_interface_enabled = Cpu
  /\ priority_mask = [c \in Cpu |-> 255]
  /\ enabled = Slots /\ pending = {} /\ active = {} /\ lines = {}
  /\ config \in SUBSET (Interrupt \ SGI)
  /\ priority \in [Interrupt -> Level]
  /\ targets = [i \in Interrupt |-> Cpu]
  /\ sgi_targets = [i \in SGI |-> {}]
  /\ sgi_active = [i \in SGI |-> {}]

SInit ==
  /\ Configured
  /\ serving = [c \in Cpu |-> {}]
  /\ edges = {}
  /\ poked = [i \in SGI |-> {}]

Line(i, c, level) ==
  /\ SetLine(i, c, level)
  /\ edges' = IF i \in config /\ level /\ Slot(i, c) \notin lines
              THEN edges \cup {Slot(i, c)} ELSE edges
  /\ UNCHANGED <<serving, poked>>

Poke(i, cpus) ==
  /\ Patient => poked[i] = {}
  /\ SendSgi(i, cpus)
  /\ poked' = [poked EXCEPT ![i] = @ \cup cpus]
  /\ UNCHANGED <<serving, edges>>

Take(c, i) ==
  /\ Acknowledge(c, i)
  /\ serving' = [serving EXCEPT ![c] = @ \cup {i}]
  /\ edges' = edges \ {Slot(i, c)}
  /\ poked' = IF i \in SGI THEN [poked EXCEPT ![i] = @ \ {c}] ELSE poked

End(c, i) ==
  /\ i \in serving[c]
  /\ EndOfInterrupt(c, i)
  /\ serving' = [serving EXCEPT ![c] = @ \ {i}]
  /\ UNCHANGED <<edges, poked>>

\* What firmware withdraws by a register write is no longer owed.
SetUp(c) ==
  /\ Configure(c)
  /\ edges' = {slot \in edges \cap pending' : slot[1] \in config'}
  /\ poked' = [i \in SGI |-> {d \in poked[i] : Slot(i, d) \in pending'}]
  /\ UNCHANGED serving

SNext ==
  \E c \in Cpu :
    \/ SetUp(c)
    \/ \E i \in Interrupt \ SGI, level \in BOOLEAN : Line(i, c, level)
    \/ \E i \in SGI, cpus \in SUBSET Cpu : Poke(i, cpus)
    \/ \E i \in Interrupt : Take(c, i) \/ End(c, i)

SSpec == SInit /\ [][SNext]_svars

\* A core reads IAR while it is interrupted, and its handlers end what they took.
FairSpec ==
  SSpec /\ \A c \in Cpu, i \in Interrupt : WF_svars(Take(c, i)) /\ WF_svars(End(c, i))

-----------------------------------------------------------------------------
\* A shared interrupt is serviced by one core at a time, and a core is servicing
\* exactly what the controller holds active for it: nothing is ended for another
\* core, acknowledged twice or left active.
OneServer ==
  /\ \A c, d \in Cpu : \A i \in serving[c] \cap serving[d] : i >= SPI_BASE => c = d
  /\ \A i \in Interrupt, c \in Cpu :
       IsActiveFor(i, c) <=> \E d \in Cpu : i \in serving[d] /\ Slot(i, c) = Slot(i, d)

\* An edge is remembered until a core acknowledges it, also when it comes while
\* the one before is still being serviced.  (set_line: `latch pending'.)
EdgesAreLatched == edges \subseteq pending

\* Whatever register firmware writes, the controller stays well formed and only a
\* write withdraws an edge (write_register, set_line).
RegistersHold == TypeOK /\ EdgesAreLatched

\* A level interrupt presents exactly while its line is asserted: it neither
\* re-fires after the device was cleared nor is lost while it asserts.
LevelsFollowTheirLine ==
  \A slot \in Slots : slot[1] \notin config \cup SGI => (slot \in pending <=> slot \in lines)

\* An SGI stays routed to a core, and pending in its bank, until that core has
\* acknowledged it.  (targets_cpu, the comment on SGIs.)
PokesStayRouted ==
  \A i \in SGI : \A c \in poked[i] : c \in sgi_targets[i] /\ Slot(i, c) \in pending

\* Every core an SGI was sent to takes it in the end.
PokesAreTaken == \A i \in SGI, c \in Cpu : (c \in poked[i]) ~> (c \notin poked[i])
=============================================================================
