------------------------------- MODULE Boards -------------------------------
(***************************************************************************)
(* What must happen in the end outside the cores: bench is "gic" for the   *)
(* interrupts of GicService, "machine" for the two wired boards of         *)
(* Machine, and "buffer" for the stores a core leaves behind               *)
(* (StoreLifetime).  The interrupt controller stands still on the others.  *)
(***************************************************************************)
EXTENDS GicService

VARIABLES bench, board, wire, turn, entries, since, storing

wiring == <<board, wire, turn>>
buffering == <<entries, since, storing>>
bvars == <<svars, bench, wiring, buffering>>

Wired == INSTANCE Machine WITH Pins <- {"out", "in"}, SliceSize <- 2, MayCrash <- FALSE

Buffer == INSTANCE StoreLifetime WITH
  Location <- {1, 2, 3}, Model <- "adversarial", Capacity <- 3, Latency <- 3

Still == config = {} /\ priority = [i \in Interrupt |-> 160]

BoardsInit ==
  /\ bench \in {"gic", "machine", "buffer"}
  /\ IF bench = "machine" THEN Wired!MachineInit ELSE board = "none" /\ wire = "none" /\ turn = "none"
  /\ IF bench = "buffer" THEN Buffer!Init ELSE entries = "none" /\ since = "none" /\ storing = "none"
  /\ SInit
  /\ bench # "gic" => Still

BoardsNext ==
  /\ \/ bench = "gic" /\ SNext /\ UNCHANGED <<wiring, buffering>>
     \/ bench = "machine" /\ Wired!MachineNext /\ UNCHANGED <<svars, buffering>>
     \/ bench = "buffer" /\ Buffer!Next /\ UNCHANGED <<svars, wiring>>
  /\ UNCHANGED bench

OnGic(A) == bench = "gic" /\ A /\ UNCHANGED <<bench, wiring, buffering>>

\* A core that is interrupted reads IAR, and its handlers end what they took; the
\* machine is run; a core is given its cycles.
BoardsSpec ==
  /\ BoardsInit /\ [][BoardsNext]_bvars
  /\ \A c \in Cpu :
       /\ WF_bvars(OnGic(\E i \in Interrupt : Take(c, i)))
       /\ \A i \in Interrupt \cap SGI : WF_bvars(OnGic(End(c, i)))
  /\ WF_bvars(/\ \/ bench = "machine" /\ Wired!MachineNext /\ UNCHANGED buffering
                 \/ bench = "buffer" /\ Buffer!Cycle /\ UNCHANGED wiring
              /\ UNCHANGED <<svars, bench>>)

-----------------------------------------------------------------------------
\* A level held on a wire reaches the other board's handler (see Machine).
SignalsCross ==
  \A b \in {"pi", "nano"}, level \in {"high", "low"} :
    (bench = "machine" /\ Wired!Unheard(b, level)) ~> (bench # "machine" \/ Wired!Heard(b, level))

\* A program that ends in plain stores publishes them all: its core need only be
\* given further cycles (StoreBuffer.retire, Cluster.step_round).
LastStoresLand ==
  (bench = "buffer" /\ storing = FALSE) ~> (bench = "buffer" => entries = <<>>)
=============================================================================
