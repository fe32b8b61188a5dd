----------------------------- MODULE MemoryOrder -----------------------------
(***************************************************************************)
(* MemorySystem observed: history variables note when each register was    *)
(* loaded and when each reservation was taken, so that coherence of reads  *)
(* and the freshness of reservations can be stated.                        *)
(***************************************************************************)
EXTENDS MemorySystem

VARIABLES
  loaded_at,    \* core -> register -> instruction_count of its last load
  reserved_at   \* core -> clock at its last LDXR

ovars == <<vars, loaded_at, reserved_at>>

OInit ==
  /\ Init
  /\ loaded_at = [c \in Core |-> [r \in Reg |-> 0]]
  /\ reserved_at = [c \in Core |-> 0]

Loads(c, r) ==
  loaded_at' = IF r = XZR THEN loaded_at
               ELSE [loaded_at EXCEPT ![c][r] = instruction_count[c]]

ONext ==
  \E c \in Core :
    \/ (Fetch(c) \/ Silent(c)) /\ UNCHANGED <<loaded_at, reserved_at>>
    \/ \E a \in Access, r \in Reg \cup {XZR} :
         \/ Loading(c, a, r) /\ Loads(c, r) /\ UNCHANGED reserved_at
         \/ /\ Reserving(c, a, r)
            /\ Loads(c, r)
            /\ reserved_at' = [reserved_at EXCEPT ![c] = clock]

OSpec == OInit /\ [][ONext]_ovars

-----------------------------------------------------------------------------
\* Write v reached byte b before write w did.
Before(b, v, w) ==
  /\ v # w
  /\ \/ v = InitialWrite
     \/ \E g, h \in history[b] : g.write = v /\ h.write = w /\ g.time < h.time

\* Two loads of one byte keep their order: once both values are settled, the
\* later load does not hold a write that memory had before the earlier one's.
\* (AARCH64.md, `What is never reordered'.)
CoherentReads ==
  \A c \in Core, q, r \in Reg :
    (/\ {q, r} \cap DOMAIN pending_loads[c] = {}
     /\ loaded_at[c][q] < loaded_at[c][r])
    => \A b \in DOMAIN x[c][q] \cap DOMAIN x[c][r] :
         ~Before(b, x[c][r][b], x[c][q][b])

\* A reservation that still stands means no other core's store has reached the
\* block since it was taken, so an STXR it admits is atomic with its LDXR.
\* (exclusive_monitor.py, the second of its two rules.)
ReservationFresh ==
  \A c \in DOMAIN reservations : \A b \in Byte :
    Block(b) = reservations[c] =>
      \A h \in history[b] : h.write.core = c \/ h.time <= reserved_at[c]
=============================================================================
