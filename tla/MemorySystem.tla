---------------------------- MODULE MemorySystem ----------------------------
(***************************************************************************)
(* The memory a cluster of AArch64 cores shares, as each of them sees it:  *)
(* the per-core store buffer and load reorderer of store_buffer.py, the    *)
(* byte log of memory_history.py, the exclusive monitor, the loads         *)
(* registers.py defers, and the paths of arm_v8.py that tie them together. *)
(*                                                                         *)
(* Data is abstracted to its origin: a byte holds the identity of the      *)
(* store that wrote it (the issuing core and its store_count).             *)
(*                                                                         *)
(* One emulate_cycle is Fetch followed by one instruction.  The cores are  *)
(* stepped by one Python thread, so `turn' keeps every other core out      *)
(* until the cycle is over; an instruction that drains the store buffer    *)
(* takes one DrainOne step for each entry.                                 *)
(***************************************************************************)
EXTENDS Integers, FiniteSets

CONSTANTS
  Core,      \* the cores of the cluster
  NoCore,    \* not a core: no core is in the middle of a cycle
  Reg,       \* general purpose registers loads go to
  XZR,       \* register 31: discards what is loaded and is never deferred
  Instr,     \* the instructions programs use
  Access,    \* the accesses programs make: records of addr and size
  Model,     \* the memory model in force
  Capacity,  \* entries the store buffer holds before it spills
  Latency,   \* cycles a store may sit in the buffer
  Horizon,   \* how far back the memory history reaches
  Granule,   \* bytes of an exclusive reservation block
  MaxClock   \* bound on the global clock

ASSUME CoreAssumption == NoCore \notin Core
ASSUME RegAssumption == XZR \notin Reg
ASSUME AccessAssumption == Access \subseteq [addr : Nat, size : Nat \ {0}]
ASSUME ModelAssumption == Model \in {"sequential", "relaxed", "adversarial"}
ASSUME BoundAssumption ==
  /\ Capacity \in Nat /\ Latency \in Nat /\ Horizon \in Nat
  /\ MaxClock \in Nat /\ Granule \in Nat \ {0}

VARIABLES
  memory,             \* the shared memory: byte -> the store it holds
  history,            \* MemoryHistory: byte -> recorded writes with their times
  last_prune,         \* MemoryHistory._last_prune
  clock,              \* the cluster's Clock
  instruction_count,  \* per core
  store_count,        \* per core: stores issued
  buffer,             \* per core: StoreBuffer.entries
  last_retire,        \* per core: StoreBuffer.last_retire
  sync_time, seen,    \* per core: LoadReorderer
  own_write_time,     \* per core: byte -> time of its last store there
  x, pending_loads,   \* per core: registers and the loads that may yet refill them
  reservations,       \* ExclusiveMonitor: core -> reserved block
  status,             \* per core: what its last STXR reported
  turn, phase         \* the core inside emulate_cycle, and how far it is

shared   == <<memory, history, last_prune, own_write_time>>
counters == <<clock, instruction_count, last_retire>>
loads    == <<sync_time, seen, x, pending_loads>>
monitor  == <<reservations, status>>
control  == <<turn, phase>>
vars == <<shared, counters, store_count, buffer, loads, monitor, control>>

-----------------------------------------------------------------------------
(* Accesses, writes and buffer entries.                                    *)

Footprint(a) == a.addr .. (a.addr + a.size - 1)
Byte == UNION {Footprint(a) : a \in Access}
Overlaps(a, b) == a.addr < b.addr + b.size /\ b.addr < a.addr + a.size
Block(address) == address \div Granule

Write == [core : Core \cup {NoCore}, n : Nat]
InitialWrite == [core |-> NoCore, n |-> 0]
WriteOf(c, e) == [core |-> c, n |-> e.n]

\* A pending store: its number in program order, when it issued, what it covers.
Entry == [n : Nat, at : Nat, acc : Access]
PendingLoad == [acc : Access, n : Nat]
Record == [time : Nat \cup {-1}, write : Write]

\* MUTANT: push takes a store whatever the model.
Buffering_Always == TRUE

Buffering  == Model # "sequential"

Reordering == Model = "adversarial"

Covering(entries, b) == {e \in entries : b \in Footprint(e.acc)}
Newest(entries) == CHOOSE e \in entries : \A f \in entries : f.n <= e.n

\* MUTANT: reverse order without regard to overlap.
Unblocked_NoOverlapCheck(entries) == entries

\* The entries no older entry overlaps: those that may leave without a byte
\* going backwards.
Unblocked(entries) ==
  {e \in entries : ~ \E f \in entries : f.n < e.n /\ Overlaps(f.acc, e.acc)}

\* e is at the head of drain_order: program order unless the model is
\* adversarial, and then the newest entry that is not held back.
IsNextOut(e, entries) ==
  IF Reordering
  THEN e \in Unblocked(entries) /\ \A f \in Unblocked(entries) : f.n <= e.n
  ELSE \A f \in entries : e.n <= f.n

-----------------------------------------------------------------------------
(* What a store does to the shared memory.                                 *)

\* MemoryHistory.record for one byte; _commit_store passes the byte replaced
\* only when loads are being reordered.
Recorded(b, w, now) ==
  LET seeded == IF history[b] = {} /\ Reordering
                THEN {[time |-> -1, write |-> memory[b]]} ELSE history[b]
  IN  {h \in seeded : h.time # now} \cup {[time |-> now, write |-> w]}

\* MemoryHistory.prune: the last record at or before the cutoff survives.
Pruned(records, now) ==
  {h \in records : ~ \E g \in records : h.time < g.time /\ g.time <= now - Horizon}

\* ArmV8._commit_store.
CommitStore(c, e, now) ==
  LET written == [b \in Byte |-> IF b \in Footprint(e.acc)
                                 THEN Recorded(b, WriteOf(c, e), now)
                                 ELSE history[b]]
      due == now - last_prune > Horizon
  IN  /\ memory' = [b \in Byte |-> IF b \in Footprint(e.acc)
                                   THEN WriteOf(c, e) ELSE memory[b]]
      /\ history' = [b \in Byte |-> IF due THEN Pruned(written[b], now) ELSE written[b]]
      /\ last_prune' = IF due THEN now ELSE last_prune
      /\ own_write_time' = [own_write_time EXCEPT ![c] =
           [b \in Byte |-> IF b \in Footprint(e.acc) THEN now ELSE @[b]]]

-----------------------------------------------------------------------------
(* What a load is answered with.                                           *)

\* MemoryHistory.byte_as_of, falling back on current memory.
AsOf(b, when) ==
  LET past == {h \in history[b] : h.time <= when}
  IN  IF past = {} THEN memory[b]
      ELSE (CHOOSE h \in past : \A g \in past : g.time <= h.time).write

\* MUTANT: the reorderer answers from the past whatever the core has written.
Reordered_NoOverlay(c, b, when) == IF when >= clock THEN memory[b] ELSE AsOf(b, when)

\* _apply_load_reordering: the past, unless this core has written since.
Reordered(c, b, when) ==
  IF when >= clock \/ own_write_time[c][b] > when THEN memory[b] ELSE AsOf(b, when)

\* MUTANT: a first load looks back past the last barrier.
ReadTime_FromReset(c, a) ==
  IF ~Reordering \/ a.addr \in seen[c] THEN clock ELSE 0

\* LoadReorderer.read_time.
ReadTime(c, a) ==
  IF ~Reordering \/ a.addr \in seen[c] THEN clock ELSE sync_time[c]

\* StoreBuffer.forward for one byte.
Forward(c, b) == WriteOf(c, Newest(Covering(buffer[c], b)))

\* ArmV8.mem_get: reordering first, then the core's own pending stores on top.
MemGet(c, a) ==
  [b \in Footprint(a) |-> IF Covering(buffer[c], b) # {} THEN Forward(c, b)
                          ELSE Reordered(c, b, ReadTime(c, a))]

\* A deferred load reads memory again only if a store was issued after it.
Reloads(c, r) == pending_loads[c][r].n # store_count[c]

Without(f, S) == [k \in DOMAIN f \ S |-> f[k]]

\* Registers.resolve_pending_load for a set of registers of one core.
Resolve(c, R) ==
  LET again == {r \in R \cap DOMAIN pending_loads[c] : Reloads(c, r)}
  IN  /\ x' = [x EXCEPT ![c] =
                [r \in Reg |-> IF r \in again THEN MemGet(c, pending_loads[c][r].acc)
                               ELSE @[r]]]
      /\ seen' = [seen EXCEPT ![c] = IF Reordering
                    THEN @ \cup {pending_loads[c][r].acc.addr : r \in again} ELSE @]
      /\ pending_loads' = [pending_loads EXCEPT ![c] = Without(@, R)]
      /\ UNCHANGED sync_time

\* synchronize_reads once the buffer is empty: the window starts again and every
\* outstanding load is settled, from memory as it is now.
SettledBySync(c, r) ==
  IF r \in DOMAIN pending_loads[c] /\ Reloads(c, r)
  THEN [b \in Footprint(pending_loads[c][r].acc) |-> memory[b]]
  ELSE x[c][r]

SeenAfterSync(c) ==
  IF Reordering
  THEN {pending_loads[c][r].acc.addr : r \in {q \in DOMAIN pending_loads[c] : Reloads(c, q)}}
  ELSE {}

\* MUTANT: a barrier leaves the window of reordered loads where it was.
SynchronizeReads_KeepsWindow(c) ==
  /\ UNCHANGED <<sync_time, seen>>
  /\ x' = [x EXCEPT ![c] = [r \in Reg |-> SettledBySync(c, r)]]
  /\ pending_loads' = [pending_loads EXCEPT ![c] = <<>>]

SynchronizeReads(c) ==
  /\ sync_time' = [sync_time EXCEPT ![c] = clock]
  /\ seen' = [seen EXCEPT ![c] = SeenAfterSync(c)]
  /\ x' = [x EXCEPT ![c] = [r \in Reg |-> SettledBySync(c, r)]]
  /\ pending_loads' = [pending_loads EXCEPT ![c] = <<>>]

-----------------------------------------------------------------------------
Init ==
  /\ memory = [b \in Byte |-> InitialWrite]
  /\ history = [b \in Byte |-> {}]
  /\ last_prune = 0
  /\ own_write_time = [c \in Core |-> [b \in Byte |-> -1]]
  /\ clock = 0
  /\ instruction_count = [c \in Core |-> 0]
  /\ last_retire = [c \in Core |-> 0]
  /\ store_count = [c \in Core |-> 0]
  /\ buffer = [c \in Core |-> {}]
  /\ sync_time = [c \in Core |-> 0]
  /\ seen = [c \in Core |-> {}]
  /\ x = [c \in Core |-> [r \in Reg |-> <<>>]]
  /\ pending_loads = [c \in Core |-> <<>>]
  /\ reservations = <<>>
  /\ status = [c \in Core |-> 0]
  /\ turn = NoCore
  /\ phase = "fetch"

\* MUTANT: the core keeps its turn.
EndCycle_KeepsTurn == phase' = "fetch" /\ UNCHANGED turn

EndCycle == turn' = NoCore /\ phase' = "fetch"

-----------------------------------------------------------------------------
(* The start of a cycle, and draining.                                     *)

\* StoreBuffer.retire: the oldest entry has come of age, and the last
\* retirement lies as far back.
RetireDue(c, now) ==
  /\ \E e \in buffer[c] : now - e.at >= Latency
  /\ now - last_retire[c] >= Latency

\* One entry leaves for memory.
SendOut(c, now) ==
  \E out \in buffer[c] :
    /\ IsNextOut(out, buffer[c])
    /\ CommitStore(c, out, now)
    /\ buffer' = [buffer EXCEPT ![c] = @ \ {out}]

\* emulate_cycle up to the fetch: the clock ticks and one store may retire.
Fetch(c) ==
  /\ turn = NoCore
  /\ clock < MaxClock
  /\ clock' = clock + 1
  /\ LET now == instruction_count[c] + 1
     IN  /\ instruction_count' = [instruction_count EXCEPT ![c] = now]
         /\ IF RetireDue(c, now)
            THEN /\ SendOut(c, clock + 1)
                 /\ last_retire' = [last_retire EXCEPT ![c] = now]
            ELSE UNCHANGED <<shared, buffer, last_retire>>
  /\ turn' = c
  /\ phase' = "execute"
  /\ UNCHANGED <<store_count, loads, monitor>>

\* One write of StoreBuffer.drain.  A drain that a full buffer asked for ends
\* the cycle; any other is followed by its synchronising instruction.
DrainOne(c) ==
  /\ turn = c
  /\ SendOut(c, clock)
  /\ IF phase = "spill"
     THEN IF buffer'[c] = {} THEN EndCycle ELSE UNCHANGED control
     ELSE phase' = "sync" /\ UNCHANGED turn
  /\ UNCHANGED <<counters, store_count, loads, monitor>>

-----------------------------------------------------------------------------
(* Plain instructions.                                                     *)

Executing(c) == turn = c /\ phase = "execute"

\* MUTANT: a load is not noted as seen, so its second reading may be stale.
Load_Unseen(c, a, r) ==
  /\ Executing(c)
  /\ r # XZR
  /\ x' = [x EXCEPT ![c][r] = MemGet(c, a)]
  /\ pending_loads' = [pending_loads EXCEPT ![c] =
       [q \in DOMAIN @ \cup {r} |->
          IF q = r THEN [acc |-> a, n |-> store_count[c]] ELSE @[q]]]
  /\ EndCycle
  /\ UNCHANGED <<shared, counters, store_count, buffer, sync_time, seen, monitor>>

\* LDR: the value is read now, and again later if the load is deferred.
Load(c, a, r) ==
  /\ Executing(c)
  /\ seen' = [seen EXCEPT ![c] = IF Reordering THEN @ \cup {a.addr} ELSE @]
  /\ IF r = XZR THEN UNCHANGED <<x, pending_loads>>
     ELSE /\ x' = [x EXCEPT ![c][r] = MemGet(c, a)]
          /\ pending_loads' = [pending_loads EXCEPT ![c] =
               IF Reordering
               THEN [q \in DOMAIN @ \cup {r} |->
                       IF q = r THEN [acc |-> a, n |-> store_count[c]] ELSE @[q]]
               ELSE Without(@, {r})]
  /\ EndCycle
  /\ UNCHANGED <<shared, counters, store_count, buffer, sync_time, monitor>>

\* An instruction that reads r and writes no memory, as branches and arithmetic do.
ReadRegister(c, r) ==
  /\ Executing(c)
  /\ r \in DOMAIN pending_loads[c]
  /\ Resolve(c, {r})
  /\ EndCycle
  /\ UNCHANGED <<shared, counters, store_count, buffer, monitor>>

\* An instruction with no effect here, and a parked core's turn in step_core.
Idle(c) ==
  /\ Executing(c)
  /\ EndCycle
  /\ UNCHANGED <<shared, counters, store_count, buffer, loads, monitor>>

\* MUTANT: a store leaves the other cores' reservations alone.
NotifyStore_Silent(c, a) == UNCHANGED reservations

\* The other cores' reservations of the blocks a store to a touches.
Broken(c, a) ==
  {o \in DOMAIN reservations : /\ o # c
                               /\ Block(a.addr) <= reservations[o]
                               /\ reservations[o] <= Block(a.addr + a.size - 1)}

\* ExclusiveMonitor.notify_store.
NotifyStore(c, a) == reservations' = Without(reservations, Broken(c, a))

\* Deferred loads that a store to a would overtake.
Overtaken(c, a) ==
  {r \in DOMAIN pending_loads[c] : Overlaps(pending_loads[c][r].acc, a)}

\* STR, through ArmV8.mem_set.
Store(c, a) ==
  /\ Executing(c)
  /\ Resolve(c, Overtaken(c, a))
  /\ store_count' = [store_count EXCEPT ![c] = @ + 1]
  /\ NotifyStore(c, a)
  /\ LET e == [n |-> store_count[c] + 1, at |-> instruction_count[c], acc |-> a]
     IN  IF Buffering
         THEN /\ buffer' = [buffer EXCEPT ![c] = @ \cup {e}]
              /\ IF Cardinality(buffer'[c]) > Capacity
                 THEN phase' = "spill" /\ UNCHANGED turn
                 ELSE EndCycle
              /\ UNCHANGED shared
         ELSE /\ CommitStore(c, e, clock)
              /\ EndCycle
              /\ UNCHANGED buffer
  /\ UNCHANGED <<counters, status>>

-----------------------------------------------------------------------------
(* Instructions that drain the buffer first.                               *)

Synchronising(c) == turn = c /\ phase \in {"execute", "sync"} /\ buffer[c] = {}

\* DMB, DSB, ISB and exception return.
Barrier(c) ==
  /\ Synchronising(c)
  /\ SynchronizeReads(c)
  /\ EndCycle
  /\ UNCHANGED <<shared, counters, store_count, buffer, monitor>>

\* LDAR and LDXR.  The load comes after the synchronisation, so it reads memory
\* as it is now.
LoadExclusive(c, a, r, exclusive) ==
  /\ Synchronising(c)
  /\ sync_time' = [sync_time EXCEPT ![c] = clock]
  /\ seen' = [seen EXCEPT ![c] =
                SeenAfterSync(c) \cup (IF Reordering THEN {a.addr} ELSE {})]
  /\ x' = [x EXCEPT ![c] = [q \in Reg |-> IF q = r THEN [b \in Footprint(a) |-> memory[b]]
                                          ELSE SettledBySync(c, q)]]
  /\ pending_loads' = [pending_loads EXCEPT ![c] = <<>>]
  /\ reservations' = IF exclusive
                     THEN [o \in DOMAIN reservations \cup {c} |->
                             IF o = c THEN Block(a.addr) ELSE reservations[o]]
                     ELSE reservations
  /\ EndCycle
  /\ UNCHANGED <<shared, counters, store_count, buffer, status>>

Holds(c, a) == c \in DOMAIN reservations /\ reservations[c] = Block(a.addr)

\* The store half of STLR and of an STXR that succeeded: mem_set and the drain
\* behind it, which finds this one store in the buffer.
StoreThrough(c, a) ==
  /\ store_count' = [store_count EXCEPT ![c] = @ + 1]
  /\ CommitStore(c, [n |-> store_count[c] + 1, at |-> instruction_count[c], acc |-> a], clock)

StoreRelease(c, a) ==
  /\ Synchronising(c)
  /\ SynchronizeReads(c)
  /\ StoreThrough(c, a)
  /\ NotifyStore(c, a)
  /\ EndCycle
  /\ UNCHANGED <<counters, buffer, status>>

\* STXR whose reservation survived: every core's reservation of the block goes,
\* then those of the others the store touches.
StoreExclusive(c, a) ==
  /\ Synchronising(c)
  /\ Holds(c, a)
  /\ SynchronizeReads(c)
  /\ StoreThrough(c, a)
  /\ reservations' = Without(reservations,
       {o \in DOMAIN reservations : reservations[o] = Block(a.addr)} \cup Broken(c, a))
  /\ status' = [status EXCEPT ![c] = 0]
  /\ EndCycle
  /\ UNCHANGED <<counters, buffer>>

StoreExclusiveFails(c, a) ==
  /\ Synchronising(c)
  /\ ~Holds(c, a)
  /\ SynchronizeReads(c)
  /\ reservations' = Without(reservations, {c})
  /\ status' = [status EXCEPT ![c] = 1]
  /\ EndCycle
  /\ UNCHANGED <<shared, counters, store_count, buffer>>

\* CLREX does not synchronise.
ClearExclusive(c) ==
  /\ Executing(c)
  /\ c \in DOMAIN reservations
  /\ reservations' = Without(reservations, {c})
  /\ EndCycle
  /\ UNCHANGED <<shared, counters, store_count, buffer, loads, status>>

\* take_exception, as far as memory is concerned.
TakeException(c) ==
  /\ Synchronising(c)
  /\ SynchronizeReads(c)
  /\ reservations' = Without(reservations, {c})
  /\ EndCycle
  /\ UNCHANGED <<shared, counters, store_count, buffer, status>>

-----------------------------------------------------------------------------
Loading(c, a, r) ==
  \/ "LDR" \in Instr /\ Load(c, a, r)
  \/ "LDAR" \in Instr /\ LoadExclusive(c, a, r, FALSE)

Reserving(c, a, r) == "LDXR" \in Instr /\ LoadExclusive(c, a, r, TRUE)

Storing(c, a) ==
  \/ "STR" \in Instr /\ Store(c, a)
  \/ "STLR" \in Instr /\ StoreRelease(c, a)
  \/ "STXR" \in Instr /\ (StoreExclusive(c, a) \/ StoreExclusiveFails(c, a))

\* Steps inside a cycle that load no register.
Silent(c) ==
  \/ DrainOne(c)
  \/ Idle(c)
  \/ \E r \in Reg : ReadRegister(c, r)
  \/ \E a \in Access : Storing(c, a)
  \/ "DMB" \in Instr /\ Barrier(c)
  \/ "CLREX" \in Instr /\ ClearExclusive(c)
  \/ "SVC" \in Instr /\ TakeException(c)

Next ==
  \E c \in Core :
    \/ Fetch(c)
    \/ Silent(c)
    \/ \E a \in Access, r \in Reg \cup {XZR} : Loading(c, a, r) \/ Reserving(c, a, r)

Spec == Init /\ [][Next]_vars

-----------------------------------------------------------------------------
(* Properties.                                                             *)

\* A Python dict with keys in S and values in T.
IsPartial(f, S, T) == DOMAIN f \subseteq S /\ \A k \in DOMAIN f : f[k] \in T

SharedOK ==
  /\ memory \in [Byte -> Write]
  /\ history \in [Byte -> SUBSET Record]
  /\ last_prune \in Nat
  /\ own_write_time \in [Core -> [Byte -> Nat \cup {-1}]]

CountersOK ==
  /\ clock \in Nat
  /\ instruction_count \in [Core -> Nat]
  /\ last_retire \in [Core -> Nat]

BuffersOK ==
  /\ store_count \in [Core -> Nat]
  /\ buffer \in [Core -> SUBSET Entry]

LoadsOK ==
  /\ sync_time \in [Core -> Nat]
  /\ seen \in [Core -> SUBSET Nat]
  /\ x = [c \in Core |-> [r \in Reg |-> x[c][r]]]
  /\ \A c \in Core, r \in Reg : IsPartial(x[c][r], Byte, Write)
  /\ pending_loads = [c \in Core |-> pending_loads[c]]
  /\ \A c \in Core : IsPartial(pending_loads[c], Reg, PendingLoad)

MonitorOK ==
  /\ IsPartial(reservations, Core, Nat)
  /\ status \in [Core -> {0, 1}]

ControlOK ==
  /\ turn \in Core \cup {NoCore}
  /\ phase \in {"fetch", "execute", "sync", "spill"}
  /\ turn = NoCore <=> phase = "fetch"

\* Every variable holds what the code keeps there, and a core that has taken the
\* turn gives it back at the end of its cycle.
TypeOK == SharedOK /\ CountersOK /\ BuffersOK /\ LoadsOK /\ MonitorOK /\ ControlOK

\* Writes of one core to one byte reach memory in program order: nothing still
\* in a store buffer is older than a write of the same core that is already out.
\* (drain_order's exception for overlapping stores, under every way to leave.)
ProgramOrderPerByte ==
  \A c \in Core : \A e \in buffer[c] : \A b \in Footprint(e.acc) :
    \A h \in history[b] : h.write.core = c => h.write.n < e.n

\* A core never sees its own stores go backwards: whatever it would read now is
\* its newest pending store to the byte, or at least as recent in memory as
\* anything it has published there.
OwnStoresVisible ==
  \A c \in Core, a \in Access : \A b \in Footprint(a) :
    LET w == MemGet(c, a)[b]
        pending == Covering(buffer[c], b)
    IN  IF pending # {} THEN \A e \in pending : w.core = c /\ e.n <= w.n
        ELSE \A h \in history[b] : h.write.core = c =>
               \E g \in history[b] : g.write = w /\ h.time <= g.time

\* Putting a load off only moves it later: when a deferred load is read again
\* it is answered with current memory, never with the reorderer's past.
DeferredLoadsReadNow ==
  \A c \in Core : \A r \in DOMAIN pending_loads[c] :
    ReadTime(c, pending_loads[c][r].acc) = clock

\* A barrier, acquire or exclusive bounds how old a later load can be: it never
\* returns a write that had been replaced before the core last synchronised.
NothingOlderThanSync ==
  \A c \in Core, a \in Access : \A b \in Footprint(a) :
    LET w == MemGet(c, a)[b]
    IN  w.core # c =>
          ~ \E g, h \in history[b] :
              /\ g.write = w
              /\ g.time < h.time
              /\ h.time <= sync_time[c]

\* The sequential model is sequentially consistent: every behaviour is one of a
\* single memory that stores enter and loads read at once.
\* (MemoryModel.SEQUENTIAL: `every store goes straight to memory'.)
SC == INSTANCE SequentialMemory WITH
        Span <- {Footprint(a) : a \in Access}, Initially <- InitialWrite,
        mem <- memory, regs <- x, issued <- store_count

SequentiallyConsistent == SC!Spec
=============================================================================
