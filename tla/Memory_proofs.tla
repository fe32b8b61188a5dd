---------------------------- MODULE Memory_proofs ----------------------------
(***************************************************************************)
(* Theorems about the memory system, for every set of cores, registers and *)
(* accesses, every memory model and every bound.                           *)
(*                                                                         *)
(* First store buffers and the order in which stores reach memory, and,    *)
(* for the sequential model, that it implements a single memory that       *)
(* stores enter and loads read at once.  Then what a load may be answered  *)
(* with and how fresh a reservation is that still stands: theorems about   *)
(* the log of memory_history.py, the reorderer that reads it and the       *)
(* exclusive monitor.                                                      *)
(***************************************************************************)
EXTENDS MemoryOrder, WellFoundedInduction, TLAPS

-----------------------------------------------------------------------------
(* Least and greatest elements.                                            *)

\* A nonempty set of naturals has a least element.
LEMMA LeastNat ==
  ASSUME NEW S, S \subseteq Nat, S # {}
  PROVE  \E m \in S : \A k \in S : m <= k
<1>1. IsWellFoundedOn(OpToRel(<, Nat), Nat)
  BY NatLessThanWellFounded
<1>2. PICK m \in S : \A k \in S : ~(<<k, m>> \in OpToRel(<, Nat))
  BY <1>1, WFMin, Zenon
<1>3. ASSUME NEW k \in S PROVE m <= k
  <2>1. m \in Nat /\ k \in Nat
    OBVIOUS
  <2>2. ~(k < m)
    BY <1>2, <2>1, Zenon DEF OpToRel
  <2> QED BY <2>1, <2>2
<1> QED
  BY <1>3

\* A nonempty set of integers with an upper bound has a greatest element.
LEMMA GreatestInt ==
  ASSUME NEW S, S \subseteq Int, S # {}, NEW N \in Int, \A k \in S : k <= N
  PROVE  \E m \in S : \A k \in S : k <= m
<1> DEFINE D == {N - k : k \in S}
<1>1. D \subseteq Nat /\ D # {}
  <2>1. ASSUME NEW k \in S PROVE N - k \in Nat
    <3>1. k \in Int /\ k <= N
      OBVIOUS
    <3> QED BY <3>1
  <2>2. PICK k \in S : TRUE
    OBVIOUS
  <2> QED BY <2>1, <2>2
<1>2. PICK d \in D : \A k \in D : d <= k
  <2> HIDE DEF D
  <2> QED BY <1>1, LeastNat
<1>3. PICK m \in S : d = N - m
  OBVIOUS
<1>4. ASSUME NEW k \in S PROVE k <= m
  <2>1. N - k \in D
    OBVIOUS
  <2>2. d <= N - k
    BY <1>2, <2>1
  <2> QED BY <1>3, <2>2
<1> QED
  BY <1>4

\* The newest of a nonempty set of entries is one of them, when their numbers
\* are bounded.
LEMMA NewestExists ==
  ASSUME NEW S, S \subseteq Entry, S # {}, NEW N \in Nat, \A e \in S : e.n <= N
  PROVE  Newest(S) \in S /\ \A f \in S : f.n <= Newest(S).n
<1> DEFINE I == {e.n : e \in S}
<1>1. I \subseteq Int /\ I # {} /\ N \in Int /\ \A k \in I : k <= N
  BY DEF Entry
<1>2. PICK m \in I : \A k \in I : k <= m
  <2> HIDE DEF I
  <2> QED BY <1>1, GreatestInt
<1>3. PICK e \in S : e.n = m
  OBVIOUS
<1>4. \A f \in S : f.n <= e.n
  BY <1>2, <1>3
<1> QED
  BY <1>4 DEF Newest

\* The latest of a nonempty set of records that are not after a given time.
LEMMA LatestExists ==
  ASSUME NEW S, S \subseteq Record, S # {}, NEW N \in Int, \A h \in S : h.time <= N
  PROVE  LET l == CHOOSE h \in S : \A g \in S : g.time <= h.time
         IN  l \in S /\ \A g \in S : g.time <= l.time
<1> DEFINE I == {h.time : h \in S}
<1>1. I \subseteq Int /\ I # {} /\ \A k \in I : k <= N
  BY DEF Record
<1>2. PICK m \in I : \A k \in I : k <= m
  <2> HIDE DEF I
  <2> QED BY <1>1, GreatestInt
<1>3. PICK h \in S : h.time = m
  OBVIOUS
<1>4. \A g \in S : g.time <= h.time
  BY <1>2, <1>3
<1> QED
  BY <1>4

-----------------------------------------------------------------------------
(* Types.                                                                  *)

\* Stores are numbered by store_count, so a buffer holds no number beyond it.
Numbered == \A c \in Core : \A e \in buffer[c] : e.n <= store_count[c]

\* The type invariant as it is proved: with the numbering that makes the newest
\* pending store exist.
TypeInv == TypeOK /\ Numbered

\* The bytes of an access are bytes of the model.
LEMMA FootprintInByte == \A a \in Access : Footprint(a) \subseteq Byte
  BY DEF Byte

\* A store's identity is a write.
LEMMA WriteOfType ==
  ASSUME NEW c \in Core, NEW e, e.n \in Nat
  PROVE  WriteOf(c, e) \in Write
  BY DEF WriteOf, Write

\* One byte of a record or a prune stays a set of records.
LEMMA RecordedType ==
  ASSUME SharedOK, NEW b \in Byte, NEW w \in Write, NEW now \in Nat
  PROVE  Recorded(b, w, now) \subseteq Record
  BY DEF SharedOK, Recorded, Record, Write

\* _commit_store keeps the shared state well typed.
LEMMA CommitType ==
  ASSUME SharedOK, NEW c \in Core, NEW e, e.n \in Nat, NEW now \in Nat,
         CommitStore(c, e, now)
  PROVE  SharedOK'
<1>1. WriteOf(c, e) \in Write
  BY WriteOfType
<1>2. memory' \in [Byte -> Write]
  BY <1>1 DEF CommitStore, SharedOK
<1>3. history' \in [Byte -> SUBSET Record]
  <2> DEFINE written == [b \in Byte |-> IF b \in Footprint(e.acc)
                                        THEN Recorded(b, WriteOf(c, e), now)
                                        ELSE history[b]]
  <2>1. \A b \in Byte : written[b] \subseteq Record
    BY <1>1, RecordedType DEF SharedOK
  <2>2. \A b \in Byte : Pruned(written[b], now) \subseteq Record
    BY <2>1 DEF Pruned
  <2>3. history' = [b \in Byte |-> IF now - last_prune > Horizon
                                   THEN Pruned(written[b], now) ELSE written[b]]
    BY Zenon DEF CommitStore
  <2> HIDE DEF written
  <2> QED BY <2>1, <2>2, <2>3
<1>4. last_prune' \in Nat
  BY DEF CommitStore, SharedOK
<1>5. own_write_time' \in [Core -> [Byte -> Nat \cup {-1}]]
  BY DEF CommitStore, SharedOK
<1> QED
  BY <1>2, <1>3, <1>4, <1>5 DEF SharedOK

\* What a load returns is a write for each byte it covers.
LEMMA MemGetType ==
  ASSUME TypeInv, NEW c \in Core, NEW a \in Access
  PROVE  IsPartial(MemGet(c, a), Byte, Write)
<1> USE DEF TypeInv
<1>1. ASSUME NEW b \in Footprint(a) PROVE MemGet(c, a)[b] \in Write
  <2>0. b \in Byte
    BY FootprintInByte
  <2>1. CASE Covering(buffer[c], b) # {}
    <3>1. Covering(buffer[c], b) \subseteq Entry
      BY DEF Covering, TypeOK, BuffersOK
    <3>2. \A e \in Covering(buffer[c], b) : e.n <= store_count[c]
      BY DEF Covering, Numbered
    <3>3. store_count[c] \in Nat
      BY DEF TypeOK, BuffersOK
    <3>4. Newest(Covering(buffer[c], b)) \in Entry
      BY <2>1, <3>1, <3>2, <3>3, NewestExists
    <3>5. Forward(c, b) \in Write
      BY <3>4, WriteOfType DEF Forward, Entry
    <3> QED BY <2>1, <3>5 DEF MemGet
  <2>2. CASE Covering(buffer[c], b) = {}
    <3> DEFINE when == ReadTime(c, a)
               past == {h \in history[b] : h.time <= when}
    <3>1. when \in Int
      BY DEF ReadTime, TypeOK, CountersOK, LoadsOK
    <3>2. memory[b] \in Write
      BY <2>0 DEF TypeOK, SharedOK
    <3>3. past \subseteq Record /\ \A h \in past : h.time <= when
      BY <2>0 DEF TypeOK, SharedOK
    <3>4. AsOf(b, when) \in Write
      <4>1. CASE past = {}
        BY <3>2, <4>1 DEF AsOf
      <4>2. CASE past # {}
        <5> DEFINE l == CHOOSE h \in past : \A g \in past : g.time <= h.time
        <5>1. l \in past
          <6> HIDE DEF past, when
          <6> QED BY <3>1, <3>3, <4>2, LatestExists
        <5>2. l.write \in Write
          <6> HIDE DEF l
          <6> QED BY <3>3, <5>1 DEF Record
        <5> QED BY <4>2, <5>2 DEF AsOf
      <4> QED BY <4>1, <4>2
    <3>5. Reordered(c, b, when) \in Write
      <4> HIDE DEF when
      <4> QED BY <3>2, <3>4 DEF Reordered
    <3> QED BY <2>2, <3>5 DEF MemGet
  <2> QED BY <2>1, <2>2
<1>2. DOMAIN MemGet(c, a) = Footprint(a)
  BY DEF MemGet
<1> QED
  BY <1>1, <1>2, FootprintInByte DEF IsPartial

\* Addresses are naturals.
LEMMA AddressType == \A a \in Access : a.addr \in Nat
  BY AccessAssumption

\* Performing deferred loads keeps registers, reorderer and loads well typed.
LEMMA ResolveType ==
  ASSUME TypeInv, NEW c \in Core, NEW R, Resolve(c, R)
  PROVE  LoadsOK'
<1> USE DEF TypeInv, TypeOK, LoadsOK
<1>1. sync_time' \in [Core -> Nat]
  BY DEF Resolve
<1>2. \A r \in DOMAIN pending_loads[c] : pending_loads[c][r].acc \in Access
  BY DEF IsPartial, PendingLoad
<1>3. seen' \in [Core -> SUBSET Nat]
  BY <1>2, AddressType DEF Resolve
<1>4. ASSUME NEW d \in Core, NEW r \in Reg PROVE IsPartial(x'[d][r], Byte, Write)
  BY <1>2, MemGetType DEF Resolve
<1>5. x' = [d \in Core |-> [r \in Reg |-> x'[d][r]]]
  BY DEF Resolve
<1>6. pending_loads' = [d \in Core |-> pending_loads'[d]]
  BY DEF Resolve
<1>7. ASSUME NEW d \in Core PROVE IsPartial(pending_loads'[d], Reg, PendingLoad)
  BY DEF Resolve, Without, IsPartial
<1> QED
  BY <1>1, <1>3, <1>4, <1>5, <1>6, <1>7

\* What synchronize_reads leaves in `seen' and in a register.
LEMMA SettledType ==
  ASSUME TypeInv, NEW c \in Core
  PROVE  /\ SeenAfterSync(c) \subseteq Nat
         /\ \A r \in Reg : IsPartial(SettledBySync(c, r), Byte, Write)
<1> USE DEF TypeInv, TypeOK, LoadsOK
<1>1. \A r \in DOMAIN pending_loads[c] : pending_loads[c][r].acc \in Access
  BY DEF IsPartial, PendingLoad
<1>2. \A a \in Access : IsPartial([b \in Footprint(a) |-> memory[b]], Byte, Write)
  BY FootprintInByte DEF IsPartial, SharedOK
<1> QED
  BY <1>1, <1>2, AddressType DEF SeenAfterSync, SettledBySync

\* synchronize_reads keeps registers, reorderer and loads well typed.
LEMMA SynchronizeType ==
  ASSUME TypeInv, NEW c \in Core, SynchronizeReads(c)
  PROVE  LoadsOK'
<1> USE DEF TypeInv, TypeOK, LoadsOK
<1>1. sync_time' \in [Core -> Nat]
  BY DEF SynchronizeReads, CountersOK
<1>2. seen' \in [Core -> SUBSET Nat]
  BY SettledType DEF SynchronizeReads
<1>3. \A d \in Core, r \in Reg : IsPartial(x'[d][r], Byte, Write)
  BY SettledType DEF SynchronizeReads
<1>4. x' = [d \in Core |-> [r \in Reg |-> x'[d][r]]]
  BY DEF SynchronizeReads
<1>5. pending_loads' = [d \in Core |-> pending_loads'[d]]
  BY DEF SynchronizeReads
<1>6. \A d \in Core : IsPartial(pending_loads'[d], Reg, PendingLoad)
  BY DEF SynchronizeReads, IsPartial
<1> QED
  BY <1>1, <1>2, <1>3, <1>4, <1>5, <1>6

\* A reservation block is a natural number.
LEMMA BlockType == \A a \in Access : Block(a.addr) \in Nat
  BY AccessAssumption, BoundAssumption DEF Block

\* Dropping reservations, or taking one, keeps the monitor well typed.
LEMMA WithoutType ==
  ASSUME NEW f, NEW S, NEW T, NEW D, IsPartial(f, S, T)
  PROVE  IsPartial(Without(f, D), S, T)
  BY DEF IsPartial, Without

\* A store that leaves the buffer: the shared state stays well typed and
\* nothing is added to any buffer.
LEMMA SendOutType ==
  ASSUME TypeInv, NEW c \in Core, NEW now \in Nat, SendOut(c, now)
  PROVE  /\ SharedOK'
         /\ buffer' \in [Core -> SUBSET Entry]
         /\ \A d \in Core : buffer'[d] \subseteq buffer[d]
<1>1. PICK out \in buffer[c] :
        CommitStore(c, out, now) /\ buffer' = [buffer EXCEPT ![c] = @ \ {out}]
  BY DEF SendOut
<1>2. out.n \in Nat
  BY DEF TypeInv, TypeOK, BuffersOK, Entry
<1>3. SharedOK'
  BY <1>1, <1>2, CommitType DEF TypeInv, TypeOK
<1> QED
  BY <1>1, <1>3 DEF TypeInv, TypeOK, BuffersOK

\* TypeInv is kept by a step that numbers no new store, once its parts are.
LEMMA SameNumbering ==
  ASSUME TypeInv, UNCHANGED store_count,
         buffer' \in [Core -> SUBSET Entry],
         \A d \in Core : buffer'[d] \subseteq buffer[d]
  PROVE  BuffersOK' /\ Numbered'
  BY DEF TypeInv, TypeOK, BuffersOK, Numbered

\* So it is by a store that goes straight to memory.
LEMMA OneMoreStore ==
  ASSUME TypeInv, NEW c \in Core, UNCHANGED buffer,
         store_count' = [store_count EXCEPT ![c] = @ + 1]
  PROVE  BuffersOK' /\ Numbered'
<1> USE DEF TypeInv, TypeOK, BuffersOK
<1>1. BuffersOK'
  OBVIOUS
<1>2. ASSUME NEW d \in Core, NEW f \in buffer[d] PROVE f.n <= store_count'[d]
  <2>1. f.n \in Nat /\ f.n <= store_count[d]
    BY DEF Numbered, Entry
  <2> QED BY <2>1
<1> QED
  BY <1>1, <1>2 DEF Numbered

-----------------------------------------------------------------------------
(* Type correctness, action by action.                                     *)

\* The initial state is well typed.
LEMMA InitType == Init => TypeInv
<1> SUFFICES ASSUME Init PROVE TypeInv
  OBVIOUS
<1>1. SharedOK
  BY DEF Init, SharedOK, Write, InitialWrite
<1>2. CountersOK /\ BuffersOK /\ Numbered
  BY DEF Init, CountersOK, BuffersOK, Numbered
<1>3. LoadsOK
  BY DEF Init, LoadsOK, IsPartial
<1>4. MonitorOK
  BY DEF Init, MonitorOK, IsPartial
<1>5. ControlOK
  BY DEF Init, ControlOK
<1> QED
  BY <1>1, <1>2, <1>3, <1>4, <1>5 DEF TypeInv, TypeOK

\* Fetch keeps the type invariant.
LEMMA FetchType ==
  ASSUME TypeInv, NEW c \in Core, Fetch(c)
  PROVE  TypeInv'
<1> USE DEF TypeInv, TypeOK
<1> DEFINE now == instruction_count[c] + 1
<1>1. clock + 1 \in Nat /\ now \in Nat
  BY DEF CountersOK
<1>2. /\ SharedOK'
      /\ buffer' \in [Core -> SUBSET Entry]
      /\ \A d \in Core : buffer'[d] \subseteq buffer[d]
  <2>1. CASE RetireDue(c, now)
    <3>1. SendOut(c, clock + 1)
      BY <2>1 DEF Fetch
    <3> QED BY <1>1, <3>1, SendOutType
  <2>2. CASE ~RetireDue(c, now)
    <3>1. UNCHANGED shared /\ UNCHANGED buffer
      BY <2>2 DEF Fetch
    <3> QED BY <3>1 DEF shared, SharedOK, BuffersOK
  <2> QED BY <2>1, <2>2
<1>3. BuffersOK' /\ Numbered'
  BY <1>2, SameNumbering DEF Fetch
<1>4. CountersOK'
  <2>1. clock' \in Nat
    BY <1>1 DEF Fetch
  <2>2. instruction_count' \in [Core -> Nat]
    BY <1>1 DEF Fetch, CountersOK
  <2>3. last_retire' \in [Core -> Nat]
    BY <1>1 DEF Fetch, CountersOK
  <2> QED BY <2>1, <2>2, <2>3 DEF CountersOK
<1>5. LoadsOK' /\ MonitorOK'
  BY DEF Fetch, loads, monitor, LoadsOK, MonitorOK
<1>6. ControlOK'
  BY CoreAssumption DEF Fetch, ControlOK
<1> QED
  BY <1>2, <1>3, <1>4, <1>5, <1>6

\* A cycle that ends leaves nobody inside emulate_cycle.
LEMMA EndCycleType == EndCycle => ControlOK'
  BY CoreAssumption DEF EndCycle, ControlOK

\* DrainOne keeps the type invariant.
LEMMA DrainOneType ==
  ASSUME TypeInv, NEW c \in Core, DrainOne(c)
  PROVE  TypeInv'
<1> USE DEF TypeInv, TypeOK
<1>1. SendOut(c, clock) /\ clock \in Nat
  BY DEF DrainOne, CountersOK
<1>2. /\ SharedOK'
      /\ buffer' \in [Core -> SUBSET Entry]
      /\ \A d \in Core : buffer'[d] \subseteq buffer[d]
  BY <1>1, SendOutType
<1>3. BuffersOK' /\ Numbered'
  BY <1>2, SameNumbering DEF DrainOne
<1>4. CountersOK' /\ LoadsOK' /\ MonitorOK'
  BY DEF DrainOne, counters, loads, monitor, CountersOK, LoadsOK, MonitorOK
<1>5. ControlOK'
  <2>1. CASE EndCycle
    BY <2>1, EndCycleType
  <2>2. CASE UNCHANGED control
    BY <2>2 DEF control, ControlOK
  <2>3. CASE phase' = "sync" /\ UNCHANGED turn
    BY <2>3, CoreAssumption DEF DrainOne, ControlOK
  <2> QED BY <2>1, <2>2, <2>3 DEF DrainOne
<1> QED
  BY <1>2, <1>3, <1>4, <1>5

\* LDR keeps the type invariant.
LEMMA LoadType ==
  ASSUME TypeInv, NEW c \in Core, NEW a \in Access, NEW r \in Reg \cup {XZR},
         Load(c, a, r)
  PROVE  TypeInv'
<1> USE DEF TypeInv, TypeOK
<1>1. SharedOK' /\ CountersOK' /\ BuffersOK' /\ MonitorOK' /\ Numbered'
  BY DEF Load, shared, counters, monitor, SharedOK, CountersOK, BuffersOK, MonitorOK, Numbered
<1>2. ControlOK'
  BY EndCycleType DEF Load
<1>3. LoadsOK'
  <2>1. sync_time' \in [Core -> Nat]
    BY DEF Load, LoadsOK
  <2>2. seen' \in [Core -> SUBSET Nat]
    BY AddressType DEF Load, LoadsOK
  <2>3. CASE r = XZR
    BY <2>1, <2>2, <2>3 DEF Load, LoadsOK
  <2>4. CASE r # XZR
    <3>1. x' = [x EXCEPT ![c][r] = MemGet(c, a)]
      BY <2>4 DEF Load
    <3>2. IsPartial(MemGet(c, a), Byte, Write)
      BY MemGetType
    <3>3. x' = [d \in Core |-> [q \in Reg |-> x'[d][q]]]
      BY <3>1 DEF LoadsOK
    <3>4. \A d \in Core, q \in Reg : IsPartial(x'[d][q], Byte, Write)
      BY <3>1, <3>2 DEF LoadsOK
    <3> DEFINE kept == pending_loads[c]
               defer == [q \in DOMAIN kept \cup {r} |->
                           IF q = r THEN [acc |-> a, n |-> store_count[c]] ELSE kept[q]]
    <3>5. IsPartial(defer, Reg, PendingLoad)
      <4>1. [acc |-> a, n |-> store_count[c]] \in PendingLoad
        BY DEF BuffersOK, PendingLoad
      <4>2. IsPartial(kept, Reg, PendingLoad)
        BY DEF LoadsOK
      <4> HIDE DEF kept
      <4> QED BY <2>4, <4>1, <4>2 DEF IsPartial
    <3>6. IsPartial(Without(kept, {r}), Reg, PendingLoad)
      BY WithoutType DEF LoadsOK
    <3>7. pending_loads' = [pending_loads EXCEPT ![c] =
                              IF Reordering THEN defer ELSE Without(kept, {r})]
      BY <2>4 DEF Load, LoadsOK
    <3>8. pending_loads' = [d \in Core |-> pending_loads'[d]]
      BY <3>7 DEF LoadsOK
    <3>9. \A d \in Core : IsPartial(pending_loads'[d], Reg, PendingLoad)
      <4> HIDE DEF defer
      <4> QED BY <3>5, <3>6, <3>7 DEF LoadsOK
    <3> QED BY <2>1, <2>2, <3>3, <3>4, <3>8, <3>9 DEF LoadsOK
  <2> QED BY <2>3, <2>4
<1> QED
  BY <1>1, <1>2, <1>3

\* Reading a register keeps the type invariant.
LEMMA ReadRegisterType ==
  ASSUME TypeInv, NEW c \in Core, NEW r \in Reg, ReadRegister(c, r)
  PROVE  TypeInv'
<1>1. LoadsOK'
  BY ResolveType DEF ReadRegister
<1>2. ControlOK'
  BY EndCycleType DEF ReadRegister
<1>3. SharedOK' /\ CountersOK' /\ BuffersOK' /\ MonitorOK' /\ Numbered'
  BY DEF TypeInv, TypeOK, ReadRegister, shared, counters, monitor, SharedOK, CountersOK,
         BuffersOK, MonitorOK, Numbered
<1> QED
  BY <1>1, <1>2, <1>3 DEF TypeInv, TypeOK

\* An idle cycle keeps the type invariant.
LEMMA IdleType ==
  ASSUME TypeInv, NEW c \in Core, Idle(c)
  PROVE  TypeInv'
<1>1. ControlOK'
  BY EndCycleType DEF Idle
<1>2. SharedOK' /\ CountersOK' /\ BuffersOK' /\ LoadsOK' /\ MonitorOK' /\ Numbered'
  BY DEF TypeInv, TypeOK, Idle, shared, counters, loads, monitor, SharedOK, CountersOK,
         BuffersOK, LoadsOK, MonitorOK, Numbered
<1> QED
  BY <1>1, <1>2 DEF TypeInv, TypeOK

\* notify_store keeps the monitor's reservations well typed.
LEMMA NotifyStoreType ==
  ASSUME TypeInv, NEW c \in Core, NEW a \in Access, NotifyStore(c, a)
  PROVE  IsPartial(reservations', Core, Nat)
  BY WithoutType DEF TypeInv, TypeOK, MonitorOK, NotifyStore

\* STR keeps the type invariant.
LEMMA StoreType ==
  ASSUME TypeInv, NEW c \in Core, NEW a \in Access, Store(c, a)
  PROVE  TypeInv'
<1> USE DEF TypeInv, TypeOK
<1> DEFINE e == [n |-> store_count[c] + 1, at |-> instruction_count[c], acc |-> a]
<1>1. e \in Entry /\ e.n \in Nat /\ clock \in Nat
  BY DEF Entry, BuffersOK, CountersOK
<1>2. store_count' = [store_count EXCEPT ![c] = @ + 1]
  BY DEF Store
<1>3. LoadsOK'
  BY ResolveType DEF Store
<1>4. CountersOK' /\ MonitorOK'
  <2>1. IsPartial(reservations', Core, Nat)
    BY NotifyStoreType DEF Store
  <2> QED BY <2>1 DEF Store, counters, CountersOK, MonitorOK
<1>5. CASE Buffering
  <2>1. buffer' = [buffer EXCEPT ![c] = @ \cup {e}] /\ UNCHANGED shared
    BY <1>5 DEF Store
  <2>2. SharedOK'
    BY <2>1 DEF shared, SharedOK
  <2>3. BuffersOK'
    BY <1>1, <1>2, <2>1 DEF BuffersOK
  <2>4. Numbered'
    <3>1. ASSUME NEW d \in Core, NEW f \in buffer'[d] PROVE f.n <= store_count'[d]
      <4>1. CASE f \in buffer[d]
        <5>1. f.n <= store_count[d] /\ f.n \in Nat
          BY <4>1 DEF Numbered, BuffersOK, Entry
        <5> QED BY <1>2, <5>1 DEF BuffersOK
      <4>2. CASE f \notin buffer[d]
        <5>1. d = c /\ f = e
          BY <2>1, <4>2 DEF BuffersOK
        <5> QED BY <1>1, <1>2, <5>1 DEF BuffersOK
      <4> QED BY <4>1, <4>2
    <3> QED BY <3>1 DEF Numbered
  <2>5. ControlOK'
    <3>1. CASE EndCycle
      BY <3>1, EndCycleType
    <3>2. CASE phase' = "spill" /\ UNCHANGED turn
      BY <3>2, CoreAssumption DEF Store, Executing, ControlOK
    <3> QED BY <1>5, <3>1, <3>2 DEF Store
  <2> QED BY <1>3, <1>4, <2>2, <2>3, <2>4, <2>5
<1>6. CASE ~Buffering
  <2>1. CommitStore(c, e, clock) /\ UNCHANGED buffer /\ EndCycle
    BY <1>6 DEF Store
  <2>2. SharedOK'
    BY <1>1, <2>1, CommitType
  <2>3. ControlOK'
    BY <2>1, EndCycleType
  <2>4. BuffersOK' /\ Numbered'
    BY <1>2, <2>1, OneMoreStore
  <2> QED BY <1>3, <1>4, <2>2, <2>3, <2>4
<1> QED
  BY <1>5, <1>6

\* A barrier keeps the type invariant.
LEMMA BarrierType ==
  ASSUME TypeInv, NEW c \in Core, Barrier(c)
  PROVE  TypeInv'
<1>1. LoadsOK'
  BY SynchronizeType DEF Barrier
<1>2. ControlOK'
  BY EndCycleType DEF Barrier
<1>3. SharedOK' /\ CountersOK' /\ BuffersOK' /\ MonitorOK' /\ Numbered'
  BY DEF TypeInv, TypeOK, Barrier, shared, counters, monitor, SharedOK, CountersOK,
         BuffersOK, MonitorOK, Numbered
<1> QED
  BY <1>1, <1>2, <1>3 DEF TypeInv, TypeOK

\* LDAR and LDXR keep the type invariant.
LEMMA LoadExclusiveType ==
  ASSUME TypeInv, NEW c \in Core, NEW a \in Access, NEW r \in Reg \cup {XZR},
         NEW exclusive \in BOOLEAN, LoadExclusive(c, a, r, exclusive)
  PROVE  TypeInv'
<1> USE DEF TypeInv, TypeOK
<1>1. SharedOK' /\ CountersOK' /\ BuffersOK' /\ Numbered'
  BY DEF LoadExclusive, shared, counters, SharedOK, CountersOK, BuffersOK, Numbered
<1>2. ControlOK'
  BY EndCycleType DEF LoadExclusive
<1>3. MonitorOK'
  <2>1. status' \in [Core -> {0, 1}]
    BY DEF LoadExclusive, MonitorOK
  <2>2. IsPartial(reservations', Core, Nat)
    BY BlockType DEF LoadExclusive, MonitorOK, IsPartial
  <2> QED BY <2>1, <2>2 DEF MonitorOK
<1>4. LoadsOK'
  <2>1. sync_time' \in [Core -> Nat]
    BY DEF LoadExclusive, LoadsOK, CountersOK
  <2>2. seen' \in [Core -> SUBSET Nat]
    <3>1. SeenAfterSync(c) \cup (IF Reordering THEN {a.addr} ELSE {}) \subseteq Nat
      BY SettledType, AddressType
    <3> QED BY <3>1 DEF LoadExclusive, LoadsOK
  <2>3. IsPartial([b \in Footprint(a) |-> memory[b]], Byte, Write)
    BY FootprintInByte DEF IsPartial, SharedOK
  <2>4. \A d \in Core, q \in Reg : IsPartial(x'[d][q], Byte, Write)
    BY <2>3, SettledType DEF LoadExclusive, LoadsOK
  <2>5. x' = [d \in Core |-> [q \in Reg |-> x'[d][q]]]
    BY DEF LoadExclusive, LoadsOK
  <2>6. pending_loads' = [d \in Core |-> pending_loads'[d]]
    BY DEF LoadExclusive, LoadsOK
  <2>7. \A d \in Core : IsPartial(pending_loads'[d], Reg, PendingLoad)
    BY DEF LoadExclusive, LoadsOK, IsPartial
  <2> QED BY <2>1, <2>2, <2>4, <2>5, <2>6, <2>7 DEF LoadsOK
<1> QED
  BY <1>1, <1>2, <1>3, <1>4

\* The store half of STLR and STXR, with an empty buffer before and after.
LEMMA StoreThroughType ==
  ASSUME TypeInv, NEW c \in Core, NEW a \in Access, StoreThrough(c, a), UNCHANGED buffer
  PROVE  SharedOK' /\ BuffersOK' /\ Numbered'
<1> DEFINE e == [n |-> store_count[c] + 1, at |-> instruction_count[c], acc |-> a]
<1>1. e.n \in Nat /\ clock \in Nat
  BY DEF TypeInv, TypeOK, BuffersOK, CountersOK
<1>2. SharedOK'
  BY <1>1, CommitType DEF StoreThrough, TypeInv, TypeOK
<1>3. BuffersOK' /\ Numbered'
  BY OneMoreStore DEF StoreThrough
<1> QED
  BY <1>2, <1>3

\* STLR keeps the type invariant.
LEMMA StoreReleaseType ==
  ASSUME TypeInv, NEW c \in Core, NEW a \in Access, StoreRelease(c, a)
  PROVE  TypeInv'
<1>1. SharedOK' /\ BuffersOK' /\ Numbered'
  BY StoreThroughType DEF StoreRelease
<1>2. LoadsOK'
  BY SynchronizeType DEF StoreRelease
<1>3. ControlOK'
  BY EndCycleType DEF StoreRelease
<1>4. CountersOK' /\ MonitorOK'
  BY NotifyStoreType DEF TypeInv, TypeOK, StoreRelease, counters, CountersOK, MonitorOK
<1> QED
  BY <1>1, <1>2, <1>3, <1>4 DEF TypeInv, TypeOK

\* A successful STXR keeps the type invariant.
LEMMA StoreExclusiveType ==
  ASSUME TypeInv, NEW c \in Core, NEW a \in Access, StoreExclusive(c, a)
  PROVE  TypeInv'
<1>1. SharedOK' /\ BuffersOK' /\ Numbered'
  BY StoreThroughType DEF StoreExclusive
<1>2. LoadsOK'
  BY SynchronizeType DEF StoreExclusive
<1>3. ControlOK'
  BY EndCycleType DEF StoreExclusive
<1>4. CountersOK' /\ MonitorOK'
  BY WithoutType DEF TypeInv, TypeOK, StoreExclusive, counters, CountersOK, MonitorOK
<1> QED
  BY <1>1, <1>2, <1>3, <1>4 DEF TypeInv, TypeOK

\* A failed STXR, CLREX and exception entry keep the type invariant.
LEMMA DropReservationType ==
  ASSUME TypeInv, NEW c \in Core,
         \/ \E a \in Access : StoreExclusiveFails(c, a)
         \/ ClearExclusive(c)
         \/ TakeException(c)
  PROVE  TypeInv'
<1> USE DEF TypeInv, TypeOK
<1>1. SharedOK' /\ CountersOK' /\ BuffersOK' /\ Numbered'
  BY DEF StoreExclusiveFails, ClearExclusive, TakeException, shared, counters, SharedOK,
         CountersOK, BuffersOK, Numbered
<1>2. LoadsOK'
  <2>1. CASE SynchronizeReads(c)
    BY <2>1, SynchronizeType
  <2>2. CASE UNCHANGED loads
    BY <2>2 DEF loads, LoadsOK
  <2> QED BY <2>1, <2>2 DEF StoreExclusiveFails, ClearExclusive, TakeException
<1>3. ControlOK'
  BY EndCycleType DEF StoreExclusiveFails, ClearExclusive, TakeException
<1>4. reservations' = Without(reservations, {c})
  BY DEF StoreExclusiveFails, ClearExclusive, TakeException
<1>5. MonitorOK'
  BY <1>4, WithoutType DEF StoreExclusiveFails, ClearExclusive, TakeException, MonitorOK
<1> QED
  BY <1>1, <1>2, <1>3, <1>5

\* A step of Next, by its kind: what every step lemma below splits on.
LEMMA NextCases ==
  ASSUME NEW ACTION Goal,
         \A c \in Core :
           /\ Fetch(c) \/ DrainOne(c) \/ Idle(c) \/ Barrier(c) \/ ClearExclusive(c)
                \/ TakeException(c) => Goal
           /\ \A r \in Reg : ReadRegister(c, r) => Goal
           /\ \A a \in Access :
                /\ Store(c, a) \/ StoreRelease(c, a) => Goal
                /\ StoreExclusive(c, a) \/ StoreExclusiveFails(c, a) => Goal
                /\ \A r \in Reg \cup {XZR} :
                     /\ Load(c, a, r) => Goal
                     /\ \A exclusive \in BOOLEAN : LoadExclusive(c, a, r, exclusive) => Goal
  PROVE  Next => Goal
<1> SUFFICES ASSUME NEW c \in Core,
                    \/ Fetch(c)
                    \/ Silent(c)
                    \/ \E a \in Access, r \in Reg \cup {XZR} :
                         Loading(c, a, r) \/ Reserving(c, a, r)
             PROVE  Goal
  BY Zenon DEF Next
<1>1. CASE Fetch(c)
  BY <1>1
<1>2. CASE Silent(c)
  BY <1>2 DEF Silent, Storing
<1>3. ASSUME NEW a \in Access, NEW r \in Reg \cup {XZR}, Loading(c, a, r)
      PROVE  Goal
  BY <1>3 DEF Loading
<1>4. ASSUME NEW a \in Access, NEW r \in Reg \cup {XZR}, Reserving(c, a, r)
      PROVE  Goal
  BY <1>4 DEF Reserving
<1> QED
  BY <1>1, <1>2, <1>3, <1>4

\* Every step keeps the type invariant.
LEMMA NextType == TypeInv /\ [Next]_vars => TypeInv'
<1> SUFFICES ASSUME TypeInv, [Next]_vars PROVE TypeInv'
  OBVIOUS
<1>1. CASE Next
  <2>1. ASSUME NEW c \in Core, NEW a \in Access,
               Store(c, a) \/ StoreRelease(c, a) \/ StoreExclusive(c, a)
                 \/ StoreExclusiveFails(c, a)
        PROVE  TypeInv'
    BY <2>1, StoreType, StoreReleaseType, StoreExclusiveType, DropReservationType
  <2>2. ASSUME NEW c \in Core, NEW a \in Access, NEW r \in Reg \cup {XZR},
               Load(c, a, r) \/ \E exclusive \in BOOLEAN : LoadExclusive(c, a, r, exclusive)
        PROVE  TypeInv'
    BY <2>2, LoadType, LoadExclusiveType
  <2>3. ASSUME NEW c \in Core,
               \/ Fetch(c) \/ DrainOne(c) \/ Idle(c) \/ Barrier(c) \/ ClearExclusive(c)
               \/ TakeException(c) \/ \E r \in Reg : ReadRegister(c, r)
        PROVE  TypeInv'
    BY <2>3, FetchType, DrainOneType, IdleType, BarrierType, DropReservationType,
       ReadRegisterType
  <2> HIDE DEF TypeInv
  <2> QED BY <1>1, <2>1, <2>2, <2>3, NextCases
<1>2. CASE UNCHANGED vars
  BY <1>2 DEF vars, shared, counters, loads, monitor, control, TypeInv, TypeOK, SharedOK,
     CountersOK, BuffersOK, LoadsOK, MonitorOK, ControlOK, Numbered
<1> QED
  BY <1>1, <1>2

\* In every reachable state every variable has its type, and a core that took the
\* turn is inside its cycle.
THEOREM TypeCorrect == Spec => []TypeOK
<1>1. Spec => []TypeInv
  BY InitType, NextType, PTL DEF Spec
<1>2. TypeInv => TypeOK
  BY DEF TypeInv
<1> QED
  BY <1>1, <1>2, PTL

-----------------------------------------------------------------------------
(* Program order per byte.                                                 *)

\* The writes byte b remembers: those in its log, and the one it holds.
Out(b) == {h.write : h \in history[b]} \cup {memory[b]}

\* No two pending stores of a core have one number.
Unique == \A c \in Core : \A e, f \in buffer[c] : e.n = f.n => e = f

\* No write that is out carries a number its core has not issued.
Published == \A b \in Byte : \A w \in Out(b) : w.core \in Core => w.n <= store_count[w.core]

\* Every pending store is younger than what its core has published in its bytes.
Behind ==
  \A c \in Core : \A e \in buffer[c] : \A b \in Footprint(e.acc) : \A w \in Out(b) :
    w.core = c => w.n < e.n

\* ProgramOrderPerByte is not inductive by itself: the byte a store replaces may
\* enter the log as its baseline, so the byte's present holder has to be ordered
\* too, and the next store has to be numbered beyond everything that is out.
Ordered ==
  /\ Unique
  /\ Published
  /\ Behind
  /\ ~Buffering => \A c \in Core : buffer[c] = {}

\* What is out is a write.
LEMMA OutType ==
  ASSUME TypeInv, NEW b \in Byte
  PROVE  Out(b) \subseteq Write
  BY DEF TypeInv, TypeOK, SharedOK, Out, Record

\* _commit_store adds the store to the bytes it covers and nothing to any other.
LEMMA CommitOut ==
  ASSUME TypeInv, NEW c \in Core, NEW e, NEW now, CommitStore(c, e, now), NEW b \in Byte
  PROVE  /\ b \in Footprint(e.acc) => Out(b)' \subseteq Out(b) \cup {WriteOf(c, e)}
         /\ b \notin Footprint(e.acc) => Out(b)' \subseteq Out(b)
<1> DEFINE w == WriteOf(c, e)
           written == [k \in Byte |-> IF k \in Footprint(e.acc)
                                      THEN Recorded(k, w, now) ELSE history[k]]
<1>1. \A h \in Recorded(b, w, now) : h \in history[b] \/ h.write = memory[b] \/ h.write = w
  BY DEF Recorded
<1>2. history'[b] \subseteq written[b]
  <2>1. history' = [k \in Byte |-> IF now - last_prune > Horizon
                                   THEN Pruned(written[k], now) ELSE written[k]]
    BY Zenon DEF CommitStore
  <2>2. Pruned(written[b], now) \subseteq written[b]
    BY DEF Pruned
  <2> HIDE DEF written
  <2> QED BY <2>1, <2>2
<1>3. memory'[b] = IF b \in Footprint(e.acc) THEN w ELSE memory[b]
  BY DEF CommitStore
<1>4. Out(b)' = {h.write : h \in history'[b]} \cup {memory'[b]}
  BY DEF Out
<1>5. CASE b \in Footprint(e.acc)
  <2>1. \A h \in history'[b] : h \in history[b] \/ h.write = memory[b] \/ h.write = w
    BY <1>1, <1>2, <1>5
  <2>2. Out(b)' \subseteq Out(b) \cup {w}
    <3> HIDE DEF w
    <3> QED BY <1>3, <1>4, <1>5, <2>1 DEF Out
  <2> QED BY <1>5, <2>2
<1>6. CASE b \notin Footprint(e.acc)
  <2>1. history'[b] \subseteq history[b]
    BY <1>2, <1>6
  <2> QED BY <1>3, <1>4, <1>6, <2>1 DEF Out
<1> QED
  BY <1>5, <1>6

\* Two entries that cover a byte overlap.
LEMMA SharedByteOverlaps ==
  ASSUME NEW a \in Access, NEW d \in Access, NEW b \in Footprint(a), b \in Footprint(d)
  PROVE  Overlaps(a, d) /\ Overlaps(d, a)
<1>1. a.addr \in Nat /\ a.size \in Nat /\ d.addr \in Nat /\ d.size \in Nat
  BY AccessAssumption
<1> QED
  BY <1>1 DEF Footprint, Overlaps

\* The store at the head of the drain order is older than every other pending
\* store it shares a byte with.
LEMMA HeadIsOldest ==
  ASSUME TypeInv, Unique, NEW c \in Core, NEW out \in buffer[c], IsNextOut(out, buffer[c]),
         NEW e \in buffer[c], e # out, NEW b \in Footprint(e.acc), b \in Footprint(out.acc)
  PROVE  out.n < e.n
<1>1. out \in Entry /\ e \in Entry
  BY DEF TypeInv, TypeOK, BuffersOK
<1>2. out.n \in Nat /\ e.n \in Nat /\ out.acc \in Access /\ e.acc \in Access
  BY <1>1 DEF Entry
<1>3. out.n # e.n
  BY DEF Unique
<1>4. Overlaps(e.acc, out.acc)
  BY <1>2, SharedByteOverlaps
<1>5. ~(e.n < out.n)
  <2>1. CASE Reordering
    BY <1>4, <2>1 DEF IsNextOut, Unblocked
  <2>2. CASE ~Reordering
    BY <1>2, <2>2 DEF IsNextOut
  <2> QED BY <2>1, <2>2
<1> QED
  BY <1>2, <1>3, <1>5

\* A store leaving the buffer keeps the order.
LEMMA SendOutOrdered ==
  ASSUME TypeInv, Ordered, NEW c \in Core, NEW now, SendOut(c, now), UNCHANGED store_count
  PROVE  Ordered'
<1> USE DEF TypeInv, TypeOK, BuffersOK
<1>1. PICK out \in buffer[c] :
        /\ IsNextOut(out, buffer[c])
        /\ CommitStore(c, out, now)
        /\ buffer' = [buffer EXCEPT ![c] = @ \ {out}]
  BY DEF SendOut
<1>2. \A d \in Core : buffer'[d] \subseteq buffer[d]
  BY <1>1
<1>3. out.n \in Nat /\ out.n <= store_count[c] /\ out.acc \in Access
  BY DEF Entry, Numbered
<1>4. WriteOf(c, out) = [core |-> c, n |-> out.n]
  BY DEF WriteOf
<1>5. \A b \in Byte : Out(b)' \subseteq Out(b) \cup {WriteOf(c, out)}
  BY <1>1, CommitOut
<1>6. Unique'
  BY <1>2 DEF Ordered, Unique
<1>7. Published'
  <2>1. ASSUME NEW b \in Byte, NEW w \in Out(b)', w.core \in Core
        PROVE  w.n <= store_count'[w.core]
    <3>1. CASE w \in Out(b)
      BY <2>1, <3>1 DEF Ordered, Published
    <3>2. CASE w = WriteOf(c, out)
      BY <1>3, <1>4, <3>2
    <3> QED BY <1>5, <3>1, <3>2
  <2> QED BY <2>1 DEF Published
<1>8. Behind'
  <2>1. ASSUME NEW d \in Core, NEW e \in buffer'[d], NEW b \in Footprint(e.acc),
               NEW w \in Out(b)', w.core = d
        PROVE  w.n < e.n
    <3>1. e \in buffer[d] /\ e.acc \in Access /\ b \in Byte
      BY <1>2, FootprintInByte DEF Entry
    <3>2. CASE w \in Out(b)
      BY <2>1, <3>1, <3>2 DEF Ordered, Behind
    <3>3. CASE w \notin Out(b)
      <4>1. b \in Footprint(out.acc)
        BY <1>1, <3>1, <3>3, CommitOut
      <4>2. w = WriteOf(c, out)
        BY <1>5, <3>1, <3>3
      <4>3. d = c /\ e # out
        BY <1>1, <1>4, <2>1, <4>2
      <4>4. out.n < e.n
        BY <1>1, <3>1, <4>1, <4>3, HeadIsOldest DEF Ordered
      <4> QED BY <1>4, <4>2, <4>4
    <3> QED BY <3>2, <3>3
  <2> QED BY <2>1 DEF Behind
<1>9. ~Buffering => \A d \in Core : buffer'[d] = {}
  BY <1>2 DEF Ordered
<1> QED
  BY <1>6, <1>7, <1>8, <1>9 DEF Ordered, Buffering

\* A store that goes straight out of an empty buffer, with the next number, keeps
\* the order.
LEMMA WriteThroughOrdered ==
  ASSUME TypeInv, Ordered, NEW c \in Core, NEW e, NEW now, CommitStore(c, e, now),
         e.n = store_count[c] + 1, store_count' = [store_count EXCEPT ![c] = @ + 1],
         UNCHANGED buffer, buffer[c] = {}
  PROVE  Ordered'
<1> USE DEF TypeInv, TypeOK, BuffersOK
<1>1. WriteOf(c, e) = [core |-> c, n |-> store_count[c] + 1]
  BY DEF WriteOf
<1>2. \A b \in Byte : Out(b)' \subseteq Out(b) \cup {WriteOf(c, e)}
  BY CommitOut
<1>3. Published'
  <2>1. ASSUME NEW b \in Byte, NEW w \in Out(b)', w.core \in Core
        PROVE  w.n <= store_count'[w.core]
    <3>1. CASE w \in Out(b)
      <4>1. w \in Write
        BY <3>1, OutType
      <4>2. w.n <= store_count[w.core]
        BY <2>1, <3>1 DEF Ordered, Published
      <4>3. w.n \in Nat
        BY <4>1 DEF Write
      <4> QED BY <2>1, <4>2, <4>3
    <3>2. CASE w = WriteOf(c, e)
      BY <1>1, <3>2
    <3> QED BY <1>2, <3>1, <3>2
  <2> QED BY <2>1 DEF Published
<1>4. Behind'
  <2>1. ASSUME NEW d \in Core, NEW f \in buffer[d], NEW b \in Footprint(f.acc),
               NEW w \in Out(b)', w.core = d
        PROVE  w.n < f.n
    <3>1. f.acc \in Access /\ b \in Byte
      BY FootprintInByte DEF Entry
    <3>2. w # WriteOf(c, e)
      BY <1>1, <2>1
    <3> QED BY <1>2, <2>1, <3>1, <3>2 DEF Ordered, Behind
  <2> QED BY <2>1 DEF Behind
<1> QED
  BY <1>3, <1>4 DEF Ordered, Unique, Buffering

\* STR keeps the order, buffered or not.
LEMMA StoreOrdered ==
  ASSUME TypeInv, Ordered, NEW c \in Core, NEW a \in Access, Store(c, a)
  PROVE  Ordered'
<1> USE DEF TypeInv, TypeOK, BuffersOK
<1> DEFINE e == [n |-> store_count[c] + 1, at |-> instruction_count[c], acc |-> a]
<1>1. store_count' = [store_count EXCEPT ![c] = @ + 1]
  BY DEF Store
<1>2. CASE ~Buffering
  <2>1. CommitStore(c, e, clock) /\ UNCHANGED buffer /\ buffer[c] = {}
    BY <1>2 DEF Store, Ordered
  <2>2. e.n = store_count[c] + 1
    OBVIOUS
  <2> HIDE DEF e
  <2> QED BY <1>1, <2>1, <2>2, WriteThroughOrdered
<1>3. CASE Buffering
  <2>1. buffer' = [buffer EXCEPT ![c] = @ \cup {e}] /\ UNCHANGED <<memory, history>>
    BY <1>3 DEF Store, shared
  <2>2. \A b : Out(b)' = Out(b)
    BY <2>1 DEF Out
  <2>3. \A f \in buffer[c] : f.n \in Nat /\ f.n < e.n
    BY DEF Numbered, Entry
  <2>4. Unique'
    <3>1. ASSUME NEW d \in Core, NEW f \in buffer'[d], NEW g \in buffer'[d], f.n = g.n
          PROVE  f = g
      <4>1. CASE d = c
        <5>1. f \in buffer[c] \cup {e} /\ g \in buffer[c] \cup {e}
          BY <2>1, <4>1
        <5> HIDE DEF e
        <5> QED BY <2>3, <3>1, <5>1 DEF Ordered, Unique
      <4>2. CASE d # c
        BY <2>1, <3>1, <4>2 DEF Ordered, Unique
      <4> QED BY <4>1, <4>2
    <3> QED BY <3>1 DEF Unique
  <2>5. Published'
    <3>1. ASSUME NEW b \in Byte, NEW w \in Out(b), w.core \in Core
          PROVE  w.n <= store_count'[w.core]
      <4>1. w.n \in Nat /\ w.n <= store_count[w.core]
        BY <3>1, OutType DEF Ordered, Published, Write
      <4> QED BY <1>1, <3>1, <4>1
    <3> QED BY <2>2, <3>1 DEF Published
  <2>6. Behind'
    <3>1. ASSUME NEW d \in Core, NEW f \in buffer'[d], NEW b \in Footprint(f.acc),
                 NEW w \in Out(b), w.core = d
          PROVE  w.n < f.n
      <4>1. CASE f \in buffer[d]
        BY <3>1, <4>1 DEF Ordered, Behind
      <4>2. CASE f \notin buffer[d]
        <5>1. d = c /\ f = e
          BY <2>1, <4>2
        <5>2. b \in Byte
          BY <5>1, FootprintInByte
        <5>3. w.n \in Nat /\ w.n <= store_count[c]
          BY <3>1, <5>1, <5>2, OutType DEF Ordered, Published, Write
        <5> QED BY <5>1, <5>3
      <4> QED BY <4>1, <4>2
    <3> QED BY <2>2, <3>1 DEF Behind
  <2> QED BY <1>3, <2>4, <2>5, <2>6 DEF Ordered, Buffering
<1> QED
  BY <1>2, <1>3

\* The store half of STLR and STXR keeps the order.
LEMMA StoreThroughOrdered ==
  ASSUME TypeInv, Ordered, NEW c \in Core, NEW a \in Access,
         StoreThrough(c, a), UNCHANGED buffer, buffer[c] = {}
  PROVE  Ordered'
<1> DEFINE e == [n |-> store_count[c] + 1, at |-> instruction_count[c], acc |-> a]
<1>1. CommitStore(c, e, clock) /\ store_count' = [store_count EXCEPT ![c] = @ + 1]
  BY DEF StoreThrough
<1>2. e.n = store_count[c] + 1
  OBVIOUS
<1> HIDE DEF e
<1> QED
  BY <1>1, <1>2, WriteThroughOrdered

\* A step that touches no store leaves the order alone.
LEMMA SameOrdered ==
  ASSUME Ordered, UNCHANGED <<memory, history, buffer, store_count>>
  PROVE  Ordered'
  BY DEF Ordered, Unique, Published, Behind, Out, Buffering

\* Every step keeps the order.
LEMMA NextOrdered == TypeInv /\ Ordered /\ [Next]_vars => Ordered'
<1> SUFFICES ASSUME TypeInv, Ordered, [Next]_vars PROVE Ordered'
  OBVIOUS
<1>1. CASE Next
  <2>1. ASSUME NEW c \in Core, Fetch(c) PROVE Ordered'
    <3>1. CASE RetireDue(c, instruction_count[c] + 1)
      BY <2>1, <3>1, SendOutOrdered DEF Fetch
    <3>2. CASE ~RetireDue(c, instruction_count[c] + 1)
      BY <2>1, <3>2, SameOrdered DEF Fetch, shared
    <3> QED BY <3>1, <3>2
  <2>2. ASSUME NEW c \in Core, DrainOne(c) PROVE Ordered'
    BY <2>2, SendOutOrdered DEF DrainOne
  <2>3. ASSUME NEW c \in Core, NEW a \in Access, StoreRelease(c, a) \/ StoreExclusive(c, a)
        PROVE  Ordered'
    BY <2>3, StoreThroughOrdered DEF StoreRelease, StoreExclusive, Synchronising
  <2>4. ASSUME NEW c \in Core, NEW a \in Access, StoreExclusiveFails(c, a)
        PROVE  Ordered'
    BY <2>4, SameOrdered DEF StoreExclusiveFails, shared
  <2>5. ASSUME NEW c \in Core, NEW a \in Access, NEW r \in Reg \cup {XZR},
               Load(c, a, r) \/ \E exclusive \in BOOLEAN : LoadExclusive(c, a, r, exclusive)
        PROVE  Ordered'
    BY <2>5, SameOrdered DEF Load, LoadExclusive, shared
  <2>6. ASSUME NEW c \in Core,
               \/ Idle(c) \/ Barrier(c) \/ ClearExclusive(c) \/ TakeException(c)
               \/ \E r \in Reg : ReadRegister(c, r)
        PROVE  Ordered'
    BY <2>6, SameOrdered DEF Idle, Barrier, ClearExclusive, TakeException, ReadRegister, shared
  <2> HIDE DEF Ordered
  <2> QED
    BY <1>1, <2>1, <2>2, <2>3, <2>4, <2>5, <2>6, StoreOrdered, NextCases
<1>2. CASE UNCHANGED vars
  BY <1>2, SameOrdered DEF vars, shared
<1> QED
  BY <1>1, <1>2

\* The order the stores of a core leave its buffer in never takes a byte
\* backwards, under any memory model, capacity or latency.
THEOREM StoresStayInOrder == Spec => []ProgramOrderPerByte
<1>1. Init => Ordered
  BY CoreAssumption DEF Init, Ordered, Unique, Published, Behind, Out, InitialWrite
<1>2. Spec => [](TypeInv /\ Ordered)
  BY <1>1, InitType, NextType, NextOrdered, PTL DEF Spec
<1>3. TypeInv /\ Ordered => ProgramOrderPerByte
  BY DEF Ordered, Behind, Out, ProgramOrderPerByte
<1> QED
  BY <1>2, <1>3, PTL

-----------------------------------------------------------------------------
(* The sequential model implements SequentialMemory.                       *)

\* The assumption the theorem is made under.
Sequential == Model = "sequential"

\* Nothing waits anywhere: no store is buffered and no load is deferred.
Settled ==
  /\ \A c \in Core : buffer[c] = {}
  /\ \A c \in Core : DOMAIN pending_loads[c] = {}

SeqInv == TypeInv /\ Settled

-----------------------------------------------------------------------------
\* The sequential model neither buffers nor reorders.
LEMMA SequentialModel == Sequential => ~Buffering /\ ~Reordering
  BY DEF Sequential, Buffering, Reordering

\* A load is answered with memory as it is.
LEMMA SequentialMemGet ==
  ASSUME Sequential, SeqInv, NEW c \in Core, NEW a \in Access
  PROVE  MemGet(c, a) = [b \in Footprint(a) |-> memory[b]]
<1>1. ReadTime(c, a) = clock /\ clock \in Nat
  BY SequentialModel DEF ReadTime, SeqInv, TypeInv, TypeOK, CountersOK
<1>2. \A b : Reordered(c, b, ReadTime(c, a)) = memory[b]
  BY <1>1 DEF Reordered
<1>3. \A b : Covering(buffer[c], b) = {}
  BY DEF SeqInv, Settled, Covering
<1> QED
  BY <1>2, <1>3 DEF MemGet

\* Performing deferred loads, or synchronising, has nothing to do.
LEMMA NothingToResolve ==
  ASSUME SeqInv, NEW c \in Core,
         SynchronizeReads(c) \/ \E R : Resolve(c, R)
  PROVE  UNCHANGED x /\ \A d \in Core : DOMAIN pending_loads'[d] = {}
<1> USE DEF SeqInv, Settled, TypeInv, TypeOK, LoadsOK
<1>1. DOMAIN pending_loads[c] = {}
  OBVIOUS
<1>2. [x EXCEPT ![c] = [r \in Reg |-> x[c][r]]] = x
  OBVIOUS
<1>3. CASE SynchronizeReads(c)
  <2>1. \A r \in Reg : SettledBySync(c, r) = x[c][r]
    BY <1>1 DEF SettledBySync
  <2>2. x' = [x EXCEPT ![c] = [r \in Reg |-> x[c][r]]]
    BY <1>3, <2>1 DEF SynchronizeReads
  <2>3. pending_loads' = [pending_loads EXCEPT ![c] = <<>>]
    BY <1>3 DEF SynchronizeReads
  <2> QED BY <1>2, <2>2, <2>3
<1>4. ASSUME NEW R, Resolve(c, R)
      PROVE  UNCHANGED x /\ \A d \in Core : DOMAIN pending_loads'[d] = {}
  <2>1. {r \in R \cap DOMAIN pending_loads[c] : Reloads(c, r)} = {}
    BY <1>1
  <2>2. x' = [x EXCEPT ![c] = [r \in Reg |-> x[c][r]]]
    BY <1>4, <2>1 DEF Resolve
  <2>3. pending_loads' = [pending_loads EXCEPT ![c] = Without(pending_loads[c], R)]
    BY <1>4 DEF Resolve
  <2>4. DOMAIN Without(pending_loads[c], R) = {}
    BY <1>1 DEF Without
  <2> QED BY <1>2, <2>2, <2>3, <2>4
<1> QED
  BY <1>3, <1>4

-----------------------------------------------------------------------------
(* Each step either stutters or is a store or load of the abstract memory. *)

\* What a step of the refinement has to show.
Refines == [SC!Next]_SC!avars /\ Settled'

\* Steps that touch neither memory, registers nor store counts.
LEMMA Stutters ==
  ASSUME UNCHANGED <<memory, x, store_count>>
  PROVE  [SC!Next]_SC!avars
  BY DEF SC!avars

\* A store that goes to memory is the abstract store.
LEMMA CommitRefines ==
  ASSUME NEW c \in Core, NEW a \in Access, NEW at,
         CommitStore(c, [n |-> store_count[c] + 1, at |-> at, acc |-> a], clock),
         store_count' = [store_count EXCEPT ![c] = @ + 1],
         store_count \in [Core -> Nat],
         UNCHANGED x
  PROVE  SC!Next
<1>1. memory' = [b \in Byte |-> IF b \in Footprint(a)
                                THEN [core |-> c, n |-> store_count[c] + 1]
                                ELSE memory[b]]
  BY DEF CommitStore, WriteOf
<1>2. SC!Store(c, Footprint(a))
  BY <1>1 DEF SC!Store
<1> QED
  BY <1>2 DEF SC!Next

\* A load into a register is the abstract load.
LEMMA LoadRefines ==
  ASSUME NEW c \in Core, NEW a \in Access, NEW r \in Reg,
         x' = [x EXCEPT ![c][r] = [b \in Footprint(a) |-> memory[b]]],
         UNCHANGED <<memory, store_count>>
  PROVE  SC!Next
<1>1. SC!Load(c, Footprint(a), r)
  BY DEF SC!Load
<1> QED
  BY <1>1 DEF SC!Next

\* Cycles that begin, drain or do nothing.
LEMMA QuietRefines ==
  ASSUME SeqInv, NEW c \in Core,
         \/ Fetch(c) \/ DrainOne(c) \/ Idle(c) \/ ClearExclusive(c)
         \/ \E r \in Reg : ReadRegister(c, r)
  PROVE  Refines
<1> USE DEF SeqInv, Settled
<1>1. CASE Fetch(c)
  <2>1. ~RetireDue(c, instruction_count[c] + 1)
    BY DEF RetireDue
  <2>2. UNCHANGED <<memory, x, store_count, buffer, pending_loads>>
    BY <1>1, <2>1 DEF Fetch, shared, loads
  <2> QED BY <2>2, Stutters DEF Refines
<1>2. CASE DrainOne(c)
  BY <1>2 DEF DrainOne, SendOut
<1>3. CASE Idle(c) \/ ClearExclusive(c)
  <2>1. UNCHANGED <<memory, x, store_count, buffer, pending_loads>>
    BY <1>3 DEF Idle, ClearExclusive, shared, loads
  <2> QED BY <2>1, Stutters DEF Refines
<1>4. CASE \E r \in Reg : ReadRegister(c, r)
  BY <1>4 DEF ReadRegister
<1> QED
  BY <1>1, <1>2, <1>3, <1>4

\* Synchronising instructions that store nothing.
LEMMA SynchroniseRefines ==
  ASSUME SeqInv, NEW c \in Core,
         \/ Barrier(c) \/ TakeException(c)
         \/ \E a \in Access : StoreExclusiveFails(c, a)
  PROVE  Refines
<1>1. SynchronizeReads(c) /\ UNCHANGED <<memory, store_count, buffer>>
  BY DEF Barrier, TakeException, StoreExclusiveFails, shared
<1>2. UNCHANGED x /\ \A d \in Core : DOMAIN pending_loads'[d] = {}
  BY <1>1, NothingToResolve
<1> QED
  BY <1>1, <1>2, Stutters DEF Refines, SeqInv, Settled

\* Stores.
LEMMA StoreRefines ==
  ASSUME Sequential, SeqInv, NEW c \in Core, NEW a \in Access,
         Store(c, a) \/ StoreRelease(c, a) \/ StoreExclusive(c, a)
  PROVE  Refines
<1> DEFINE e == [n |-> store_count[c] + 1, at |-> instruction_count[c], acc |-> a]
<1>1. /\ CommitStore(c, e, clock)
      /\ store_count' = [store_count EXCEPT ![c] = @ + 1]
      /\ UNCHANGED buffer
  BY SequentialModel DEF Store, StoreRelease, StoreExclusive, StoreThrough
<1>2. UNCHANGED x /\ \A d \in Core : DOMAIN pending_loads'[d] = {}
  <2>1. SynchronizeReads(c) \/ \E R : Resolve(c, R)
    BY DEF Store, StoreRelease, StoreExclusive
  <2> QED BY <2>1, NothingToResolve
<1>3. SC!Next
  <2>1. store_count \in [Core -> Nat]
    BY DEF SeqInv, TypeInv, TypeOK, BuffersOK
  <2> QED BY <1>1, <1>2, <2>1, CommitRefines
<1> QED
  BY <1>1, <1>2, <1>3 DEF Refines, SeqInv, Settled

\* Loads.
LEMMA AnyLoadRefines ==
  ASSUME Sequential, SeqInv, NEW c \in Core, NEW a \in Access, NEW r \in Reg \cup {XZR},
         Load(c, a, r) \/ \E exclusive \in BOOLEAN : LoadExclusive(c, a, r, exclusive)
  PROVE  Refines
<1> USE DEF SeqInv, Settled, TypeInv, TypeOK, LoadsOK
<1> DEFINE answer == [b \in Footprint(a) |-> memory[b]]
<1>1. UNCHANGED <<memory, store_count, buffer>>
  BY DEF Load, LoadExclusive, shared
<1>2. \A d \in Core : DOMAIN pending_loads'[d] = {}
  <2>1. CASE Load(c, a, r)
    <3>1. \/ UNCHANGED pending_loads
          \/ pending_loads' = [pending_loads EXCEPT ![c] = Without(pending_loads[c], {r})]
      BY <2>1, SequentialModel DEF Load
    <3>2. DOMAIN Without(pending_loads[c], {r}) = {}
      BY DEF Without
    <3> QED BY <3>1, <3>2
  <2>2. CASE \E exclusive \in BOOLEAN : LoadExclusive(c, a, r, exclusive)
    BY <2>2 DEF LoadExclusive
  <2> QED BY <2>1, <2>2
<1>3. x' = IF r = XZR THEN x ELSE [x EXCEPT ![c][r] = answer]
  <2>1. CASE Load(c, a, r)
    BY <2>1, SequentialMemGet DEF Load
  <2>2. CASE \E exclusive \in BOOLEAN : LoadExclusive(c, a, r, exclusive)
    <3>1. \A q \in Reg : SettledBySync(c, q) = x[c][q]
      BY DEF SettledBySync
    <3> DEFINE file == [q \in Reg |-> IF q = r THEN answer ELSE x[c][q]]
    <3>2. [q \in Reg |-> IF q = r THEN answer ELSE SettledBySync(c, q)] = file
      BY <3>1
    <3>3. x' = [x EXCEPT ![c] = [q \in Reg |-> IF q = r THEN answer ELSE SettledBySync(c, q)]]
      BY <2>2, Zenon DEF LoadExclusive
    <3>4. x' = [x EXCEPT ![c] = file]
      BY <3>2, <3>3, Zenon
    <3>5. x[c] = [q \in Reg |-> x[c][q]] /\ x = [d \in Core |-> [q \in Reg |-> x[d][q]]]
      OBVIOUS
    <3>6. CASE r = XZR
      <4>1. file = x[c]
        BY <3>5, <3>6, RegAssumption
      <4> QED BY <3>4, <3>5, <3>6, <4>1
    <3>7. CASE r # XZR
      <4>1. file = [x[c] EXCEPT ![r] = answer]
        BY <3>5, <3>7
      <4>2. x' = [x EXCEPT ![c] = [x[c] EXCEPT ![r] = answer]]
        BY <3>4, <4>1
      <4> HIDE DEF answer
      <4> QED BY <3>5, <3>7, <4>2
    <3> QED BY <3>6, <3>7
  <2> QED BY <2>1, <2>2
<1>4. [SC!Next]_SC!avars
  <2>1. CASE r = XZR
    BY <1>1, <1>3, <2>1, Stutters
  <2>2. CASE r # XZR
    BY <1>1, <1>3, <2>2, LoadRefines
  <2> QED BY <2>1, <2>2
<1> QED
  BY <1>1, <1>2, <1>4 DEF Refines

\* Under the sequential model every behaviour is one of a single memory: what the
\* default memory model promises its user.
THEOREM SequentialModelIsSC ==
  ASSUME Sequential
  PROVE  Spec => SequentiallyConsistent
<1>1. Init => SC!Init /\ SeqInv
  <2>1. Init => SC!Init
    BY DEF Init, SC!Init
  <2>2. Init => Settled
    BY DEF Init, Settled
  <2> QED BY <2>1, <2>2, InitType DEF SeqInv
<1>2. SeqInv /\ [Next]_vars => [SC!Next]_SC!avars /\ SeqInv'
  <2> SUFFICES ASSUME SeqInv, [Next]_vars PROVE Refines
    BY NextType DEF Refines, SeqInv
  <2>1. CASE Next
    <3> HIDE DEF Refines
    <3> QED BY <2>1, QuietRefines, SynchroniseRefines, StoreRefines, AnyLoadRefines, NextCases
  <2>2. CASE UNCHANGED vars
    <3>1. UNCHANGED <<memory, x, store_count, buffer, pending_loads>>
      BY <2>2 DEF vars, shared, loads
    <3> QED BY <3>1, Stutters DEF Refines, SeqInv, Settled
  <2> QED BY <2>1, <2>2
<1> QED
  BY <1>1, <1>2, PTL DEF Spec, SequentiallyConsistent, SC!Spec

-----------------------------------------------------------------------------
(* The invariant.                                                          *)

\* The log lies in the past.
PastOnly == \A b \in Byte : \A h \in history[b] : h.time <= clock

\* Memory holds the latest record of a byte, or what it held at first.
LatestHeld ==
  \A b \in Byte :
    \/ history[b] = {} /\ memory[b] = InitialWrite
    \/ \E h \in history[b] : h.write = memory[b] /\ \A g \in history[b] : g.time <= h.time

\* No write is recorded twice for a byte, under two times.
RecordedOnce == \A b \in Byte : \A g, h \in history[b] : g.write = h.write => g = h

\* A core knows when it last wrote a byte.
OwnTimes ==
  \A c \in Core, b \in Byte : \A h \in history[b] :
    h.write.core = c => h.time <= own_write_time[c][b]

\* The log agrees with memory, with the clock and with what the cores know.  No
\* part is inductive alone: a store recorded now is the latest of its byte only
\* because the log lies in the past, and new to it only because it was still in
\* the buffer (Ordered).
Dated == PastOnly /\ LatestHeld /\ RecordedOnce /\ OwnTimes

-----------------------------------------------------------------------------
(* What a store does to the log.                                           *)

\* The records of a byte after a store are those there were, less what is pruned
\* or replaced, the new one and, in an empty log, the byte's first value.
LEMMA CommitRecords ==
  ASSUME NEW c \in Core, NEW e, NEW now, CommitStore(c, e, now), NEW b \in Byte
  PROVE  /\ b \in Footprint(e.acc) =>
              \A h \in history'[b] :
                \/ h \in history[b]
                \/ history[b] = {} /\ h = [time |-> -1, write |-> memory[b]]
                \/ h = [time |-> now, write |-> WriteOf(c, e)]
         /\ b \notin Footprint(e.acc) => history'[b] \subseteq history[b]
<1> DEFINE w == WriteOf(c, e)
           written == [k \in Byte |-> IF k \in Footprint(e.acc)
                                      THEN Recorded(k, w, now) ELSE history[k]]
<1>1. \A h \in Recorded(b, w, now) :
        \/ h \in history[b]
        \/ history[b] = {} /\ h = [time |-> -1, write |-> memory[b]]
        \/ h = [time |-> now, write |-> w]
  BY DEF Recorded
<1>2. history'[b] \subseteq written[b]
  <2>1. history' = [k \in Byte |-> IF now - last_prune > Horizon
                                   THEN Pruned(written[k], now) ELSE written[k]]
    BY Zenon DEF CommitStore
  <2>2. Pruned(written[b], now) \subseteq written[b]
    BY DEF Pruned
  <2> HIDE DEF written
  <2> QED BY <2>1, <2>2
<1>3. written[b] = IF b \in Footprint(e.acc) THEN Recorded(b, w, now) ELSE history[b]
  OBVIOUS
<1> HIDE DEF w, written
<1> QED
  BY <1>1, <1>2, <1>3 DEF w

\* Pruning never takes the latest record of a byte.
LEMMA LatestSurvives ==
  ASSUME TypeInv, NEW c \in Core, NEW e, e.n \in Nat, NEW now \in Nat, CommitStore(c, e, now),
         NEW b \in Byte, \A h \in history[b] : h.time <= now
  PROVE  /\ b \in Footprint(e.acc) =>
              /\ [time |-> now, write |-> WriteOf(c, e)] \in history'[b]
              /\ \A h \in history'[b] : h.time <= now
         /\ b \notin Footprint(e.acc) =>
              \A h \in history[b] : (\A g \in history[b] : g.time <= h.time) => h \in history'[b]
<1> DEFINE w == WriteOf(c, e)
           new == [time |-> now, write |-> w]
           written == [k \in Byte |-> IF k \in Footprint(e.acc)
                                      THEN Recorded(k, w, now) ELSE history[k]]
<1>1. history' = [k \in Byte |-> IF now - last_prune > Horizon
                                 THEN Pruned(written[k], now) ELSE written[k]]
  BY Zenon DEF CommitStore
<1>2. written[b] \subseteq Record
  <2>1. w \in Write
    BY WriteOfType
  <2>2. Recorded(b, w, now) \subseteq Record /\ history[b] \subseteq Record
    BY <2>1, RecordedType DEF TypeInv, TypeOK, SharedOK
  <2> HIDE DEF w
  <2> QED BY <2>2
<1>3. ASSUME NEW h \in written[b], \A g \in written[b] : g.time <= h.time
      PROVE  h \in history'[b]
  <2>1. h \in Pruned(written[b], now)
    <3>1. \A g \in written[b] : g.time \in Int /\ h.time \in Int /\ ~(h.time < g.time)
      BY <1>2, <1>3 DEF Record
    <3> HIDE DEF written
    <3> QED BY <3>1 DEF Pruned
  <2> HIDE DEF written
  <2> QED BY <1>1, <2>1
<1>4. CASE b \in Footprint(e.acc)
  <2>1. written[b] = Recorded(b, w, now)
    BY <1>4
  <2>2. new \in written[b]
    <3> HIDE DEF written, w
    <3> QED BY <2>1 DEF Recorded
  <2>3. \A h \in written[b] : h.time <= now
    <3>1. \A h \in Recorded(b, w, now) :
            h \in history[b] \/ h.time = -1 \/ h.time = now
      BY DEF Recorded
    <3> HIDE DEF written
    <3> QED BY <2>1, <3>1
  <2>4. new \in history'[b]
    <3>1. new.time = now
      OBVIOUS
    <3> HIDE DEF new, written
    <3> QED BY <1>3, <2>2, <2>3, <3>1
  <2>5. history'[b] \subseteq written[b]
    <3>1. Pruned(written[b], now) \subseteq written[b]
      BY DEF Pruned
    <3> HIDE DEF written
    <3> QED BY <1>1, <3>1
  <2> HIDE DEF written
  <2> QED BY <1>4, <2>3, <2>4, <2>5
<1>5. CASE b \notin Footprint(e.acc)
  <2>1. written[b] = history[b]
    BY <1>5
  <2> HIDE DEF written
  <2> QED BY <1>3, <1>5, <2>1
<1> QED
  BY <1>4, <1>5

\* A store that no byte has seen yet keeps the log dated.
LEMMA CommitDated ==
  ASSUME TypeInv, Dated, NEW c \in Core, NEW e, e.n \in Nat, e.acc \in Access,
         NEW now \in Nat, CommitStore(c, e, now), clock <= now, clock' = now,
         \A b \in Footprint(e.acc) : WriteOf(c, e) \notin Out(b)
  PROVE  Dated'
<1> DEFINE w == WriteOf(c, e)
           new == [time |-> now, write |-> w]
           first(b) == [time |-> -1, write |-> memory[b]]
<1> USE DEF TypeInv, TypeOK, SharedOK, CountersOK
<1>1. w.core = c /\ c # NoCore
  BY CoreAssumption DEF WriteOf
<1>2. \A b \in Byte : \A h \in history[b] : h \in Record /\ h.time \in Int /\ h.time <= now
  BY DEF Dated, PastOnly, Record
<1>3. ASSUME NEW b \in Byte, b \in Footprint(e.acc)
      PROVE  \A h \in history'[b] : h \in history[b] \/ (history[b] = {} /\ h = first(b)) \/ h = new
  BY <1>3, CommitRecords
<1>4. ASSUME NEW b \in Byte, b \notin Footprint(e.acc)
      PROVE  history'[b] \subseteq history[b]
  BY <1>4, CommitRecords
<1>5. ASSUME NEW b \in Byte, history[b] = {}
      PROVE  first(b).write = InitialWrite /\ first(b).write.core = NoCore
  BY <1>5 DEF Dated, LatestHeld, InitialWrite
<1>6. PastOnly'
  <2>1. ASSUME NEW b \in Byte, NEW h \in history'[b] PROVE h.time <= now
    BY <1>2, <1>3, <1>4
  <2> QED BY <2>1 DEF PastOnly
<1>7. LatestHeld'
  <2>1. ASSUME NEW b \in Byte, b \in Footprint(e.acc)
        PROVE  \E h \in history'[b] :
                 h.write = memory'[b] /\ \A g \in history'[b] : g.time <= h.time
    <3>1. new \in history'[b] /\ \A h \in history'[b] : h.time <= now
      BY <1>2, <2>1, LatestSurvives
    <3>2. memory'[b] = w
      BY <2>1 DEF CommitStore
    <3> HIDE DEF w
    <3> QED BY <3>1, <3>2
  <2>2. ASSUME NEW b \in Byte, b \notin Footprint(e.acc)
        PROVE  \/ history'[b] = {} /\ memory'[b] = InitialWrite
               \/ \E h \in history'[b] :
                    h.write = memory'[b] /\ \A g \in history'[b] : g.time <= h.time
    <3>1. memory'[b] = memory[b]
      BY <2>2 DEF CommitStore
    <3>2. \A h \in history[b] : (\A g \in history[b] : g.time <= h.time) => h \in history'[b]
      BY <1>2, <2>2, LatestSurvives
    <3>3. history'[b] \subseteq history[b]
      BY <1>4, <2>2
    <3> QED BY <3>1, <3>2, <3>3 DEF Dated, LatestHeld
  <2> QED BY <2>1, <2>2 DEF LatestHeld
<1>8. RecordedOnce'
  <2>1. ASSUME NEW b \in Byte, NEW g \in history'[b], NEW h \in history'[b], g.write = h.write
        PROVE  g = h
    <3>1. CASE b \notin Footprint(e.acc)
      BY <1>4, <2>1, <3>1 DEF Dated, RecordedOnce
    <3>2. CASE b \in Footprint(e.acc)
      <4>1. memory[b] # w /\ \A k \in history[b] : k.write # w
        BY <3>2 DEF Out
      <4>2. first(b).write # w /\ new.write = w
        BY <4>1
      <4>3. /\ g \in history[b] \/ (history[b] = {} /\ g = first(b)) \/ g = new
            /\ h \in history[b] \/ (history[b] = {} /\ h = first(b)) \/ h = new
        BY <1>3, <3>2
      <4> HIDE DEF first, new, w
      <4> QED BY <2>1, <4>1, <4>2, <4>3 DEF Dated, RecordedOnce
    <3> QED BY <3>1, <3>2
  <2> QED BY <2>1 DEF RecordedOnce
<1>9. OwnTimes'
  <2>1. ASSUME NEW d \in Core, NEW b \in Byte, NEW h \in history'[b], h.write.core = d
        PROVE  h.time <= own_write_time'[d][b]
    <3>1. own_write_time'[d][b] = IF d = c /\ b \in Footprint(e.acc) THEN now
                                  ELSE own_write_time[d][b]
      BY DEF CommitStore
    <3>2. CASE h \in history[b]
      <4>1. h.time <= now /\ h.time <= own_write_time[d][b]
        BY <1>2, <2>1, <3>2 DEF Dated, OwnTimes
      <4> QED BY <3>1, <4>1
    <3>3. CASE h \notin history[b]
      <4>1. b \in Footprint(e.acc) /\ ((history[b] = {} /\ h = first(b)) \/ h = new)
        BY <1>3, <1>4, <3>3
      <4>2. d # NoCore
        BY CoreAssumption
      <4>3. h = new
        BY <1>5, <2>1, <4>1, <4>2
      <4>4. h.time = now /\ d = c
        BY <1>1, <2>1, <4>3
      <4> QED BY <3>1, <4>1, <4>4
    <3> QED BY <3>2, <3>3
  <2> QED BY <2>1 DEF OwnTimes
<1> QED
  BY <1>6, <1>7, <1>8, <1>9 DEF Dated

\* A store leaving the buffer keeps the log dated.
LEMMA SendOutDated ==
  ASSUME TypeInv, Ordered, Dated, NEW c \in Core, NEW now \in Nat, SendOut(c, now),
         clock <= now, clock' = now
  PROVE  Dated'
<1>1. PICK out \in buffer[c] : CommitStore(c, out, now)
  BY DEF SendOut
<1>2. out.n \in Nat /\ out.acc \in Access
  BY DEF TypeInv, TypeOK, BuffersOK, Entry
<1>3. \A b \in Footprint(out.acc) : WriteOf(c, out) \notin Out(b)
  <2>1. WriteOf(c, out).core = c /\ WriteOf(c, out).n = out.n
    BY DEF WriteOf
  <2> QED BY <1>2, <2>1 DEF Ordered, Behind
<1> QED
  BY <1>1, <1>2, <1>3, CommitDated

\* So does a store that goes straight out with the next number.
LEMMA WriteThroughDated ==
  ASSUME TypeInv, Ordered, Dated, NEW c \in Core, NEW e, e.acc \in Access,
         CommitStore(c, e, clock), e.n = store_count[c] + 1, UNCHANGED clock
  PROVE  Dated'
<1>1. clock \in Nat /\ e.n \in Nat /\ store_count[c] \in Nat
  BY DEF TypeInv, TypeOK, CountersOK, BuffersOK
<1>2. \A b \in Footprint(e.acc) : WriteOf(c, e) \notin Out(b)
  <2>1. WriteOf(c, e).core = c /\ WriteOf(c, e).n = store_count[c] + 1
    BY DEF WriteOf
  <2> QED BY <1>1, <2>1, FootprintInByte DEF Ordered, Published
<1> QED
  BY <1>1, <1>2, CommitDated

\* The log stays dated when nothing is written, whatever the clock does.
LEMMA SameDated ==
  ASSUME TypeInv, Dated, UNCHANGED shared, clock' \in Nat, clock <= clock'
  PROVE  Dated'
<1>1. PastOnly'
  BY DEF TypeInv, TypeOK, SharedOK, CountersOK, Record, Dated, PastOnly, shared
<1>2. LatestHeld' /\ RecordedOnce' /\ OwnTimes'
  BY DEF Dated, LatestHeld, RecordedOnce, OwnTimes, shared
<1> QED
  BY <1>1, <1>2 DEF Dated

\* Every step keeps the log dated.
LEMMA NextDated == TypeInv /\ Ordered /\ Dated /\ [Next]_vars => Dated'
<1> SUFFICES ASSUME TypeInv, Ordered, Dated, [Next]_vars PROVE Dated'
  OBVIOUS
<1>0. clock \in Nat
  BY DEF TypeInv, TypeOK, CountersOK
<1>1. CASE Next
  <2>1. ASSUME NEW c \in Core, Fetch(c) PROVE Dated'
    <3>1. clock' = clock + 1 /\ clock + 1 \in Nat /\ clock <= clock + 1
      BY <1>0, <2>1 DEF Fetch
    <3>2. CASE RetireDue(c, instruction_count[c] + 1)
      BY <2>1, <3>1, <3>2, SendOutDated DEF Fetch
    <3>3. CASE ~RetireDue(c, instruction_count[c] + 1)
      BY <2>1, <3>1, <3>3, SameDated DEF Fetch
    <3> QED BY <3>2, <3>3
  <2>2. ASSUME NEW c \in Core, DrainOne(c) PROVE Dated'
    BY <1>0, <2>2, SendOutDated DEF DrainOne, counters
  <2>3. ASSUME NEW c \in Core, NEW a \in Access, Store(c, a) PROVE Dated'
    <3> DEFINE e == [n |-> store_count[c] + 1, at |-> instruction_count[c], acc |-> a]
    <3>1. UNCHANGED clock /\ e.acc = a /\ e.n = store_count[c] + 1
      BY <2>3 DEF Store, counters
    <3>2. CASE Buffering
      BY <1>0, <2>3, <3>1, <3>2, SameDated DEF Store
    <3>3. CASE ~Buffering
      <4>1. CommitStore(c, e, clock)
        BY <2>3, <3>3 DEF Store
      <4> HIDE DEF e
      <4> QED BY <3>1, <4>1, WriteThroughDated
    <3> QED BY <3>2, <3>3
  <2>4. ASSUME NEW c \in Core, NEW a \in Access, StoreRelease(c, a) \/ StoreExclusive(c, a)
        PROVE  Dated'
    <3> DEFINE e == [n |-> store_count[c] + 1, at |-> instruction_count[c], acc |-> a]
    <3>1. UNCHANGED clock /\ CommitStore(c, e, clock) /\ e.acc = a /\ e.n = store_count[c] + 1
      BY <2>4 DEF StoreRelease, StoreExclusive, StoreThrough, counters
    <3> HIDE DEF e
    <3> QED BY <3>1, WriteThroughDated
  <2>5. ASSUME NEW c \in Core, NEW a \in Access, StoreExclusiveFails(c, a)
        PROVE  Dated'
    BY <1>0, <2>5, SameDated DEF StoreExclusiveFails, counters
  <2>6. ASSUME NEW c \in Core, NEW a \in Access, NEW r \in Reg \cup {XZR},
               Load(c, a, r) \/ \E exclusive \in BOOLEAN : LoadExclusive(c, a, r, exclusive)
        PROVE  Dated'
    BY <1>0, <2>6, SameDated DEF Load, LoadExclusive, counters
  <2>7. ASSUME NEW c \in Core,
               \/ Idle(c) \/ Barrier(c) \/ ClearExclusive(c) \/ TakeException(c)
               \/ \E r \in Reg : ReadRegister(c, r)
        PROVE  Dated'
    <3>1. UNCHANGED <<shared, counters>>
      BY <2>7 DEF Idle, Barrier, ClearExclusive, TakeException, ReadRegister
    <3> QED BY <1>0, <3>1, SameDated DEF counters
  <2> HIDE DEF Dated
  <2> QED
    BY <1>1, <2>1, <2>2, <2>3, <2>4, <2>5, <2>6, <2>7, NextCases
<1>2. CASE UNCHANGED vars
  BY <1>0, <1>2, SameDated DEF vars, counters
<1> QED
  BY <1>1, <1>2

\* So the log is dated in every reachable state.
LEMMA AlwaysDated == Spec => [](TypeInv /\ Ordered /\ Dated)
<1>1. Init => Ordered
  BY CoreAssumption DEF Init, Ordered, Unique, Published, Behind, Out, InitialWrite
<1>2. Init => Dated
  BY DEF Init, Dated, PastOnly, LatestHeld, RecordedOnce, OwnTimes
<1> QED
  BY <1>1, <1>2, InitType, NextType, NextOrdered, NextDated, PTL DEF Spec

-----------------------------------------------------------------------------
(* What a load may be answered with.                                       *)

\* A load that is forwarded gets the core's newest pending store to the byte.
LEMMA ForwardsNewest ==
  ASSUME TypeInv, NEW c \in Core, NEW b, Covering(buffer[c], b) # {}
  PROVE  Forward(c, b).core = c /\ \A e \in Covering(buffer[c], b) : e.n <= Forward(c, b).n
<1>1. Covering(buffer[c], b) \subseteq Entry
  BY DEF Covering, TypeInv, TypeOK, BuffersOK
<1>2. \A e \in Covering(buffer[c], b) : e.n <= store_count[c]
  BY DEF Covering, TypeInv, Numbered
<1>3. store_count[c] \in Nat
  BY DEF TypeInv, TypeOK, BuffersOK
<1>4. \A e \in Covering(buffer[c], b) : e.n <= Newest(Covering(buffer[c], b)).n
  BY <1>1, <1>2, <1>3, NewestExists
<1> QED
  BY <1>4 DEF Forward, WriteOf

\* Any other load gets the byte as memory has it, or the latest record that is not
\* after the time it reads at; and that time is the core's last barrier.
LEMMA AnswersFrom ==
  ASSUME TypeInv, NEW c \in Core, NEW a \in Access, NEW b \in Footprint(a),
         Covering(buffer[c], b) = {}
  PROVE  \/ MemGet(c, a)[b] = memory[b]
         \/ /\ own_write_time[c][b] <= sync_time[c]
            /\ \E l \in history[b] :
                 /\ MemGet(c, a)[b] = l.write
                 /\ l.time <= sync_time[c]
                 /\ \A h \in history[b] : h.time <= sync_time[c] => h.time <= l.time
<1> DEFINE when == ReadTime(c, a)
           past == {h \in history[b] : h.time <= when}
           l == CHOOSE h \in past : \A g \in past : g.time <= h.time
<1>1. MemGet(c, a)[b] = Reordered(c, b, when)
  BY DEF MemGet
<1>2. CASE when >= clock \/ own_write_time[c][b] > when \/ past = {}
  <2>1. Reordered(c, b, when) = memory[b]
    BY <1>2 DEF Reordered, AsOf
  <2> QED BY <1>1, <2>1
<1>3. CASE ~(when >= clock) /\ ~(own_write_time[c][b] > when) /\ past # {}
  <2>1. b \in Byte
    BY FootprintInByte
  <2>2. when = sync_time[c] /\ when \in Int
    <3>1. clock \in Int /\ sync_time[c] \in Int
      BY DEF TypeInv, TypeOK, CountersOK, LoadsOK
    <3>2. when = clock \/ when = sync_time[c]
      BY DEF ReadTime
    <3> HIDE DEF when
    <3> QED BY <1>3, <3>1, <3>2
  <2>3. past \subseteq Record /\ \A h \in past : h.time <= when
    BY <2>1 DEF TypeInv, TypeOK, SharedOK
  <2>4. l \in past /\ \A g \in past : g.time <= l.time
    <3> HIDE DEF past, when
    <3> QED BY <1>3, <2>2, <2>3, LatestExists
  <2>5. Reordered(c, b, when) = l.write
    BY <1>3 DEF Reordered, AsOf
  <2>6. own_write_time[c][b] <= when
    <3>1. own_write_time[c][b] \in Int
      BY <2>1 DEF TypeInv, TypeOK, SharedOK
    <3> HIDE DEF when, past
    <3> QED BY <1>3, <2>2, <3>1
  <2>7. l \in history[b] /\ l.time <= when /\ \A h \in history[b] : h.time <= when => h.time <= l.time
    <3> HIDE DEF l
    <3> QED BY <2>4
  <2> HIDE DEF l, when, past
  <2> QED BY <1>1, <2>2, <2>5, <2>6, <2>7
<1> QED
  BY <1>2, <1>3

\* A core never sees its own stores go backwards, whatever the reorderer and the
\* store buffer do to its loads (_apply_load_reordering's overlay and forward).
THEOREM OwnStoresAreVisible == Spec => []OwnStoresVisible
<1>1. TypeInv /\ Dated => OwnStoresVisible
  <2> SUFFICES ASSUME TypeInv, Dated, NEW c \in Core, NEW a \in Access, NEW b \in Footprint(a)
               PROVE  LET w == MemGet(c, a)[b]
                          pending == Covering(buffer[c], b)
                      IN  IF pending # {} THEN \A e \in pending : w.core = c /\ e.n <= w.n
                          ELSE \A h \in history[b] : h.write.core = c =>
                                 \E g \in history[b] : g.write = w /\ h.time <= g.time
    BY Zenon DEF OwnStoresVisible
  <2>0. b \in Byte
    BY FootprintInByte
  <2>1. CASE Covering(buffer[c], b) # {}
    <3>1. MemGet(c, a)[b] = Forward(c, b)
      BY <2>1 DEF MemGet
    <3> QED BY <2>1, <3>1, ForwardsNewest
  <2>2. ASSUME Covering(buffer[c], b) = {}, NEW h \in history[b], h.write.core = c
        PROVE  \E g \in history[b] : g.write = MemGet(c, a)[b] /\ h.time <= g.time
    <3>1. CASE MemGet(c, a)[b] = memory[b]
      BY <2>0, <2>2, <3>1 DEF Dated, LatestHeld
    <3>2. CASE /\ own_write_time[c][b] <= sync_time[c]
               /\ \E l \in history[b] :
                    /\ MemGet(c, a)[b] = l.write
                    /\ l.time <= sync_time[c]
                    /\ \A k \in history[b] : k.time <= sync_time[c] => k.time <= l.time
      <4>1. h.time <= own_write_time[c][b]
        BY <2>0, <2>2 DEF Dated, OwnTimes
      <4>2. h.time \in Int /\ own_write_time[c][b] \in Int /\ sync_time[c] \in Int
        BY <2>0 DEF TypeInv, TypeOK, SharedOK, LoadsOK, Record
      <4>3. h.time <= sync_time[c]
        BY <3>2, <4>1, <4>2
      <4> QED BY <3>2, <4>3
    <3> QED BY <2>2, <3>1, <3>2, AnswersFrom
  <2> QED BY <2>1, <2>2
<1> QED
  BY <1>1, AlwaysDated, PTL

\* No load returns another core's write that had been replaced before the loading
\* core last synchronised (LoadReorderer.read_time looks no further back).
THEOREM BarriersBoundLoads == Spec => []NothingOlderThanSync
<1>1. TypeInv /\ Dated => NothingOlderThanSync
  <2> SUFFICES ASSUME TypeInv, Dated, NEW c \in Core, NEW a \in Access, NEW b \in Footprint(a),
                      MemGet(c, a)[b].core # c,
                      NEW g \in history[b], NEW h \in history[b],
                      g.write = MemGet(c, a)[b], g.time < h.time, h.time <= sync_time[c]
               PROVE  FALSE
    BY DEF NothingOlderThanSync
  <2>1. b \in Byte
    BY FootprintInByte
  <2>2. Covering(buffer[c], b) = {}
    <3>1. SUFFICES ASSUME Covering(buffer[c], b) # {} PROVE FALSE
      OBVIOUS
    <3>2. MemGet(c, a)[b] = Forward(c, b)
      BY <3>1 DEF MemGet
    <3> QED BY <3>1, <3>2, ForwardsNewest
  <2>3. PICK l \in history[b] : /\ l.write = MemGet(c, a)[b]
                               /\ h.time <= l.time
    <3>1. CASE MemGet(c, a)[b] = memory[b]
      BY <2>1, <3>1 DEF Dated, LatestHeld
    <3> QED BY <2>2, <3>1, AnswersFrom
  <2>4. l = g
    BY <2>1, <2>3 DEF Dated, RecordedOnce
  <2>5. g.time \in Int /\ h.time \in Int
    BY <2>1 DEF TypeInv, TypeOK, SharedOK, Record
  <2> QED BY <2>3, <2>4, <2>5
<1> QED
  BY <1>1, AlwaysDated, PTL

-----------------------------------------------------------------------------
(* Deferred loads.                                                         *)

\* A load can only be pending when loads are being reordered, and the reorderer
\* has then seen its address.
PendingSeen ==
  \A c \in Core : \A r \in DOMAIN pending_loads[c] :
    Reordering /\ pending_loads[c][r].acc.addr \in seen[c]

\* Performing some loads leaves the others pending and what was seen, seen.
LEMMA ResolveSeen ==
  ASSUME TypeInv, PendingSeen, NEW c \in Core, NEW R, Resolve(c, R)
  PROVE  PendingSeen'
<1>1. ASSUME NEW d \in Core, NEW r \in DOMAIN pending_loads'[d]
      PROVE  /\ r \in DOMAIN pending_loads[d] /\ pending_loads'[d][r] = pending_loads[d][r]
             /\ seen[d] \subseteq seen'[d]
  BY DEF Resolve, Without, TypeInv, TypeOK, LoadsOK
<1> QED
  BY <1>1 DEF PendingSeen, Reordering

\* Every step keeps the addresses of pending loads seen.
LEMMA NextSeen == TypeInv /\ PendingSeen /\ [Next]_vars => PendingSeen'
<1> SUFFICES ASSUME TypeInv, PendingSeen, [Next]_vars PROVE PendingSeen'
  OBVIOUS
<1> USE DEF TypeInv, TypeOK, LoadsOK
<1>1. ASSUME UNCHANGED loads PROVE PendingSeen'
  BY <1>1 DEF PendingSeen, Reordering, loads
<1>2. ASSUME NEW c \in Core, seen' = [seen EXCEPT ![c] = seen'[c]],
             pending_loads' = [pending_loads EXCEPT ![c] = <<>>]
      PROVE  PendingSeen'
  BY <1>2 DEF PendingSeen, Reordering
<1>3. CASE Next
  <2>1. ASSUME NEW c \in Core, NEW a \in Access, NEW r \in Reg \cup {XZR}, Load(c, a, r)
        PROVE  PendingSeen'
    <3>1. ASSUME NEW d \in Core, NEW q \in DOMAIN pending_loads'[d]
          PROVE  /\ Reordering
                 /\ \/ pending_loads'[d][q].acc.addr \in seen[d]
                    \/ d = c /\ pending_loads'[d][q].acc = a
      <4>1. CASE r = XZR
        BY <2>1, <3>1, <4>1 DEF Load, PendingSeen
      <4>2. CASE r # XZR /\ Reordering
        BY <2>1, <3>1, <4>2 DEF Load, PendingSeen
      <4>3. CASE r # XZR /\ ~Reordering
        BY <2>1, <3>1, <4>3 DEF Load, PendingSeen, Without
      <4> QED BY <4>1, <4>2, <4>3
    <3>2. seen' = [seen EXCEPT ![c] = IF Reordering THEN @ \cup {a.addr} ELSE @]
      BY <2>1 DEF Load
    <3> QED BY <3>1, <3>2 DEF PendingSeen, Reordering
  <2>2. ASSUME NEW c \in Core, NEW a \in Access, NEW r \in Reg \cup {XZR},
               NEW exclusive \in BOOLEAN, LoadExclusive(c, a, r, exclusive)
        PROVE  PendingSeen'
    BY <1>2, <2>2 DEF LoadExclusive
  <2>3. ASSUME NEW c \in Core, SynchronizeReads(c) PROVE PendingSeen'
    BY <1>2, <2>3 DEF SynchronizeReads
  <2>4. ASSUME NEW c \in Core, NEW a \in Access, Store(c, a) PROVE PendingSeen'
    BY <2>4, ResolveSeen DEF Store
  <2>5. ASSUME NEW c \in Core, NEW r \in Reg, ReadRegister(c, r) PROVE PendingSeen'
    BY <2>5, ResolveSeen DEF ReadRegister
  <2>6. ASSUME NEW c \in Core, NEW a \in Access,
               StoreRelease(c, a) \/ StoreExclusive(c, a) \/ StoreExclusiveFails(c, a)
        PROVE  PendingSeen'
    BY <2>3, <2>6 DEF StoreRelease, StoreExclusive, StoreExclusiveFails
  <2>7. ASSUME NEW c \in Core,
               Fetch(c) \/ DrainOne(c) \/ Idle(c) \/ Barrier(c) \/ ClearExclusive(c)
                 \/ TakeException(c)
        PROVE  PendingSeen'
    <3>1. UNCHANGED loads \/ SynchronizeReads(c)
      BY <2>7 DEF Fetch, DrainOne, Idle, Barrier, ClearExclusive, TakeException
    <3> QED BY <1>1, <2>3, <3>1
  <2> HIDE DEF PendingSeen
  <2> QED BY <1>3, <2>1, <2>2, <2>4, <2>5, <2>6, <2>7, NextCases
<1>4. CASE UNCHANGED vars
  BY <1>1, <1>4 DEF vars
<1> QED
  BY <1>3, <1>4

\* A deferred load that is performed reads memory as it is then, never the past
\* that its first reading may have come from (note_deferred_load).
THEOREM DeferredLoadsAreCurrent == Spec => []DeferredLoadsReadNow
<1>1. Init => PendingSeen
  BY DEF Init, PendingSeen
<1>2. Spec => [](TypeInv /\ PendingSeen)
  BY <1>1, InitType, NextType, NextSeen, PTL DEF Spec
<1>3. TypeInv /\ PendingSeen => DeferredLoadsReadNow
  BY DEF PendingSeen, DeferredLoadsReadNow, ReadTime
<1> QED
  BY <1>2, <1>3, PTL

-----------------------------------------------------------------------------
(* Reservations.                                                           *)

\* Times of reservations are times.
ReservedType == reserved_at \in [Core -> Nat]

\* ReservationFresh for one core's reservation of one block.
Fresh(c, block, since) ==
  \A b \in Byte : Block(b) = block =>
    \A h \in history[b] : h.write.core = c \/ h.time <= since

\* What is observed is a behaviour of MemorySystem.
LEMMA ObservedStep == [ONext]_ovars => [Next]_vars
<1> SUFFICES ASSUME [ONext]_ovars PROVE [Next]_vars
  OBVIOUS
<1>1. CASE ONext
  BY <1>1, Zenon DEF ONext, Next
<1>2. CASE UNCHANGED ovars
  BY <1>2 DEF ovars
<1> QED
  BY <1>1, <1>2

\* So what MemorySystem keeps, MemoryOrder keeps.
LEMMA ObservedDated == OSpec => [](TypeInv /\ Ordered /\ Dated)
<1>1. OInit => Init
  BY DEF OInit
<1>2. OSpec => Spec
  BY <1>1, ObservedStep, PTL DEF OSpec, Spec
<1> QED
  BY <1>2, AlwaysDated, PTL

\* A step that writes no memory and takes no reservation keeps reservations fresh.
LEMMA QuietFresh ==
  ASSUME TypeInv, ReservationFresh, UNCHANGED <<history, reserved_at>>,
         \A o \in DOMAIN reservations' :
           o \in DOMAIN reservations /\ reservations'[o] = reservations[o]
  PROVE  ReservationFresh'
  BY DEF ReservationFresh

\* The block of a byte lies between the blocks of the ends of any access to it.
LEMMA BlockBetween ==
  ASSUME NEW a \in Access, NEW b \in Footprint(a)
  PROVE  Block(a.addr) <= Block(b) /\ Block(b) <= Block(a.addr + a.size - 1)
<1>1. a.addr \in Nat /\ a.size \in Nat /\ a.addr <= b /\ b <= a.addr + a.size - 1 /\ b \in Nat
  BY AccessAssumption DEF Footprint
<1>2. ASSUME NEW i \in Nat, NEW j \in Nat, i <= j PROVE i \div Granule <= j \div Granule
  BY <1>2, BoundAssumption
<1> QED
  BY <1>1, <1>2 DEF Block

\* A store breaks every other core's reservation of the blocks it touches, so the
\* reservations that are left are as fresh as before.
LEMMA StoreFresh ==
  ASSUME TypeInv, ReservedType, ReservationFresh, NEW c \in Core, NEW a \in Access, NEW e,
         e.acc = a, CommitStore(c, e, clock), UNCHANGED reserved_at,
         \A o \in DOMAIN reservations' :
           /\ o \in DOMAIN reservations \ Broken(c, a)
           /\ reservations'[o] = reservations[o]
  PROVE  ReservationFresh'
<1> SUFFICES ASSUME NEW o \in DOMAIN reservations', NEW b \in Byte,
                    Block(b) = reservations'[o], NEW h \in history'[b]
             PROVE  h.write.core = o \/ h.time <= reserved_at[o]
  BY Zenon DEF ReservationFresh, Block
<1>1. o \in Core /\ reserved_at[o] \in Nat
  BY DEF TypeInv, TypeOK, MonitorOK, IsPartial, ReservedType
<1>2. CASE h \in history[b]
  BY <1>2 DEF ReservationFresh
<1>3. CASE h \notin history[b]
  <2>1. b \in Footprint(a)
    BY <1>3, CommitRecords
  <2>2. o = c
    BY <2>1, BlockBetween DEF Broken
  <2>3. h.time = -1 \/ h.write.core = c
    BY <1>3, <2>1, CommitRecords DEF WriteOf
  <2> QED BY <1>1, <2>2, <2>3
<1> QED
  BY <1>2, <1>3

\* LDXR takes a reservation that nothing in the log is later than.
LEMMA ReserveFresh ==
  ASSUME TypeInv, Dated, ReservedType, ReservationFresh, NEW c \in Core, NEW a \in Access,
         NEW r \in Reg \cup {XZR}, LoadExclusive(c, a, r, TRUE),
         reserved_at' = [reserved_at EXCEPT ![c] = clock]
  PROVE  ReservationFresh'
<1>1. UNCHANGED history
  BY DEF LoadExclusive, shared
<1>2. ASSUME NEW o \in DOMAIN reservations'
      PROVE  \/ o = c /\ reserved_at'[o] = clock
             \/ /\ o \in DOMAIN reservations /\ reservations'[o] = reservations[o]
                /\ reserved_at'[o] = reserved_at[o]
  BY DEF LoadExclusive, TypeInv, TypeOK, MonitorOK, IsPartial, ReservedType
<1> QED
  BY <1>1, <1>2 DEF ReservationFresh, Dated, PastOnly, Block

\* Without a store buffer every step keeps reservations fresh.
LEMMA NextFresh ==
  ASSUME ~Buffering, TypeInv, Ordered, Dated, ReservedType, ReservationFresh, [ONext]_ovars
  PROVE  ReservedType' /\ ReservationFresh'
<1>1. ReservedType'
  BY DEF ONext, ovars, ReservedType, TypeInv, TypeOK, CountersOK
<1>2. CASE UNCHANGED ovars
  BY <1>1, <1>2, QuietFresh DEF ovars, vars, shared, monitor
<1>3. CASE ONext
  <2>1. \A c \in Core : buffer[c] = {}
    BY DEF Ordered
  <2>2. ASSUME NEW c \in Core, NEW a \in Access, NEW r \in Reg \cup {XZR}, Reserving(c, a, r),
               reserved_at' = [reserved_at EXCEPT ![c] = clock]
        PROVE  ReservationFresh'
    BY <2>2, ReserveFresh DEF Reserving
  <2>3. ASSUME NEW c \in Core, NEW a \in Access, NEW r \in Reg \cup {XZR}, Loading(c, a, r),
               UNCHANGED reserved_at
        PROVE  ReservationFresh'
    <3>1. UNCHANGED <<history, reservations>>
      BY <2>3 DEF Loading, Load, LoadExclusive, shared, monitor
    <3> QED BY <2>3, <3>1, QuietFresh
  <2>4. ASSUME NEW c \in Core, Fetch(c), UNCHANGED reserved_at PROVE ReservationFresh'
    <3>1. UNCHANGED <<history, reservations>>
      BY <2>1, <2>4 DEF Fetch, RetireDue, shared, monitor
    <3> QED BY <2>4, <3>1, QuietFresh
  <2>5. ASSUME NEW c \in Core, NEW a \in Access, Store(c, a), UNCHANGED reserved_at
        PROVE  ReservationFresh'
    <3> DEFINE e == [n |-> store_count[c] + 1, at |-> instruction_count[c], acc |-> a]
    <3>1. CommitStore(c, e, clock) /\ e.acc = a
      BY <2>5 DEF Store
    <3>2. reservations' = Without(reservations, Broken(c, a))
      BY <2>5 DEF Store, NotifyStore
    <3> HIDE DEF e
    <3> QED BY <2>5, <3>1, <3>2, StoreFresh DEF Without
  <2>6. ASSUME NEW c \in Core, NEW a \in Access, StoreRelease(c, a) \/ StoreExclusive(c, a),
               UNCHANGED reserved_at
        PROVE  ReservationFresh'
    <3> DEFINE e == [n |-> store_count[c] + 1, at |-> instruction_count[c], acc |-> a]
    <3>1. CommitStore(c, e, clock) /\ e.acc = a
      BY <2>6 DEF StoreRelease, StoreExclusive, StoreThrough
    <3>2. PICK D : Broken(c, a) \subseteq D /\ reservations' = Without(reservations, D)
      BY <2>6 DEF StoreRelease, StoreExclusive, NotifyStore
    <3> HIDE DEF e
    <3> QED BY <2>6, <3>1, <3>2, StoreFresh DEF Without
  <2>7. ASSUME NEW c \in Core, NEW a \in Access, StoreExclusiveFails(c, a), UNCHANGED reserved_at
        PROVE  ReservationFresh'
    BY <2>7, QuietFresh DEF StoreExclusiveFails, Without, shared
  <2>8. ASSUME NEW c \in Core, UNCHANGED reserved_at,
               \/ Idle(c) \/ Barrier(c) \/ ClearExclusive(c) \/ TakeException(c)
               \/ \E r \in Reg : ReadRegister(c, r)
        PROVE  ReservationFresh'
    <3>1. UNCHANGED history
      BY <2>8 DEF Idle, Barrier, ClearExclusive, TakeException, ReadRegister, shared
    <3>2. UNCHANGED reservations \/ reservations' = Without(reservations, {c})
      BY <2>8 DEF Idle, Barrier, ClearExclusive, TakeException, ReadRegister, monitor
    <3> QED BY <2>8, <3>1, <3>2, QuietFresh DEF Without
  <2>9. ASSUME NEW c \in Core, DrainOne(c) PROVE FALSE
    BY <2>1, <2>9 DEF DrainOne, SendOut
  <2>10. ASSUME NEW c \in Core, Silent(c), UNCHANGED reserved_at PROVE ReservationFresh'
    <3> HIDE DEF ReservationFresh
    <3> QED BY <2>5, <2>6, <2>7, <2>8, <2>9, <2>10, Zenon DEF Silent, Storing
  <2> HIDE DEF ReservationFresh
  <2> QED BY <1>1, <1>3, <2>2, <2>3, <2>4, <2>10, Zenon DEF ONext
<1> QED
  BY <1>1, <1>2, <1>3

\* When stores go straight to memory, an STXR that finds its reservation standing is
\* atomic with its LDXR: nobody else has written the block in between.  (With a store
\* buffer it need not be: notify_store comes when the store issues, and the store
\* lands later.)
THEOREM ReservationsStayFresh ==
  ASSUME Model = "sequential"
  PROVE  OSpec => []ReservationFresh
<1>0. ~Buffering
  BY DEF Buffering
<1>1. OInit => ReservedType /\ ReservationFresh
  BY DEF OInit, Init, ReservedType, ReservationFresh
<1>2. TypeInv /\ Ordered /\ Dated /\ ReservedType /\ ReservationFresh /\ [ONext]_ovars
        => ReservedType' /\ ReservationFresh'
  BY <1>0, NextFresh
<1> QED
  BY <1>1, <1>2, ObservedDated, PTL DEF OSpec

-----------------------------------------------------------------------------
(* Coherence of reads, when loads are not reordered.                       *)

\* A store to b has reached memory; a core still has one in its buffer.
Held(b) == memory[b] # InitialWrite
Waiting(c, b) == Covering(buffer[c], b) # {}

\* What core c finds at b now, and the stores to b it has still to send out.
Sees(c, b) == IF Waiting(c, b) THEN Forward(c, b) ELSE memory[b]
Pending(c, b, w) == \E e \in Covering(buffer[c], b) : w = WriteOf(c, e)

\* A write of b that core c can have been answered with: one that has been issued, and
\* published if another core issued it.
Known(c, b, w) ==
  /\ w \in Write
  /\ w.core \in Core => w.n <= store_count[w.core]
  /\ w.core \in Core \ {c} => ~Pending(w.core, b, w)
  /\ w # InitialWrite => Held(b) \/ Waiting(c, b)

\* Core c was answered with w, then with v, and v will not turn out the older: it is not
\* so in the log, and while w waits in the buffer v waits behind it.
InTurn(c, b, w, v) ==
  /\ v = InitialWrite => w = InitialWrite
  /\ Pending(c, b, w) => Pending(c, b, v) /\ w.n <= v.n
  /\ ~ \E g, h \in history[b] : g.write = v /\ h.write = w /\ g.time < h.time

\* Register r of core c holds w for byte b.
Loaded(c, r, b, w) == b \in DOMAIN x[c][r] /\ x[c][r][b] = w

\* What the registers hold is known, and in the order it was loaded.
RegistersKnown ==
  \A c \in Core, r \in Reg, b \in Byte, w \in Write : Loaded(c, r, b, w) => Known(c, b, w)

RegistersInTurn ==
  \A c \in Core, q, r \in Reg, b \in Byte, w, v \in Write :
    Loaded(c, q, b, w) /\ Loaded(c, r, b, v) /\ loaded_at[c][q] < loaded_at[c][r]
      => InTurn(c, b, w, v)

\* A register was loaded in an instruction already begun.
LoadedPast ==
  /\ loaded_at \in [Core -> [Reg -> Nat]]
  /\ \A c \in Core, r \in Reg : loaded_at[c][r] <= instruction_count[c]

\* CoherentReads looks at the log, which does not yet hold what waits in the buffers.
ReadInv == LoadedPast /\ RegistersKnown /\ RegistersInTurn

-----------------------------------------------------------------------------
(* What a step does to one byte.                                           *)

\* A store is never the initial write.
LEMMA StoreIsNew ==
  ASSUME NEW c \in Core, NEW e
  PROVE  WriteOf(c, e) # InitialWrite
  BY CoreAssumption DEF WriteOf, InitialWrite

\* The byte stays, in memory and in the buffers; core c issues a store to it into its
\* buffer; a store of core c, its oldest or its next, reaches memory.
ByteStays(b) ==
  /\ memory'[b] = memory[b]
  /\ history'[b] \subseteq history[b]
  /\ \A d \in Core : Covering(buffer'[d], b) = Covering(buffer[d], b)

ByteIssued(c, e, b) ==
  /\ memory'[b] = memory[b]
  /\ history'[b] \subseteq history[b]
  /\ \A d \in Core : Covering(buffer'[d], b) =
                       Covering(buffer[d], b) \cup (IF d = c THEN {e} ELSE {})
  /\ e.n = store_count[c] + 1

ByteWritten(c, e, b) ==
  /\ memory'[b] = WriteOf(c, e)
  /\ \A h \in history'[b] :
       \/ h \in history[b]
       \/ history[b] = {} /\ h.time = -1 /\ h.write = memory[b]
       \/ h.write = WriteOf(c, e) /\ clock <= h.time
  /\ \A d \in Core : Covering(buffer'[d], b) =
                       Covering(buffer[d], b) \ (IF d = c THEN {e} ELSE {})
  /\ \/ /\ e \in Covering(buffer[c], b)
        /\ \A f \in Covering(buffer[c], b) \ {e} : e.n < f.n
     \/ e.n = store_count[c] + 1 /\ Covering(buffer[c], b) = {}

ByteStep(b) ==
  \/ ByteStays(b)
  \/ \E c \in Core : \E e : e.n \in Nat /\ (ByteIssued(c, e, b) \/ ByteWritten(c, e, b))

\* A store leaves the buffer.
LEMMA SendOutByte ==
  ASSUME TypeInv, Ordered, NEW c \in Core, NEW now \in Nat, clock <= now, SendOut(c, now),
         NEW b \in Byte
  PROVE  ByteStep(b)
<1>1. PICK out \in buffer[c] : /\ IsNextOut(out, buffer[c])
                              /\ CommitStore(c, out, now)
                              /\ buffer' = [buffer EXCEPT ![c] = @ \ {out}]
  BY DEF SendOut
<1>2. out.n \in Nat /\ buffer \in [Core -> SUBSET Entry]
  BY DEF TypeInv, TypeOK, BuffersOK, Entry
<1>3. \A d \in Core : Covering(buffer'[d], b) =
                        Covering(buffer[d], b) \ (IF d = c THEN {out} ELSE {})
  BY <1>1, <1>2 DEF Covering
<1>4. CASE b \in Footprint(out.acc)
  <2>1. memory'[b] = WriteOf(c, out)
    BY <1>1, <1>4 DEF CommitStore
  <2>2. \A h \in history'[b] :
          \/ h \in history[b]
          \/ history[b] = {} /\ h.time = -1 /\ h.write = memory[b]
          \/ h.write = WriteOf(c, out) /\ clock <= h.time
    BY <1>1, <1>4, CommitRecords
  <2>3. out \in Covering(buffer[c], b)
    BY <1>4 DEF Covering
  <2>4. \A f \in Covering(buffer[c], b) \ {out} : out.n < f.n
    BY <1>1, <1>4, HeadIsOldest DEF Covering, Ordered
  <2> QED BY <1>2, <1>3, <2>1, <2>2, <2>3, <2>4 DEF ByteStep, ByteWritten
<1>5. CASE b \notin Footprint(out.acc)
  <2>1. memory'[b] = memory[b]
    BY <1>1, <1>5 DEF CommitStore
  <2>2. history'[b] \subseteq history[b]
    BY <1>1, <1>5, CommitRecords
  <2>3. out \notin Covering(buffer[c], b)
    BY <1>5 DEF Covering
  <2> QED BY <1>3, <2>1, <2>2, <2>3 DEF ByteStep, ByteStays
<1> QED
  BY <1>4, <1>5

\* A store goes straight to memory, past an empty buffer.
LEMMA WriteThroughByte ==
  ASSUME TypeInv, NEW c \in Core, NEW e, e.n = store_count[c] + 1, CommitStore(c, e, clock),
         UNCHANGED buffer, buffer[c] = {}, NEW b \in Byte
  PROVE  ByteStep(b)
<1>0. e.n \in Nat /\ clock \in Nat
  BY DEF TypeInv, TypeOK, BuffersOK, CountersOK
<1>1. Covering(buffer[c], b) = {}
  BY DEF Covering
<1>2. \A d \in Core : Covering(buffer'[d], b) =
                        Covering(buffer[d], b) \ (IF d = c THEN {e} ELSE {})
  BY <1>1
<1>3. CASE b \in Footprint(e.acc)
  <2>1. memory'[b] = WriteOf(c, e)
    BY <1>3 DEF CommitStore
  <2>2. \A h \in history'[b] :
          \/ h \in history[b]
          \/ history[b] = {} /\ h.time = -1 /\ h.write = memory[b]
          \/ h.write = WriteOf(c, e) /\ clock <= h.time
    BY <1>0, <1>3, CommitRecords
  <2> QED BY <1>0, <1>1, <1>2, <2>1, <2>2 DEF ByteStep, ByteWritten
<1>4. CASE b \notin Footprint(e.acc)
  <2>1. memory'[b] = memory[b] /\ history'[b] \subseteq history[b]
    BY <1>4, CommitRecords DEF CommitStore
  <2> QED BY <2>1 DEF ByteStep, ByteStays
<1> QED
  BY <1>3, <1>4

\* STR.
LEMMA StoreByte ==
  ASSUME TypeInv, Ordered, NEW c \in Core, NEW a \in Access, Store(c, a), NEW b \in Byte
  PROVE  ByteStep(b)
<1> DEFINE e == [n |-> store_count[c] + 1, at |-> instruction_count[c], acc |-> a]
<1>1. /\ e.n = store_count[c] + 1 /\ e.n \in Nat /\ e.acc = a
      /\ buffer \in [Core -> SUBSET Entry]
  BY DEF TypeInv, TypeOK, BuffersOK
<1>2. IF Buffering THEN buffer' = [buffer EXCEPT ![c] = @ \cup {e}] /\ UNCHANGED shared
      ELSE CommitStore(c, e, clock) /\ UNCHANGED buffer
  BY DEF Store
<1> HIDE DEF e
<1>3. CASE Buffering
  <2>1. memory'[b] = memory[b] /\ history'[b] \subseteq history[b]
    BY <1>2, <1>3 DEF shared
  <2>2. \A d \in Core : buffer'[d] = buffer[d] \cup (IF d = c THEN {e} ELSE {})
    BY <1>1, <1>2, <1>3
  <2>3. CASE b \in Footprint(a)
    <3>1. \A d \in Core : Covering(buffer'[d], b) =
                            Covering(buffer[d], b) \cup (IF d = c THEN {e} ELSE {})
      BY <1>1, <2>2, <2>3 DEF Covering
    <3> QED BY <1>1, <2>1, <3>1 DEF ByteStep, ByteIssued
  <2>4. CASE b \notin Footprint(a)
    <3>1. \A d \in Core : Covering(buffer'[d], b) = Covering(buffer[d], b)
      BY <1>1, <2>2, <2>4 DEF Covering
    <3> QED BY <2>1, <3>1 DEF ByteStep, ByteStays
  <2> QED BY <2>3, <2>4
<1>4. CASE ~Buffering
  <2>1. buffer[c] = {}
    BY <1>4 DEF Ordered
  <2> QED BY <1>1, <1>2, <1>4, <2>1, WriteThroughByte
<1> QED
  BY <1>3, <1>4

\* Any step.
LEMMA NextByte ==
  ASSUME TypeInv, Ordered, [Next]_vars, NEW b \in Byte
  PROVE  ByteStep(b)
<1>1. ASSUME UNCHANGED <<memory, history, buffer>> PROVE ByteStep(b)
  BY <1>1 DEF ByteStep, ByteStays
<1>2. clock \in Nat /\ clock + 1 \in Nat /\ clock <= clock + 1
  BY DEF TypeInv, TypeOK, CountersOK
<1>3. CASE Next
  <2>1. ASSUME NEW c \in Core, Fetch(c) PROVE ByteStep(b)
    <3>1. CASE RetireDue(c, instruction_count[c] + 1)
      BY <1>2, <2>1, <3>1, SendOutByte DEF Fetch
    <3>2. CASE ~RetireDue(c, instruction_count[c] + 1)
      BY <1>1, <2>1, <3>2 DEF Fetch, shared
    <3> QED BY <3>1, <3>2
  <2>2. ASSUME NEW c \in Core, DrainOne(c) PROVE ByteStep(b)
    BY <1>2, <2>2, SendOutByte DEF DrainOne
  <2>3. ASSUME NEW c \in Core, NEW a \in Access, StoreRelease(c, a) \/ StoreExclusive(c, a)
        PROVE  ByteStep(b)
    <3> DEFINE e == [n |-> store_count[c] + 1, at |-> instruction_count[c], acc |-> a]
    <3>1. CommitStore(c, e, clock) /\ e.n = store_count[c] + 1
      BY <2>3 DEF StoreRelease, StoreExclusive, StoreThrough
    <3>2. UNCHANGED buffer /\ buffer[c] = {}
      BY <2>3 DEF StoreRelease, StoreExclusive, Synchronising
    <3> HIDE DEF e
    <3> QED BY <3>1, <3>2, WriteThroughByte
  <2>4. ASSUME NEW c \in Core, NEW a \in Access, StoreExclusiveFails(c, a)
        PROVE  ByteStep(b)
    BY <1>1, <2>4 DEF StoreExclusiveFails, shared
  <2>5. ASSUME NEW c \in Core, NEW a \in Access, NEW r \in Reg \cup {XZR},
               Load(c, a, r) \/ \E exclusive \in BOOLEAN : LoadExclusive(c, a, r, exclusive)
        PROVE  ByteStep(b)
    BY <1>1, <2>5 DEF Load, LoadExclusive, shared
  <2>6. ASSUME NEW c \in Core,
               \/ Idle(c) \/ Barrier(c) \/ ClearExclusive(c) \/ TakeException(c)
               \/ \E r \in Reg : ReadRegister(c, r)
        PROVE  ByteStep(b)
    BY <1>1, <2>6 DEF Idle, Barrier, ClearExclusive, TakeException, ReadRegister, shared
  <2> HIDE DEF ByteStep
  <2> QED BY <1>3, <2>1, <2>2, <2>3, <2>4, <2>5, <2>6, StoreByte, NextCases
<1>4. CASE UNCHANGED vars
  BY <1>1, <1>4 DEF vars, shared
<1> QED
  BY <1>3, <1>4

\* Stores are never uncounted.
LEMMA NextCounts ==
  ASSUME TypeInv, [Next]_vars, NEW d \in Core
  PROVE  store_count[d] <= store_count'[d]
<1>0. store_count[d] \in Nat /\ DOMAIN store_count = Core /\ \A c \in Core : store_count[c] \in Nat
  BY DEF TypeInv, TypeOK, BuffersOK
<1>1. ASSUME UNCHANGED store_count PROVE store_count[d] <= store_count'[d]
  BY <1>0, <1>1
<1>2. ASSUME NEW c \in Core, store_count' = [store_count EXCEPT ![c] = @ + 1]
      PROVE  store_count[d] <= store_count'[d]
  BY <1>0, <1>2
<1>3. CASE Next
  <2>1. ASSUME NEW c \in Core, NEW a \in Access,
               Store(c, a) \/ StoreRelease(c, a) \/ StoreExclusive(c, a)
        PROVE  store_count[d] <= store_count'[d]
    BY <1>2, <2>1 DEF Store, StoreRelease, StoreExclusive, StoreThrough
  <2>2. ASSUME NEW c \in Core, NEW a \in Access, StoreExclusiveFails(c, a)
        PROVE  store_count[d] <= store_count'[d]
    BY <1>1, <2>2 DEF StoreExclusiveFails
  <2>3. ASSUME NEW c \in Core, NEW a \in Access, NEW r \in Reg \cup {XZR},
               Load(c, a, r) \/ \E exclusive \in BOOLEAN : LoadExclusive(c, a, r, exclusive)
        PROVE  store_count[d] <= store_count'[d]
    BY <1>1, <2>3 DEF Load, LoadExclusive
  <2>4. ASSUME NEW c \in Core,
               \/ Fetch(c) \/ DrainOne(c) \/ Idle(c) \/ Barrier(c) \/ ClearExclusive(c)
               \/ TakeException(c) \/ \E r \in Reg : ReadRegister(c, r)
        PROVE  store_count[d] <= store_count'[d]
    BY <1>1, <2>4 DEF Fetch, DrainOne, Idle, Barrier, ClearExclusive, TakeException, ReadRegister
  <2> QED BY <1>3, <2>1, <2>2, <2>3, <2>4, NextCases
<1>4. CASE UNCHANGED vars
  BY <1>1, <1>4 DEF vars
<1> QED
  BY <1>3, <1>4

\* What has been counted and what is known stays so.
LEMMA ByteKnown ==
  ASSUME TypeInv, Ordered, [Next]_vars, NEW b \in Byte, NEW c \in Core, NEW w, Known(c, b, w)
  PROVE  Known(c, b, w)'
<1>1. w \in Write /\ w.n \in Nat /\ \A d \in Core : store_count[d] \in Nat /\ store_count'[d] \in Nat
  BY NextType DEF Known, Write, TypeInv, TypeOK, BuffersOK
<1>2. ByteStep(b) /\ \A d \in Core : store_count[d] <= store_count'[d]
  BY NextByte, NextCounts
<1>3. w.core \in Core => w.n <= store_count'[w.core]
  <2> SUFFICES ASSUME w.core \in Core PROVE w.n <= store_count'[w.core]
    OBVIOUS
  <2>1. PICK d \in Core : d = w.core
    OBVIOUS
  <2> QED BY <1>1, <1>2, <2>1 DEF Known
<1>4. w.core \in Core \ {c} => ~Pending(w.core, b, w)'
  <2> SUFFICES ASSUME NEW d \in Core \ {c}, w.core = d, Pending(d, b, w)' PROVE FALSE
    OBVIOUS
  <2>1. PICK f \in Covering(buffer'[d], b) : w = WriteOf(d, f)
    BY DEF Pending
  <2>2. f \notin Covering(buffer[d], b)
    BY <2>1 DEF Known, Pending
  <2>3. PICK o \in Core : \E e : ByteIssued(o, e, b)
    BY <1>2, <2>1, <2>2 DEF ByteStep, ByteStays, ByteWritten
  <2>4. ByteIssued(d, f, b)
    BY <2>1, <2>2, <2>3 DEF ByteIssued
  <2>5. w.n = store_count[d] + 1
    BY <2>1, <2>4 DEF ByteIssued, WriteOf
  <2> QED BY <1>1, <2>5 DEF Known
<1>5. w # InitialWrite => (Held(b) \/ Waiting(c, b))'
  <2>1. CASE ByteStays(b)
    BY <2>1 DEF ByteStays, Known, Held, Waiting
  <2>2. ASSUME NEW o \in Core, NEW e, ByteIssued(o, e, b) PROVE w # InitialWrite => (Held(b) \/ Waiting(c, b))'
    BY <2>2 DEF ByteIssued, Known, Held, Waiting
  <2>3. ASSUME NEW o \in Core, NEW e, ByteWritten(o, e, b) PROVE Held(b)'
    BY <2>3, StoreIsNew DEF ByteWritten, Held
  <2> QED BY <1>2, <2>1, <2>2, <2>3 DEF ByteStep
<1> QED
  BY <1>1, <1>3, <1>4, <1>5 DEF Known

\* Loads that were in turn stay in turn.
LEMMA ByteInTurn ==
  ASSUME TypeInv, Ordered, Dated, [Next]_vars, NEW b \in Byte, NEW c \in Core, NEW w, NEW v,
         Known(c, b, w), Known(c, b, v), InTurn(c, b, w, v)
  PROVE  InTurn(c, b, w, v)'
<1>1. /\ w.n \in Nat /\ v.n \in Nat /\ store_count[c] \in Nat /\ clock \in Int
      /\ \A h \in history[b] : h.time \in Int /\ h.time <= clock
      /\ \A d \in Core : \A f \in Covering(buffer[d], b) : f \in buffer[d] /\ f.n \in Nat /\ b \in Footprint(f.acc)
  BY DEF Known, Write, TypeInv, TypeOK, BuffersOK, CountersOK, SharedOK, Record, Entry, Covering,
     Dated, PastOnly
<1>2. /\ v = InitialWrite => w = InitialWrite
      /\ Pending(c, b, w) => Pending(c, b, v) /\ w.n <= v.n
      /\ \A g, h \in history[b] : g.write = v /\ h.write = w => ~(g.time < h.time)
  BY DEF InTurn
<1>3. CASE ByteStays(b)
  BY <1>2, <1>3 DEF ByteStays, InTurn, Pending
<1>4. ASSUME NEW o \in Core, NEW e, ByteIssued(o, e, b) PROVE InTurn(c, b, w, v)'
  <2>1. Pending(c, b, w)' => Pending(c, b, w)
    <3> SUFFICES ASSUME NEW f \in Covering(buffer'[c], b), w = WriteOf(c, f) PROVE Pending(c, b, w)
      BY DEF Pending
    <3>1. f.n # store_count[c] + 1
      BY <1>1 DEF Known, WriteOf
    <3> QED BY <1>4, <3>1 DEF ByteIssued, Pending
  <2>2. Pending(c, b, v) => Pending(c, b, v)'
    BY <1>4 DEF ByteIssued, Pending
  <2> QED BY <1>2, <1>4, <2>1, <2>2 DEF ByteIssued, InTurn
<1>5. ASSUME NEW o \in Core, NEW e, ByteWritten(o, e, b) PROVE InTurn(c, b, w, v)'
  <2> DEFINE u == WriteOf(o, e)
  <2>0. u # InitialWrite /\ u.core = o /\ u.n = e.n
    BY StoreIsNew DEF WriteOf
  \* A register holds the store that lands only if it was this core's own pending one.
  <2>1. ASSUME NEW k, Known(c, b, k), k = u PROVE o = c /\ Pending(c, b, k)
    <3>1. e.n # store_count[o] + 1
      BY <1>1, <2>0, <2>1 DEF Known, Write, TypeInv, TypeOK, BuffersOK
    <3>2. Pending(o, b, k)
      BY <1>5, <2>1, <3>1 DEF ByteWritten, Pending
    <3> QED BY <2>0, <2>1, <3>2 DEF Known
  <2>2. Pending(c, b, w)' => Pending(c, b, v)' /\ w.n <= v.n
    <3> SUFFICES ASSUME NEW f \in Covering(buffer'[c], b), w = WriteOf(c, f)
                 PROVE  Pending(c, b, v)' /\ w.n <= v.n
      BY DEF Pending
    <3>1. f \in Covering(buffer[c], b) /\ Pending(c, b, w)
      BY <1>5 DEF ByteWritten, Pending
    <3>2. PICK k \in Covering(buffer[c], b) : v = WriteOf(c, k)
      BY <1>2, <3>1 DEF Pending
    <3>3. f.n <= k.n
      BY <1>2, <3>1, <3>2 DEF WriteOf
    <3>4. ASSUME o = c, k = e PROVE FALSE
      <4>1. f # e
        BY <1>5, <3>4 DEF ByteWritten
      <4>2. e.n < f.n
        BY <1>5, <3>1, <3>2, <3>4, <4>1 DEF ByteWritten
      <4> QED BY <1>1, <3>1, <3>2, <3>3, <3>4, <4>2
    <3>5. k \in Covering(buffer'[c], b)
      BY <1>5, <3>2, <3>4 DEF ByteWritten
    <3> QED BY <1>2, <3>1, <3>2, <3>5 DEF Pending
  <2>3. ASSUME NEW g \in history'[b], NEW h \in history'[b], g.write = v, h.write = w, g.time < h.time
        PROVE  FALSE
    <3>0. /\ \A k \in history'[b] :
               \/ k \in history[b]
               \/ history[b] = {} /\ k.time = -1 /\ k.write = InitialWrite
               \/ k.write = u /\ clock <= k.time
          /\ g.time \in Int /\ h.time \in Int /\ 0 <= clock
      <4>1. history[b] = {} => memory[b] = InitialWrite
        BY DEF Dated, LatestHeld
      <4>2. g.time \in Int /\ h.time \in Int
        BY NextType DEF TypeInv, TypeOK, SharedOK, Record
      <4>3. 0 <= clock
        BY DEF TypeInv, TypeOK, CountersOK
      <4> QED BY <1>5, <4>1, <4>2, <4>3 DEF ByteWritten
    <3>1. CASE w = u
      <4>1. PICK f \in Covering(buffer[c], b) : v = WriteOf(c, f)
        BY <1>2, <2>1, <3>1 DEF Pending
      <4>2. v \notin Out(b)
        BY <1>1, <4>1 DEF Ordered, Behind, WriteOf
      <4>3. v # InitialWrite
        BY <4>1, StoreIsNew
      <4>4. v = u
        BY <2>3, <3>0, <4>2, <4>3 DEF Out
      <4>5. g = h
        BY <2>3, <3>1, <4>4, NextDated DEF Dated, RecordedOnce
      <4> QED BY <2>3, <3>0, <4>5
    <3>2. CASE w # u
      <4> HIDE DEF u
      <4>1. CASE g \in history[b]
        BY <1>2, <2>3, <3>0, <3>2, <4>1
      <4>2. CASE g.write = u /\ clock <= g.time
        BY <1>1, <2>3, <3>0, <3>2, <4>2
      <4>3. CASE history[b] = {} /\ g.time = -1 /\ g.write = InitialWrite
        BY <1>2, <2>0, <2>3, <3>0, <3>2, <4>3
      <4> QED BY <3>0, <4>1, <4>2, <4>3
    <3> QED BY <3>1, <3>2
  <2> QED BY <1>2, <2>2, <2>3 DEF InTurn
<1> QED
  BY <1>3, <1>4, <1>5, NextByte DEF ByteStep

\* What a core finds at a byte now is known, and in turn behind all it was answered with.
LEMMA SeesLast ==
  ASSUME TypeInv, Ordered, Dated, NEW c \in Core, NEW b \in Byte
  PROVE  /\ Known(c, b, Sees(c, b))
         /\ \A w : Known(c, b, w) => InTurn(c, b, w, Sees(c, b))
<1>0. /\ \A d \in Core : \A f \in Covering(buffer[d], b) :
             f \in buffer[d] /\ f.n \in Nat /\ f.n <= store_count[d] /\ b \in Footprint(f.acc)
      /\ \A h \in history[b] : h.time \in Int
      /\ memory[b] \in Write /\ memory[b] \in Out(b)
  BY DEF TypeInv, TypeOK, BuffersOK, SharedOK, Record, Entry, Covering, Numbered, Out
<1>1. CASE Waiting(c, b)
  <2>1. PICK s \in Covering(buffer[c], b) :
          Sees(c, b) = WriteOf(c, s) /\ \A f \in Covering(buffer[c], b) : f.n <= s.n
    <3> DEFINE S == Covering(buffer[c], b)
    <3>1. S \subseteq Entry /\ S # {} /\ store_count[c] \in Nat
      BY <1>1 DEF TypeInv, TypeOK, BuffersOK, Covering, Waiting
    <3>2. \A f \in S : f.n <= store_count[c]
      BY <1>0
    <3> HIDE DEF S
    <3>3. Newest(S) \in S /\ \A f \in S : f.n <= Newest(S).n
      BY <3>1, <3>2, NewestExists
    <3> QED BY <1>1, <3>3 DEF S, Sees, Forward
  <2>2. PICK v : v = Sees(c, b)
    OBVIOUS
  <2>3. v.core = c /\ v.n = s.n /\ v # InitialWrite /\ v \notin Out(b) /\ Pending(c, b, v)
    <3>1. \A k \in Out(b) : k.core = c => k.n < s.n
      BY <1>0 DEF Ordered, Behind
    <3> QED BY <1>0, <2>1, <2>2, <3>1, StoreIsNew DEF WriteOf, Pending
  <2>4. Known(c, b, v)
    BY <1>0, <1>1, <2>1, <2>2, <2>3, WriteOfType DEF Known
  <2>5. ASSUME NEW w, Known(c, b, w) PROVE InTurn(c, b, w, v)
    <3>1. Pending(c, b, w) => w.n <= v.n
      BY <2>1, <2>3 DEF Pending, WriteOf
    <3>2. \A g \in history[b] : g.write # v
      BY <2>3 DEF Out
    <3> QED BY <2>3, <3>1, <3>2 DEF InTurn
  <2> QED BY <2>2, <2>4, <2>5
<1>2. CASE ~Waiting(c, b)
  <2>1. PICK v : v = Sees(c, b) /\ v = memory[b]
    BY <1>2 DEF Sees
  <2>2. Known(c, b, v)
    <3>1. ASSUME NEW d \in Core, v.core = d PROVE ~Pending(d, b, v) /\ v.n <= store_count[d]
      <4>1. \A f \in Covering(buffer[d], b) : v.n < f.n
        BY <1>0, <2>1, <3>1 DEF Ordered, Behind
      <4>2. v.n <= store_count[d]
        BY <1>0, <2>1, <3>1 DEF Ordered, Published
      <4>3. v.n \in Nat /\ \A f \in Covering(buffer[d], b) : v # WriteOf(d, f)
        BY <1>0, <2>1, <4>1 DEF WriteOf, Write
      <4> QED BY <4>2, <4>3 DEF Pending
    <3> QED BY <1>0, <2>1, <3>1 DEF Known, Held
  <2>3. ASSUME NEW w, Known(c, b, w) PROVE InTurn(c, b, w, v)
    <3>1. ~Pending(c, b, w)
      BY <1>2 DEF Pending, Waiting
    <3>2. v = InitialWrite => w = InitialWrite
      BY <1>2, <2>1, <2>3 DEF Known, Held
    <3>3. ASSUME NEW g \in history[b], NEW h \in history[b], g.write = v, g.time < h.time PROVE FALSE
      <4>1. PICK l \in history[b] : l.write = memory[b] /\ \A k \in history[b] : k.time <= l.time
        BY <3>3 DEF Dated, LatestHeld
      <4>2. g = l
        BY <2>1, <3>3, <4>1 DEF Dated, RecordedOnce
      <4> QED BY <1>0, <3>3, <4>1, <4>2
    <3> QED BY <3>1, <3>2, <3>3 DEF InTurn
  <2> QED BY <2>1, <2>2, <2>3
<1> QED
  BY <1>1, <1>2

\* Without the reorderer a load is answered with what the core sees.
LEMMA LoadSees ==
  ASSUME ~Reordering, TypeInv, NEW c \in Core, NEW a \in Access, NEW b \in Footprint(a)
  PROVE  MemGet(c, a)[b] = Sees(c, b)
<1>1. ReadTime(c, a) = clock /\ clock \in Nat
  BY DEF ReadTime, TypeInv, TypeOK, CountersOK
<1>2. Reordered(c, b, ReadTime(c, a)) = memory[b]
  BY <1>1 DEF Reordered
<1> QED
  BY <1>2 DEF MemGet, Sees, Waiting

\* What an observed step does to the registers when nothing is deferred: nothing, or one
\* register takes what the core sees and the time it does so.
Takes(c, r) ==
  /\ \A d \in Core, q \in Reg : ~(d = c /\ q = r) => x'[d][q] = x[d][q] /\ loaded_at'[d][q] = loaded_at[d][q]
  /\ \A b \in DOMAIN x'[c][r] : b \in Byte /\ x'[c][r][b] = Sees(c, b)
  /\ loaded_at'[c][r] = instruction_count[c]

RegistersStay ==
  \A d \in Core, q \in Reg : x'[d][q] = x[d][q] /\ loaded_at'[d][q] = loaded_at[d][q]

\* Settling deferred loads when there is none.
LEMMA NothingDeferred ==
  ASSUME TypeInv, NEW c \in Core, DOMAIN pending_loads[c] = {},
         SynchronizeReads(c) \/ \E R : Resolve(c, R)
  PROVE  \A d \in Core, q \in Reg : x'[d][q] = x[d][q]
<1>0. DOMAIN x = Core /\ \A d \in Core : DOMAIN x[d] = Reg
  BY DEF TypeInv, TypeOK, LoadsOK
<1>1. CASE SynchronizeReads(c)
  <2>1. \A r \in Reg : SettledBySync(c, r) = x[c][r]
    BY DEF SettledBySync
  <2>2. x' = [x EXCEPT ![c] = [r \in Reg |-> SettledBySync(c, r)]]
    BY <1>1 DEF SynchronizeReads
  <2> QED BY <1>0, <2>1, <2>2
<1>2. ASSUME NEW R, Resolve(c, R) PROVE \A d \in Core, q \in Reg : x'[d][q] = x[d][q]
  <2>1. {r \in R \cap DOMAIN pending_loads[c] : Reloads(c, r)} = {}
    OBVIOUS
  <2>2. x' = [x EXCEPT ![c] = [r \in Reg |-> x[c][r]]]
    BY <1>2, <2>1 DEF Resolve
  <2> QED BY <1>0, <2>2
<1> QED
  BY <1>1, <1>2

\* A step and the registers.
LEMMA RegisterStep ==
  ASSUME ~Reordering, TypeInv, LoadedPast, PendingSeen, ONext
  PROVE  RegistersStay \/ \E c \in Core, r \in Reg : Takes(c, r)
<1>0. /\ \A c \in Core : DOMAIN pending_loads[c] = {}
      /\ DOMAIN x = Core /\ \A c \in Core : DOMAIN x[c] = Reg
      /\ loaded_at \in [Core -> [Reg -> Nat]]
  BY DEF PendingSeen, TypeInv, TypeOK, LoadsOK, LoadedPast
<1>1. ASSUME NEW c \in Core, Fetch(c) \/ Silent(c), UNCHANGED loaded_at
      PROVE  RegistersStay
  <2>1. UNCHANGED x \/ SynchronizeReads(c) \/ \E R : Resolve(c, R)
    <3>1. CASE Fetch(c)
      BY <3>1 DEF Fetch, loads
    <3>2. CASE Silent(c)
      BY <3>2 DEF Silent, DrainOne, Idle, ReadRegister, Storing, Store, StoreRelease,
         StoreExclusive, StoreExclusiveFails, Barrier, ClearExclusive, TakeException, loads
    <3> QED BY <1>1, <3>1, <3>2
  <2> QED BY <1>0, <1>1, <2>1, NothingDeferred DEF RegistersStay
<1>2. ASSUME NEW c \in Core, NEW a \in Access, NEW r \in Reg \cup {XZR}, Load(c, a, r), Loads(c, r)
      PROVE  RegistersStay \/ \E q \in Reg : Takes(c, q)
  <2>1. CASE r = XZR
    BY <1>2, <2>1 DEF Load, Loads, RegistersStay
  <2>2. CASE r # XZR
    <3>1. x' = [x EXCEPT ![c][r] = MemGet(c, a)] /\ r \in Reg
      BY <1>2, <2>2 DEF Load
    <3>2. loaded_at' = [loaded_at EXCEPT ![c][r] = instruction_count[c]]
      BY <1>2, <2>2 DEF Loads
    <3>3. x'[c][r] = MemGet(c, a) /\ DOMAIN MemGet(c, a) = Footprint(a)
      BY <1>0, <3>1 DEF MemGet
    <3>4. \A b \in DOMAIN x'[c][r] : b \in Byte /\ x'[c][r][b] = Sees(c, b)
      BY <3>3, FootprintInByte, LoadSees
    <3> QED BY <1>0, <3>1, <3>2, <3>4 DEF Takes
  <2> QED BY <2>1, <2>2
<1>3. ASSUME NEW c \in Core, NEW a \in Access, NEW r \in Reg \cup {XZR}, NEW exclusive \in BOOLEAN,
             LoadExclusive(c, a, r, exclusive), Loads(c, r)
      PROVE  RegistersStay \/ \E q \in Reg : Takes(c, q)
  <2>1. /\ x' = [x EXCEPT ![c] = [q \in Reg |-> IF q = r THEN [b \in Footprint(a) |-> memory[b]]
                                                ELSE SettledBySync(c, q)]]
        /\ buffer[c] = {}
    BY <1>3 DEF LoadExclusive, Synchronising
  <2>2. \A q \in Reg : SettledBySync(c, q) = x[c][q]
    BY <1>0 DEF SettledBySync
  <2>3. \A d \in Core, q \in Reg : x'[d][q] = IF d = c /\ q = r THEN [b \in Footprint(a) |-> memory[b]] ELSE x[d][q]
    BY <1>0, <2>1, <2>2
  <2>4. CASE r = XZR
    BY <1>3, <2>3, <2>4, RegAssumption DEF Loads, RegistersStay
  <2>5. CASE r # XZR
    <3>1. loaded_at' = [loaded_at EXCEPT ![c][r] = instruction_count[c]] /\ r \in Reg
      BY <1>3, <2>5 DEF Loads
    <3>2. \A b : Sees(c, b) = memory[b]
      BY <2>1 DEF Sees, Waiting, Covering
    <3>3. x'[c][r] = [b \in Footprint(a) |-> memory[b]]
      BY <2>3, <3>1
    <3>4. \A b \in DOMAIN x'[c][r] : b \in Byte /\ x'[c][r][b] = Sees(c, b)
      BY <3>2, <3>3, FootprintInByte
    <3>5. \A d \in Core, q \in Reg : loaded_at'[d][q] = IF d = c /\ q = r THEN instruction_count[c] ELSE loaded_at[d][q]
      BY <1>0, <3>1
    <3>6. \A d \in Core, q \in Reg : ~(d = c /\ q = r) => x'[d][q] = x[d][q]
      BY <2>3
    <3>7. Takes(c, r)
      BY <3>1, <3>4, <3>5, <3>6 DEF Takes
    <3> QED BY <3>1, <3>7
  <2> QED BY <2>4, <2>5
<1> HIDE DEF RegistersStay, Takes, Loads
<1> QED
  BY <1>1, <1>2, <1>3, Zenon DEF ONext, Loading, Reserving

\* The instruction counts never go back.
LEMMA InstructionsCount ==
  ASSUME TypeInv, [Next]_vars, NEW c \in Core
  PROVE  instruction_count[c] \in Nat /\ instruction_count[c] <= instruction_count'[c]
<1>0. instruction_count \in [Core -> Nat]
  BY DEF TypeInv, TypeOK, CountersOK
<1>1. CASE UNCHANGED counters
  BY <1>0, <1>1 DEF counters
<1>2. ASSUME NEW d \in Core, Fetch(d) PROVE instruction_count[c] <= instruction_count'[c]
  <2>1. instruction_count' = [instruction_count EXCEPT ![d] = instruction_count[d] + 1]
    BY <1>2 DEF Fetch
  <2> QED BY <1>0, <2>1
<1>3. CASE Next
  <2>1. ASSUME NEW d \in Core,
               DrainOne(d) \/ Idle(d) \/ Barrier(d) \/ ClearExclusive(d) \/ TakeException(d)
        PROVE  UNCHANGED counters
    BY <2>1 DEF DrainOne, Idle, Barrier, ClearExclusive, TakeException
  <2>2. ASSUME NEW d \in Core, NEW r \in Reg, ReadRegister(d, r) PROVE UNCHANGED counters
    BY <2>2 DEF ReadRegister
  <2>3. ASSUME NEW d \in Core, NEW a \in Access,
               \/ Store(d, a) \/ StoreRelease(d, a)
               \/ StoreExclusive(d, a) \/ StoreExclusiveFails(d, a)
        PROVE  UNCHANGED counters
    BY <2>3 DEF Store, StoreRelease, StoreExclusive, StoreExclusiveFails
  <2>4. ASSUME NEW d \in Core, NEW a \in Access, NEW r \in Reg \cup {XZR},
               Load(d, a, r) \/ \E exclusive \in BOOLEAN : LoadExclusive(d, a, r, exclusive)
        PROVE  UNCHANGED counters
    BY <2>4 DEF Load, LoadExclusive
  <2> HIDE DEF counters
  <2>5. instruction_count[c] <= instruction_count'[c]
    BY <1>1, <1>2, <1>3, <2>1, <2>2, <2>3, <2>4, NextCases
  <2> QED BY <1>0, <2>5
<1>4. CASE UNCHANGED vars
  BY <1>1, <1>4 DEF vars
<1> QED
  BY <1>0, <1>3, <1>4

\* Every step keeps what the registers hold known and in turn: the byte's own step
\* disturbs neither, and a register that is loaded gets what its core sees now.
LEMMA NextReads ==
  ASSUME ~Reordering, TypeInv, Ordered, Dated, PendingSeen, ReadInv, [ONext]_ovars
  PROVE  ReadInv'
<1>0. [Next]_vars
  BY ObservedStep
<1>1. RegistersStay \/ \E c \in Core, r \in Reg : Takes(c, r)
  <2>1. CASE ONext
    BY <2>1, RegisterStep DEF ReadInv
  <2>2. CASE UNCHANGED ovars
    BY <2>2 DEF ovars, vars, loads, RegistersStay
  <2> QED BY <2>1, <2>2
<1>2. /\ \A c \in Core, r \in Reg, b \in Byte, w \in Write : Loaded(c, r, b, w) => Known(c, b, w)
      /\ \A c \in Core, q, r \in Reg, b \in Byte, w, v \in Write :
           Loaded(c, q, b, w) /\ Loaded(c, r, b, v) /\ loaded_at[c][q] < loaded_at[c][r]
             => InTurn(c, b, w, v)
      /\ loaded_at \in [Core -> [Reg -> Nat]]
      /\ \A c \in Core, r \in Reg : loaded_at[c][r] <= instruction_count[c]
  BY DEF ReadInv, RegistersKnown, RegistersInTurn, LoadedPast
<1>3. \A c \in Core, b \in Byte, w \in Write : Known(c, b, w) => Known(c, b, w)'
  BY <1>0, ByteKnown
<1>4. \A c \in Core, b \in Byte, w, v \in Write :
        Known(c, b, w) /\ Known(c, b, v) /\ InTurn(c, b, w, v) => InTurn(c, b, w, v)'
  BY <1>0, ByteInTurn
<1>5. loaded_at' \in [Core -> [Reg -> Nat]]
  <2>1. UNCHANGED loaded_at \/ \E c \in Core, r \in Reg \cup {XZR} : Loads(c, r)
    BY Zenon DEF ONext, ovars
  <2>2. \A c \in Core : instruction_count[c] \in Nat
    BY DEF TypeInv, TypeOK, CountersOK
  <2> QED BY <1>2, <2>1, <2>2 DEF Loads
<1>6. \A c \in Core : /\ instruction_count[c] \in Nat /\ instruction_count'[c] \in Nat
                      /\ instruction_count[c] <= instruction_count'[c]
  BY <1>0, InstructionsCount, NextType DEF TypeInv, TypeOK, CountersOK
<1>7. CASE RegistersStay
  <2>1. \A c \in Core, r \in Reg : x'[c][r] = x[c][r] /\ loaded_at'[c][r] = loaded_at[c][r]
    BY <1>7 DEF RegistersStay
  <2>2. LoadedPast'
    BY <1>2, <1>5, <1>6, <2>1 DEF LoadedPast
  <2>3. \A c \in Core, r \in Reg, b \in Byte, w \in Write : Loaded(c, r, b, w)' <=> Loaded(c, r, b, w)
    BY <2>1 DEF Loaded
  <2>4. RegistersKnown' /\ RegistersInTurn'
    BY <1>2, <1>3, <1>4, <2>1, <2>3 DEF RegistersKnown, RegistersInTurn
  <2> QED BY <2>2, <2>4 DEF ReadInv
<1>8. ASSUME NEW c \in Core, NEW r \in Reg, Takes(c, r) PROVE ReadInv'
  <2>1. /\ \A d \in Core, q \in Reg : ~(d = c /\ q = r) => x'[d][q] = x[d][q] /\ loaded_at'[d][q] = loaded_at[d][q]
        /\ \A b \in Byte, w \in Write : Loaded(c, r, b, w)' => w = Sees(c, b)
        /\ loaded_at'[c][r] = instruction_count[c]
    BY <1>8 DEF Takes, Loaded
  <2>2. LoadedPast'
    <3>1. ASSUME NEW d \in Core, NEW q \in Reg PROVE loaded_at'[d][q] <= instruction_count'[d]
      <4>1. CASE d = c /\ q = r
        BY <1>6, <2>1, <4>1
      <4>2. CASE ~(d = c /\ q = r)
        <5>1. loaded_at'[d][q] <= instruction_count[d] /\ loaded_at'[d][q] \in Nat
          BY <1>2, <1>5, <2>1, <4>2
        <5> QED BY <1>6, <5>1
      <4> QED BY <4>1, <4>2
    <3> QED BY <1>5, <3>1 DEF LoadedPast
  <2>3. \A d \in Core, q \in Reg, b \in Byte, w \in Write :
          ~(d = c /\ q = r) => (Loaded(d, q, b, w)' <=> Loaded(d, q, b, w))
    BY <2>1 DEF Loaded
  <2>4. \A d \in Core, q \in Reg, b \in Byte, w \in Write : Loaded(d, q, b, w)' => Known(d, b, w)
    <3>1. \A b \in Byte : Known(c, b, Sees(c, b))
      BY SeesLast
    <3> QED BY <1>2, <2>1, <2>3, <3>1
  <2>5. RegistersKnown'
    BY <1>3, <2>4 DEF RegistersKnown
  <2>6. RegistersInTurn'
    <3>1. ASSUME NEW d \in Core, NEW p \in Reg, NEW q \in Reg, NEW b \in Byte, NEW w \in Write, NEW v \in Write,
                 Loaded(d, p, b, w)', Loaded(d, q, b, v)', loaded_at'[d][p] < loaded_at'[d][q]
          PROVE  InTurn(d, b, w, v)'
      <4>1. Known(d, b, w) /\ Known(d, b, v)
        BY <2>4, <3>1
      <4>2. InTurn(d, b, w, v)
        <5>1. CASE d = c /\ q = r
          BY <2>1, <3>1, <4>1, <5>1, SeesLast
        <5>2. CASE d = c /\ p = r /\ q # r
          <6>1. loaded_at[c][q] <= instruction_count[c] /\ instruction_count[c] < loaded_at[c][q]
            BY <1>2, <2>1, <3>1, <5>2
          <6>2. loaded_at[c][q] \in Nat
            BY <1>2
          <6> QED BY <1>6, <6>1, <6>2
        <5>3. CASE ~(d = c /\ q = r) /\ ~(d = c /\ p = r)
          BY <1>2, <2>1, <2>3, <3>1, <5>3
        <5> QED BY <5>1, <5>2, <5>3
      <4> QED BY <1>4, <4>1, <4>2
    <3> QED BY <3>1 DEF RegistersInTurn
  <2> QED BY <2>2, <2>5, <2>6 DEF ReadInv
<1> QED
  BY <1>1, <1>7, <1>8

\* Two loads of one byte keep their order under the sequential and the relaxed model,
\* whatever waits in the store buffers: AARCH64.md's `what is never reordered' fails, as the
\* run MemoryOrder_adversarial shows, by the reorderer's deferred loads alone.
THEOREM ReadsAreCoherent ==
  ASSUME Model # "adversarial"
  PROVE  OSpec => []CoherentReads
<1>0. ~Reordering
  BY DEF Reordering
<1>1. OInit => Init
  BY DEF OInit
<1>2. Init => PendingSeen
  BY DEF Init, PendingSeen
<1>3. OSpec => [](TypeInv /\ Ordered /\ Dated /\ PendingSeen)
  <2>1. TypeInv /\ PendingSeen /\ [ONext]_ovars => PendingSeen'
    BY ObservedStep, NextSeen
  <2> QED BY <1>1, <1>2, <2>1, ObservedDated, PTL DEF OSpec
<1>4. OInit => ReadInv
  BY DEF OInit, Init, ReadInv, LoadedPast, RegistersKnown, RegistersInTurn, Loaded
<1>5. TypeInv /\ Ordered /\ Dated /\ PendingSeen /\ ReadInv /\ [ONext]_ovars => ReadInv'
  BY <1>0, NextReads
<1>6. TypeInv /\ ReadInv => CoherentReads
  <2> SUFFICES ASSUME TypeInv, ReadInv, NEW c \in Core, NEW q \in Reg, NEW r \in Reg,
                      loaded_at[c][q] < loaded_at[c][r],
                      NEW b \in DOMAIN x[c][q] \cap DOMAIN x[c][r],
                      Before(b, x[c][r][b], x[c][q][b])
               PROVE  FALSE
    BY DEF CoherentReads
  <2>0. b \in Byte /\ x[c][q][b] \in Write /\ x[c][r][b] \in Write
    BY DEF TypeInv, TypeOK, LoadsOK, IsPartial
  <2>1. InTurn(c, b, x[c][q][b], x[c][r][b])
    BY <2>0 DEF ReadInv, RegistersInTurn, Loaded
  <2> QED BY <2>1 DEF InTurn, Before
<1> QED
  BY <1>3, <1>4, <1>5, <1>6, PTL DEF OSpec
=============================================================================
