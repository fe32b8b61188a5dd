---------------------------- MODULE Litmus_proofs ----------------------------
(***************************************************************************)
(* The outcomes that barriers, releases and acquires forbid do not happen, *)
(* under every memory model, with any number of cores and registers        *)
(* besides those of the test, and whatever the capacity of the buffers,    *)
(* the latency of a store and the horizon of the history.                  *)
(*                                                                         *)
(* First what one step of a core does to what the others can know; then    *)
(* what any program of loads, stores and barriers keeps; then each shape.  *)
(***************************************************************************)
EXTENDS Litmus, Memory_proofs

-----------------------------------------------------------------------------
(* What is known of a byte.                                                *)

\* The log's times: only what a byte held at first is from before the start.
Founded ==
  \A b \in Byte : \A h \in history[b] : h.write = InitialWrite <=> h.time < 0

\* Core c cannot be answered with the initial b any more: it is not in memory, and the
\* reorderer, looking back to the last barrier, finds a later write.
Certain(c, b) ==
  /\ Held(b)
  /\ (\E h \in history[b] : h.time < 0) =>
       \E g \in history[b] : 0 <= g.time /\ g.time <= sync_time[c]

MemInv == TypeInv /\ Ordered /\ Dated /\ Founded

\* A store leaves the log founded.
LEMMA CommitFounded ==
  ASSUME MemInv, NEW c \in Core, NEW e, NEW now \in Nat, CommitStore(c, e, now)
  PROVE  Founded'
<1> SUFFICES ASSUME NEW b \in Byte, NEW h \in history'[b]
             PROVE  h.write = InitialWrite <=> h.time < 0
  BY DEF Founded
<1>1. CASE h \in history[b]
  BY <1>1 DEF MemInv, Founded
<1>2. CASE history[b] = {} /\ h = [time |-> -1, write |-> memory[b]]
  <2>1. memory[b] = InitialWrite
    BY <1>2 DEF MemInv, Dated, LatestHeld
  <2> QED BY <1>2, <2>1
<1>3. CASE h = [time |-> now, write |-> WriteOf(c, e)]
  BY <1>3, StoreIsNew
<1> QED
  BY <1>1, <1>2, <1>3, CommitRecords

\* A store takes no certainty away: what it replaces in the log or lets be pruned is older
\* than what makes it certain, or goes together with it.
LEMMA CommitCertain ==
  ASSUME MemInv, NEW c \in Core, NEW e, e.n \in Nat, NEW now \in Nat, CommitStore(c, e, now),
         NEW d \in Core, NEW b \in Byte, Certain(d, b), sync_time'[d] \in {sync_time[d], clock}
  PROVE  Certain(d, b)'
<1> DEFINE w == WriteOf(c, e)
           new == [time |-> now, write |-> w]
           written == [k \in Byte |-> IF k \in Footprint(e.acc)
                                      THEN Recorded(k, w, now) ELSE history[k]]
<1>0. /\ history[b] \subseteq Record /\ memory[b] # InitialWrite
      /\ \A h \in Record : h.time \in Int
      /\ sync_time[d] \in Int
  BY DEF MemInv, TypeInv, TypeOK, SharedOK, LoadsOK, Certain, Held, Record
<1>1. Held(b)'
  BY <1>0, StoreIsNew DEF CommitStore, Held
<1>2. SUFFICES ASSUME NEW h \in history'[b], h.time < 0
               PROVE  \E g \in history'[b] : 0 <= g.time /\ g.time <= sync_time'[d]
  BY <1>1 DEF Certain
<1>3. history' = [k \in Byte |-> IF now - last_prune > Horizon
                                 THEN Pruned(written[k], now) ELSE written[k]]
  BY Zenon DEF CommitStore
<1>4. written[b] = IF b \in Footprint(e.acc) THEN Recorded(b, w, now) ELSE history[b]
  OBVIOUS
<1>5. written[b] \subseteq Record
  <2>1. w \in Write
    BY WriteOfType
  <2>2. Recorded(b, w, now) \subseteq Record
    BY <2>1, RecordedType DEF MemInv, TypeInv, TypeOK
  <2> HIDE DEF w
  <2> QED BY <1>0, <2>2
<1>6. h \in written[b] /\ (now - last_prune > Horizon => h \in Pruned(written[b], now))
  <2> HIDE DEF written
  <2> QED BY <1>3 DEF Pruned
<1>7. h \in history[b]
  <2>1. new.time = now
    OBVIOUS
  <2>2. history[b] = {} => memory[b] = InitialWrite
    BY DEF MemInv, Dated, LatestHeld
  <2>3. \A k \in Recorded(b, w, now) :
          k \in history[b] \/ history[b] = {} \/ k.time = now
    BY DEF Recorded
  <2> HIDE DEF written
  <2> QED BY <1>0, <1>2, <1>4, <1>6, <2>2, <2>3
<1>8. PICK g \in history[b] : 0 <= g.time /\ g.time <= sync_time'[d]
  <2>1. \A g \in history[b] : g.time <= clock
    BY DEF MemInv, Dated, PastOnly
  <2> QED BY <1>2, <1>7, <2>1 DEF Certain
<1>9. PICK k \in written[b] : k.time = g.time
  <2>1. new.time = now
    OBVIOUS
  <2>2. history[b] # {} => \E k \in Recorded(b, w, now) : k.time = g.time
    <3>1. new \in Recorded(b, w, now) /\ (g.time # now => g \in Recorded(b, w, now))
      <4> HIDE DEF w
      <4> QED BY <1>8 DEF Recorded
    <3> QED BY <2>1, <3>1
  <2> HIDE DEF written
  <2> QED BY <1>4, <1>8, <2>2
<1>10. h.time \in Int /\ k.time \in Int /\ h.time < k.time
  BY <1>0, <1>2, <1>5, <1>7, <1>8, <1>9
<1>11. now - last_prune > Horizon => k \in Pruned(written[b], now)
  <2>1. \A q \in written[b] : q.time \in Int
    BY <1>0, <1>5
  <2> HIDE DEF written
  <2>2. SUFFICES ASSUME now - last_prune > Horizon, NEW q \in written[b],
                        k.time < q.time, q.time <= now - Horizon
                 PROVE  FALSE
    BY <1>9 DEF Pruned
  <2>3. h.time < q.time
    BY <1>10, <2>1, <2>2
  <2> QED BY <1>6, <2>2, <2>3 DEF Pruned
<1>12. k \in history'[b]
  <2> HIDE DEF written
  <2> QED BY <1>3, <1>9, <1>11
<1> QED
  BY <1>8, <1>9, <1>12

\* Whoever synchronises is certain of what memory holds.
LEMMA SynchronisedIsCertain ==
  ASSUME MemInv, NEW c \in Core, NEW b \in Byte, Held(b),
         UNCHANGED shared, sync_time'[c] = clock
  PROVE  Certain(c, b)'
<1>1. PICK l \in history[b] : l.write = memory[b] /\ l.time <= clock
  BY DEF MemInv, Dated, LatestHeld, PastOnly, Held
<1>2. l.time \in Int /\ ~(l.time < 0)
  BY <1>1 DEF MemInv, Founded, Held, TypeInv, TypeOK, SharedOK, Record
<1> QED
  BY <1>1, <1>2 DEF Certain, Held, shared

\* What a load is answered with: something new only if there is something new, and something
\* new whenever the core is certain of it or has stored there itself.
LEMMA Answer ==
  ASSUME MemInv, NEW c \in Core, NEW a \in Access, NEW b \in Footprint(a)
  PROVE  /\ MemGet(c, a)[b] # InitialWrite => Held(b) \/ Waiting(c, b)
         /\ Certain(c, b) => MemGet(c, a)[b] # InitialWrite
<1>0. b \in Byte
  BY FootprintInByte
<1>1. CASE Waiting(c, b)
  <2>1. MemGet(c, a)[b] = Forward(c, b)
    BY <1>1 DEF Waiting, MemGet
  <2>2. Forward(c, b) # InitialWrite
    BY StoreIsNew DEF Forward
  <2> QED BY <1>1, <2>1, <2>2
<1>2. CASE ~Waiting(c, b)
  <2>1. CASE MemGet(c, a)[b] = memory[b]
    BY <2>1 DEF Certain, Held
  <2>2. ASSUME NEW l \in history[b], MemGet(c, a)[b] = l.write, l.time <= sync_time[c],
               \A h \in history[b] : h.time <= sync_time[c] => h.time <= l.time
        PROVE  /\ MemGet(c, a)[b] # InitialWrite => Held(b)
               /\ Certain(c, b) => MemGet(c, a)[b] # InitialWrite
    <3>1. \A h \in history[b] : h.time \in Int /\ (h.write = InitialWrite <=> h.time < 0)
      BY <1>0 DEF MemInv, Founded, TypeInv, TypeOK, SharedOK, Record
    <3>2. PICK m \in history[b] : m.write = memory[b] /\ \A g \in history[b] : g.time <= m.time
      BY <1>0, <2>2 DEF MemInv, Dated, LatestHeld
    <3>3. l.write # InitialWrite => Held(b)
      BY <3>1, <3>2 DEF Held
    <3>4. Certain(c, b) => l.write # InitialWrite
      BY <2>2, <3>1 DEF Certain
    <3> QED BY <2>2, <3>3, <3>4
  <2> QED BY <1>2, <2>1, <2>2, AnswersFrom DEF MemInv, Waiting
<1> QED
  BY <1>1, <1>2

-----------------------------------------------------------------------------
(* What a step does.                                                       *)

\* Register r of core c was loaded with something new.
New(c, r) == \E b \in DOMAIN x[c][r] : x[c][r][b] # InitialWrite

\* No deferred load of core c would read memory again.
Final(c) == \A r \in DOMAIN pending_loads[c] : ~Reloads(c, r)

\* The steps of core c that are no instruction of its program.
Quiet(c) == Fetch(c) \/ DrainOne(c) \/ Idle(c)

IsRead(i) == i.op \in {"LDR", "LDAR"}
IsWrite(i) == i.op \in {"STR", "STLR"}
IsSync(i) == i.op \in {"DMB", "LDAR", "STLR"}

\* What is known stays known.
Monotone ==
  /\ \A b \in Byte : Held(b) => Held(b)'
  /\ \A c \in Core, b \in Byte : Certain(c, b) => Certain(c, b)'

QuietEffects(c) ==
  /\ UNCHANGED <<x, pending_loads, store_count>>
  /\ \A b \in Byte : Held(b)' => Held(b) \/ Waiting(c, b)
  /\ \A d \in Core, b \in Byte :
       /\ Waiting(d, b)' => Waiting(d, b)
       /\ Waiting(d, b) => Waiting(d, b)' \/ Held(b)'

\* An instruction's effect on the deferred loads, on the stores, on what is certain and on
\* the registers.
DefersOrSettles(c, i) ==
  /\ \A d \in Core \ {c} : pending_loads'[d] = pending_loads[d] /\ store_count'[d] = store_count[d]
  /\ Final(c)'
  /\ i.op # "LDR" => DOMAIN pending_loads'[c] = {}

StoresIfWrite(c, i) ==
  /\ \A b \in Byte : Held(b)' => Held(b) \/ (IsWrite(i) /\ b = i.acc.addr)
  /\ \A d \in Core, b \in Byte :
       /\ Waiting(d, b)' => Waiting(d, b) \/ (d = c /\ IsWrite(i) /\ b = i.acc.addr)
       /\ Waiting(d, b) => Waiting(d, b)'
  /\ IsWrite(i) => Held(i.acc.addr)' \/ Waiting(c, i.acc.addr)'
  /\ i.op = "STLR" => Held(i.acc.addr)'

SynchronisesIfSync(c, i) ==
  /\ IsSync(i) => \A b \in Byte : ~Waiting(c, b)
  /\ i.op \in {"DMB", "LDAR"} => \A b \in Byte : Held(b) => Certain(c, b)'

LoadsIfRead(c, i) ==
  /\ \A d \in Core, q \in Reg : ~(d = c /\ IsRead(i) /\ q = i.reg) => (New(d, q)' <=> New(d, q))
  /\ IsRead(i) =>
       /\ New(c, i.reg)' => Held(i.acc.addr) \/ Waiting(c, i.acc.addr)
       /\ Certain(c, i.acc.addr) => New(c, i.reg)'
       /\ i.op = "LDAR" /\ Held(i.acc.addr) => New(c, i.reg)'

Effects(c, i) ==
  DefersOrSettles(c, i) /\ StoresIfWrite(c, i) /\ SynchronisesIfSync(c, i) /\ LoadsIfRead(c, i)

\* The instructions the programs consist of.
Instruction ==
  [op : {"LDR", "LDAR", "STR", "STLR", "DMB"}, acc : Locations, reg : {r1, r2}]

\* The programs' accesses are of one byte.
LEMMA OneByte ==
  \A a \in Locations : a \in Access /\ a.addr \in Byte /\ Footprint(a) = {a.addr}
<1>1. Footprint(X) = {0} /\ X.addr = 0 /\ Footprint(Y) = {1} /\ Y.addr = 1
  BY DEF Footprint, X, Y
<1>2. X \in Access /\ Y \in Access
  BY LitmusAssumption DEF Locations
<1> QED
  BY <1>1, <1>2 DEF Locations, Byte

\* Nothing known is lost while memory and the windows stay.
LEMMA SharedStays ==
  ASSUME MemInv, UNCHANGED shared, UNCHANGED sync_time
  PROVE  Monotone /\ Founded'
  BY DEF MemInv, Founded, Monotone, Certain, Held, shared

\* A store keeps the log founded and what is known known, and adds itself.
LEMMA CommitEffects ==
  ASSUME MemInv, NEW c \in Core, NEW e, e.n \in Nat, NEW now \in Nat, CommitStore(c, e, now)
  PROVE  /\ Founded'
         /\ UNCHANGED sync_time => Monotone
         /\ \A b \in Byte : Held(b)' <=> Held(b) \/ b \in Footprint(e.acc)
<1>1. Founded'
  BY CommitFounded
<1>2. \A b \in Byte : Held(b)' <=> Held(b) \/ b \in Footprint(e.acc)
  BY StoreIsNew DEF Held, CommitStore
<1>3. ASSUME UNCHANGED sync_time PROVE Monotone
  <2>1. \A d \in Core : sync_time'[d] \in {sync_time[d], clock}
    BY <1>3
  <2> QED BY <1>2, <2>1, CommitCertain DEF Monotone
<1> QED
  BY <1>1, <1>2, <1>3

\* A store that leaves its buffer was waiting there, and the others go on waiting.
LEMMA SendOutEffects ==
  ASSUME MemInv, NEW c \in Core, NEW now \in Nat, SendOut(c, now), UNCHANGED sync_time
  PROVE  /\ Founded' /\ Monotone
         /\ \A b \in Byte : Held(b)' => Held(b) \/ Waiting(c, b)
         /\ \A d \in Core, b \in Byte :
              /\ Waiting(d, b)' => Waiting(d, b)
              /\ Waiting(d, b) => Waiting(d, b)' \/ Held(b)'
<1>1. PICK out \in buffer[c] : /\ CommitStore(c, out, now)
                              /\ buffer' = [buffer EXCEPT ![c] = @ \ {out}]
  BY DEF SendOut
<1>2. out.n \in Nat /\ buffer \in [Core -> SUBSET Entry]
  BY DEF MemInv, TypeInv, TypeOK, BuffersOK, Entry
<1>3. /\ Founded' /\ Monotone
      /\ \A b \in Byte : Held(b)' <=> Held(b) \/ b \in Footprint(out.acc)
  BY <1>1, <1>2, CommitEffects
<1>4. \A b : b \in Footprint(out.acc) => Waiting(c, b)
  BY DEF Waiting, Covering
<1>5. ASSUME NEW d \in Core, NEW b
      PROVE  /\ Waiting(d, b)' => Waiting(d, b)
             /\ Waiting(d, b) => Waiting(d, b)' \/ b \in Footprint(out.acc)
  BY <1>1, <1>2 DEF Waiting, Covering
<1> QED
  BY <1>3, <1>4, <1>5

\* Fetching, draining and idling move stores along and change nothing else that is known.
LEMMA QuietStep ==
  ASSUME MemInv, NEW c \in Core, Quiet(c)
  PROVE  Founded' /\ Monotone /\ QuietEffects(c)
<1>1. CASE UNCHANGED <<shared, buffer, sync_time>>
  <2>1. UNCHANGED <<x, pending_loads, store_count>>
    BY DEF Quiet, Fetch, DrainOne, Idle, loads
  <2> QED BY <1>1, <2>1, SharedStays DEF QuietEffects, Held, Waiting, shared
<1>2. ASSUME NEW now \in Nat, SendOut(c, now), UNCHANGED <<x, pending_loads, store_count, sync_time>>
      PROVE  Founded' /\ Monotone /\ QuietEffects(c)
  BY <1>2, SendOutEffects DEF QuietEffects
<1>3. clock \in Nat
  BY DEF MemInv, TypeInv, TypeOK, CountersOK
<1>4. CASE Fetch(c)
  BY <1>1, <1>2, <1>3, <1>4 DEF Fetch, loads
<1>5. CASE DrainOne(c)
  BY <1>2, <1>3, <1>5 DEF DrainOne, loads
<1>6. CASE Idle(c)
  BY <1>1, <1>6 DEF Idle, loads
<1> QED
  BY <1>4, <1>5, <1>6 DEF Quiet

-----------------------------------------------------------------------------
(* What an instruction does.                                               *)

\* The types the instruction lemmas need.
LEMMA RegisterTypes ==
  ASSUME MemInv
  PROVE  /\ DOMAIN x = Core /\ \A c \in Core : DOMAIN x[c] = Reg
         /\ DOMAIN pending_loads = Core /\ DOMAIN sync_time = Core
         /\ store_count \in [Core -> Nat]
         /\ clock \in Nat
         /\ \A c \in Core : \A r \in DOMAIN pending_loads[c] : r \in Reg
  BY DEF MemInv, TypeInv, TypeOK, LoadsOK, BuffersOK, CountersOK, IsPartial

\* An instruction that leaves memory, the buffers and the counts alone stores nothing.
LEMMA NothingStored ==
  ASSUME UNCHANGED <<memory, buffer>>, NEW c, NEW i, ~IsWrite(i)
  PROVE  StoresIfWrite(c, i)
  BY DEF StoresIfWrite, IsWrite, Held, Waiting

\* What a synchronisation leaves in the registers when no deferred load would read again.
LEMMA SettledStays ==
  ASSUME NEW c \in Core, Final(c), NEW r
  PROVE  SettledBySync(c, r) = x[c][r]
  BY DEF SettledBySync, Final

\* LDR, with what the reorderer may do about it.
LEMMA LoadStep ==
  ASSUME MemInv, NEW c \in Core, Final(c), NEW i \in Instruction, i.op = "LDR",
         Load(c, i.acc, i.reg)
  PROVE  Founded' /\ Monotone /\ Effects(c, i)
<1>1. /\ UNCHANGED <<shared, store_count, buffer, sync_time>>
      /\ i.reg \in Reg /\ i.reg # XZR
  BY LitmusAssumption, RegAssumption DEF Load, Instruction
<1>2. Founded' /\ Monotone
  BY <1>1, SharedStays
<1>3. /\ x' = [x EXCEPT ![c][i.reg] = MemGet(c, i.acc)]
      /\ pending_loads' = [pending_loads EXCEPT ![c] =
           IF Reordering
           THEN [q \in DOMAIN @ \cup {i.reg} |->
                   IF q = i.reg THEN [acc |-> i.acc, n |-> store_count[c]] ELSE @[q]]
           ELSE Without(@, {i.reg})]
  BY <1>1 DEF Load
<1>4. DefersOrSettles(c, i)
  <2>1. \A d \in Core \ {c} : pending_loads'[d] = pending_loads[d] /\ store_count'[d] = store_count[d]
    BY <1>1, <1>3, RegisterTypes
  <2>2. \A r \in DOMAIN pending_loads'[c] :
          pending_loads'[c][r].n = store_count[c] \/ (r \in DOMAIN pending_loads[c] /\ pending_loads'[c][r] = pending_loads[c][r])
    <3>1. CASE Reordering
      <4>1. pending_loads'[c] = [q \in DOMAIN pending_loads[c] \cup {i.reg} |->
               IF q = i.reg THEN [acc |-> i.acc, n |-> store_count[c]] ELSE pending_loads[c][q]]
        BY <1>3, <3>1, RegisterTypes
      <4> QED BY <4>1
    <3>2. CASE ~Reordering
      <4>1. pending_loads'[c] = Without(pending_loads[c], {i.reg})
        BY <1>3, <3>2, RegisterTypes
      <4> QED BY <4>1 DEF Without
    <3> QED BY <3>1, <3>2
  <2>3. Final(c)'
    BY <1>1, <2>2 DEF Final, Reloads
  <2> QED BY <2>1, <2>3 DEF DefersOrSettles
<1>5. StoresIfWrite(c, i)
  BY <1>1, NothingStored DEF shared, IsWrite
<1>6. SynchronisesIfSync(c, i)
  BY DEF SynchronisesIfSync, IsSync
<1>7. LoadsIfRead(c, i)
  <2>1. \A d \in Core, q \in Reg : x'[d][q] = IF d = c /\ q = i.reg THEN MemGet(c, i.acc) ELSE x[d][q]
    BY <1>1, <1>3, RegisterTypes
  <2>2. i.acc \in Locations
    BY DEF Instruction
  <2>3. DOMAIN MemGet(c, i.acc) = {i.acc.addr}
    BY <2>2, OneByte DEF MemGet
  <2>4. New(c, i.reg)' <=> MemGet(c, i.acc)[i.acc.addr] # InitialWrite
    BY <1>1, <2>1, <2>3 DEF New
  <2>5. \A d \in Core, q \in Reg : ~(d = c /\ q = i.reg) => (New(d, q)' <=> New(d, q))
    BY <2>1 DEF New
  <2>6. /\ MemGet(c, i.acc)[i.acc.addr] # InitialWrite => Held(i.acc.addr) \/ Waiting(c, i.acc.addr)
        /\ Certain(c, i.acc.addr) => MemGet(c, i.acc)[i.acc.addr] # InitialWrite
    BY <2>2, OneByte, Answer
  <2> QED BY <2>4, <2>5, <2>6 DEF LoadsIfRead, IsRead
<1> QED
  BY <1>2, <1>4, <1>5, <1>6, <1>7 DEF Effects

\* LDAR.
LEMMA AcquireStep ==
  ASSUME MemInv, NEW c \in Core, Final(c), NEW i \in Instruction, i.op = "LDAR",
         LoadExclusive(c, i.acc, i.reg, FALSE)
  PROVE  Founded' /\ Monotone /\ Effects(c, i)
<1>1. /\ UNCHANGED <<shared, store_count, buffer>>
      /\ sync_time' = [sync_time EXCEPT ![c] = clock]
      /\ buffer[c] = {}
      /\ i.reg \in Reg
  BY LitmusAssumption DEF LoadExclusive, Synchronising, Instruction
<1>2. \A b \in Byte : Held(b) => Certain(c, b)'
  BY <1>1, RegisterTypes, SynchronisedIsCertain
<1>3. Founded' /\ Monotone
  <2>1. ASSUME NEW d \in Core, d # c, NEW b \in Byte, Certain(d, b) PROVE Certain(d, b)'
    BY <1>1, <2>1, RegisterTypes DEF Certain, Held, shared
  <2> QED BY <1>1, <1>2, <2>1 DEF MemInv, Founded, Monotone, Certain, Held, shared
<1>4. DefersOrSettles(c, i)
  <2>1. pending_loads' = [pending_loads EXCEPT ![c] = <<>>]
    BY DEF LoadExclusive
  <2> QED BY <1>1, <2>1, RegisterTypes DEF DefersOrSettles, Final
<1>5. StoresIfWrite(c, i)
  BY <1>1, NothingStored DEF shared, IsWrite
<1>6. SynchronisesIfSync(c, i)
  BY <1>1, <1>2 DEF SynchronisesIfSync, Waiting, Covering
<1>7. LoadsIfRead(c, i)
  <2>1. x' = [x EXCEPT ![c] = [q \in Reg |-> IF q = i.reg THEN [b \in Footprint(i.acc) |-> memory[b]]
                                             ELSE SettledBySync(c, q)]]
    BY DEF LoadExclusive
  <2>2. \A d \in Core, q \in Reg :
          x'[d][q] = IF d = c /\ q = i.reg THEN [b \in Footprint(i.acc) |-> memory[b]] ELSE x[d][q]
    BY <2>1, RegisterTypes, SettledStays
  <2>3. i.acc \in Locations
    BY DEF Instruction
  <2>4. New(c, i.reg)' <=> Held(i.acc.addr)
    <3>1. x'[c][i.reg] = [b \in {i.acc.addr} |-> memory[b]]
      BY <1>1, <2>2, <2>3, OneByte
    <3>2. DOMAIN x'[c][i.reg] = {i.acc.addr} /\ x'[c][i.reg][i.acc.addr] = memory[i.acc.addr]
      BY <3>1
    <3> QED BY <3>2 DEF New, Held
  <2>5. \A d \in Core, q \in Reg : ~(d = c /\ q = i.reg) => (New(d, q)' <=> New(d, q))
    BY <2>2 DEF New
  <2> QED BY <2>4, <2>5 DEF LoadsIfRead, IsRead, Certain
<1> QED
  BY <1>3, <1>4, <1>5, <1>6, <1>7 DEF Effects

\* What synchronize_reads does, to whoever executes it.
LEMMA SynchroniseEffects ==
  ASSUME MemInv, NEW c \in Core, Final(c), SynchronizeReads(c)
  PROVE  /\ sync_time' = [sync_time EXCEPT ![c] = clock]
         /\ pending_loads' = [pending_loads EXCEPT ![c] = <<>>]
         /\ \A d \in Core, q \in Reg : New(d, q)' <=> New(d, q)
<1>1. /\ x' = [x EXCEPT ![c] = [r \in Reg |-> SettledBySync(c, r)]]
      /\ sync_time' = [sync_time EXCEPT ![c] = clock]
      /\ pending_loads' = [pending_loads EXCEPT ![c] = <<>>]
  BY DEF SynchronizeReads
<1>2. \A d \in Core, q \in Reg : x'[d][q] = x[d][q]
  BY <1>1, RegisterTypes, SettledStays
<1> QED
  BY <1>1, <1>2 DEF New

\* DMB.
LEMMA BarrierStep ==
  ASSUME MemInv, NEW c \in Core, Final(c), NEW i \in Instruction, i.op = "DMB", Barrier(c)
  PROVE  Founded' /\ Monotone /\ Effects(c, i)
<1>1. /\ UNCHANGED <<shared, store_count, buffer>>
      /\ buffer[c] = {} /\ SynchronizeReads(c)
  BY DEF Barrier, Synchronising
<1>2. /\ sync_time' = [sync_time EXCEPT ![c] = clock]
      /\ pending_loads' = [pending_loads EXCEPT ![c] = <<>>]
      /\ \A d \in Core, q \in Reg : New(d, q)' <=> New(d, q)
  BY <1>1, SynchroniseEffects
<1>3. \A b \in Byte : Held(b) => Certain(c, b)'
  BY <1>1, <1>2, RegisterTypes, SynchronisedIsCertain
<1>4. Founded' /\ Monotone
  <2>1. ASSUME NEW d \in Core, d # c, NEW b \in Byte, Certain(d, b) PROVE Certain(d, b)'
    BY <1>1, <1>2, <2>1, RegisterTypes DEF Certain, Held, shared
  <2> QED BY <1>1, <1>3, <2>1 DEF MemInv, Founded, Monotone, Certain, Held, shared
<1>5. DefersOrSettles(c, i)
  BY <1>1, <1>2, RegisterTypes DEF DefersOrSettles, Final
<1>6. StoresIfWrite(c, i)
  BY <1>1, NothingStored DEF shared, IsWrite
<1>7. SynchronisesIfSync(c, i)
  BY <1>1, <1>3 DEF SynchronisesIfSync, Waiting, Covering
<1>8. LoadsIfRead(c, i)
  BY <1>2 DEF LoadsIfRead, IsRead
<1> QED
  BY <1>4, <1>5, <1>6, <1>7, <1>8 DEF Effects

\* A store with no deferred load outstanding goes to the buffer or to memory.
LEMMA StoreStep ==
  ASSUME MemInv, NEW c \in Core, DOMAIN pending_loads[c] = {}, NEW i \in Instruction,
         i.op = "STR", Store(c, i.acc)
  PROVE  Founded' /\ Monotone /\ Effects(c, i)
<1> DEFINE e == [n |-> store_count[c] + 1, at |-> instruction_count[c], acc |-> i.acc]
<1>1. /\ Resolve(c, Overtaken(c, i.acc))
      /\ store_count' = [store_count EXCEPT ![c] = @ + 1]
      /\ IF Buffering THEN buffer' = [buffer EXCEPT ![c] = @ \cup {e}] /\ UNCHANGED shared
         ELSE CommitStore(c, e, clock) /\ UNCHANGED buffer
  BY DEF Store
<1>2. /\ e.acc = i.acc /\ e.n \in Nat /\ i.acc \in Locations
      /\ buffer \in [Core -> SUBSET Entry]
  BY RegisterTypes DEF Instruction, MemInv, TypeInv, TypeOK, BuffersOK
<1> HIDE DEF e
<1>3. /\ UNCHANGED sync_time
      /\ \A d \in Core, q \in Reg : x'[d][q] = x[d][q]
      /\ \A d \in Core : pending_loads'[d] = IF d = c THEN Without(pending_loads[c], Overtaken(c, i.acc)) ELSE pending_loads[d]
  <2>1. {r \in Overtaken(c, i.acc) \cap DOMAIN pending_loads[c] : Reloads(c, r)} = {}
    OBVIOUS
  <2>2. /\ UNCHANGED sync_time
        /\ x' = [x EXCEPT ![c] = [r \in Reg |-> x[c][r]]]
        /\ pending_loads' = [pending_loads EXCEPT ![c] = Without(@, Overtaken(c, i.acc))]
    BY <1>1, <2>1 DEF Resolve
  <2> QED BY <2>2, RegisterTypes
<1>4. DefersOrSettles(c, i)
  <2>1. DOMAIN pending_loads'[c] = {}
    BY <1>3 DEF Without
  <2> QED BY <1>1, <1>3, <2>1, RegisterTypes DEF DefersOrSettles, Final
<1>5. SynchronisesIfSync(c, i) /\ LoadsIfRead(c, i)
  BY <1>3 DEF SynchronisesIfSync, LoadsIfRead, IsSync, IsRead, New
<1>6. CASE Buffering
  <2>1. \A d \in Core : \A b : Covering(buffer'[d], b) =
          IF d = c /\ b = i.acc.addr THEN Covering(buffer[d], b) \cup {e} ELSE Covering(buffer[d], b)
    <3>1. \A d \in Core : buffer'[d] = IF d = c THEN buffer[c] \cup {e} ELSE buffer[d]
      BY <1>1, <1>2, <1>6
    <3>2. Footprint(e.acc) = {i.acc.addr}
      BY <1>2, OneByte
    <3> QED BY <3>1, <3>2 DEF Covering
  <2>2. StoresIfWrite(c, i)
    BY <1>1, <1>6, <2>1 DEF StoresIfWrite, IsWrite, Waiting, Held, shared
  <2> QED BY <1>1, <1>3, <1>4, <1>5, <1>6, <2>2, SharedStays DEF Effects
<1>7. CASE ~Buffering
  <2>1. Founded' /\ Monotone /\ \A b \in Byte : Held(b)' <=> Held(b) \/ b \in Footprint(i.acc)
    BY <1>1, <1>2, <1>3, <1>7, CommitEffects, RegisterTypes
  <2>2. StoresIfWrite(c, i)
    BY <1>1, <1>2, <1>7, <2>1, OneByte DEF StoresIfWrite, IsWrite, Waiting
  <2> QED BY <1>4, <1>5, <2>1, <2>2 DEF Effects
<1> QED
  BY <1>6, <1>7

\* STLR.
LEMMA ReleaseStep ==
  ASSUME MemInv, NEW c \in Core, Final(c), NEW i \in Instruction, i.op = "STLR",
         StoreRelease(c, i.acc)
  PROVE  Founded' /\ Monotone /\ Effects(c, i)
<1> DEFINE e == [n |-> store_count[c] + 1, at |-> instruction_count[c], acc |-> i.acc]
<1>1. /\ buffer[c] = {} /\ UNCHANGED buffer /\ SynchronizeReads(c)
      /\ CommitStore(c, e, clock)
      /\ store_count' = [store_count EXCEPT ![c] = @ + 1]
  BY DEF StoreRelease, StoreThrough, Synchronising
<1>2. e.acc = i.acc /\ e.n \in Nat /\ i.acc \in Locations
  BY RegisterTypes DEF Instruction
<1> HIDE DEF e
<1>3. /\ sync_time' = [sync_time EXCEPT ![c] = clock]
      /\ pending_loads' = [pending_loads EXCEPT ![c] = <<>>]
      /\ \A d \in Core, q \in Reg : New(d, q)' <=> New(d, q)
  BY <1>1, SynchroniseEffects
<1>4. Founded' /\ \A b \in Byte : Held(b)' <=> Held(b) \/ b \in Footprint(i.acc)
  BY <1>1, <1>2, CommitEffects, RegisterTypes
<1>5. Monotone
  <2>1. \A d \in Core : sync_time'[d] \in {sync_time[d], clock}
    BY <1>3, RegisterTypes
  <2> QED BY <1>1, <1>2, <1>4, <2>1, CommitCertain, RegisterTypes DEF Monotone
<1>6. DefersOrSettles(c, i)
  BY <1>1, <1>3, RegisterTypes DEF DefersOrSettles, Final
<1>7. StoresIfWrite(c, i)
  BY <1>1, <1>2, <1>4, OneByte DEF StoresIfWrite, IsWrite, Waiting
<1>8. SynchronisesIfSync(c, i)
  BY <1>1 DEF SynchronisesIfSync, Waiting, Covering
<1>9. LoadsIfRead(c, i)
  BY <1>3 DEF LoadsIfRead, IsRead
<1> QED
  BY <1>4, <1>5, <1>6, <1>7, <1>8, <1>9 DEF Effects

-----------------------------------------------------------------------------
(* What any of the programs keeps.                                         *)

\* The programs are made of instructions, and never store right behind a load that a
\* reorderer may put off.
Proper(p) ==
  /\ p \in Seq(Instruction)
  /\ \A k \in DOMAIN p : k + 1 \in DOMAIN p => ~(p[k].op = "LDR" /\ p[k + 1].op = "STR")

WellFormed(t) == \A c \in Core : Proper(t.code[c])

\* Core c has executed a store to b.
Issued(c, b) ==
  \E k \in DOMAIN test.code[c] :
    k < pc[c] /\ IsWrite(test.code[c][k]) /\ test.code[c][k].acc.addr = b

\* A load is only outstanding right behind it, so it is never read again.
Deferral(c) ==
  /\ Final(c)
  /\ DOMAIN pending_loads[c] # {} =>
       pc[c] - 1 \in DOMAIN test.code[c] /\ test.code[c][pc[c] - 1].op = "LDR"

\* Memory and the buffers hold what was stored, and nothing else.
Accounted ==
  \A b \in Byte :
    /\ Held(b) => \E c \in Core : Issued(c, b)
    /\ \A c \in Core : /\ Waiting(c, b) => Issued(c, b)
                       /\ Issued(c, b) => Held(b) \/ Waiting(c, b)

\* What was stored before a synchronising instruction, or by it, is in memory after it.
Flushed(c) ==
  \A j, k \in DOMAIN test.code[c] :
    j <= k /\ k < pc[c] /\ IsWrite(test.code[c][j]) /\ IsSync(test.code[c][k])
      => Held(test.code[c][j].acc.addr)

ProgInv ==
  /\ test \in Tests /\ WellFormed(test)
  /\ pc \in [Core -> Nat \ {0}]
  /\ \A c \in Core : Deferral(c) /\ Flushed(c)
  /\ Accounted

\* Core c executes the next instruction of its program.
Advances(c) ==
  /\ pc[c] \in DOMAIN test.code[c]
  /\ \E i \in Instruction : i = test.code[c][pc[c]] /\ Effects(c, i)
  /\ pc' = [pc EXCEPT ![c] = @ + 1]

\* The program counter and the instruction it stands at.
LEMMA NextInstruction ==
  ASSUME ProgInv, NEW c \in Core
  PROVE  /\ test.code[c] \in Seq(Instruction)
         /\ DOMAIN test.code[c] = 1..Len(test.code[c])
         /\ pc[c] \in Nat \ {0}
         /\ ~Finished(c) => pc[c] \in DOMAIN test.code[c]
         /\ \A k \in DOMAIN test.code[c] : test.code[c][k] \in Instruction
<1>1. test.code[c] \in Seq(Instruction) /\ pc[c] \in Nat \ {0}
  BY DEF ProgInv, WellFormed, Proper
<1> QED
  BY <1>1 DEF Finished

\* A step of a litmus run loses nothing that is known; it is either an instruction of one
\* core's program or moves only that core's stores.
LEMMA LitmusStep ==
  ASSUME MemInv, ProgInv, LNext
  PROVE  /\ Founded' /\ Monotone /\ UNCHANGED test
         /\ \E c \in Core : (QuietEffects(c) /\ UNCHANGED pc) \/ Advances(c)
<1>1. PICK c \in Core :
        \/ Quiet(c) /\ UNCHANGED <<test, pc>>
        \/ /\ ~Finished(c)
           /\ Perform(c, test.code[c][pc[c]])
           /\ pc' = [pc EXCEPT ![c] = @ + 1]
           /\ UNCHANGED test
  BY DEF LNext, Quiet
<1>2. CASE Quiet(c) /\ UNCHANGED <<test, pc>>
  BY <1>2, QuietStep
<1>3. CASE ~Finished(c) /\ Perform(c, test.code[c][pc[c]]) /\ pc' = [pc EXCEPT ![c] = @ + 1] /\ UNCHANGED test
  <2>0. PICK i \in Instruction : i = test.code[c][pc[c]]
    BY <1>3, NextInstruction
  <2>1. pc[c] \in DOMAIN test.code[c] /\ Final(c)
    BY <1>3, NextInstruction DEF ProgInv, Deferral
  <2>2. i.op = "STR" => DOMAIN pending_loads[c] = {}
    <3>1. pc[c] - 1 \in DOMAIN test.code[c] => pc[c] - 1 + 1 = pc[c]
      BY NextInstruction
    <3> QED BY <2>0, <2>1, <3>1 DEF ProgInv, WellFormed, Proper, Deferral
  <2>3. Perform(c, i)
    BY <1>3, <2>0
  <2>4. Founded' /\ Monotone /\ Effects(c, i)
    BY <2>0, <2>1, <2>2, <2>3, LoadStep, AcquireStep, StoreStep, ReleaseStep, BarrierStep DEF Perform
  <2> QED BY <1>3, <2>0, <2>1, <2>4 DEF Advances
<1> QED
  BY <1>1, <1>2, <1>3

\* No step disturbs what the programs keep.
LEMMA ProgStep ==
  ASSUME MemInv, ProgInv, LNext
  PROVE  ProgInv'
<1>1. PICK c \in Core : (QuietEffects(c) /\ UNCHANGED pc) \/ Advances(c)
  BY LitmusStep
<1>2. Monotone /\ UNCHANGED test
  BY LitmusStep
<1>3. CASE QuietEffects(c) /\ UNCHANGED pc
  <2>1. \A d \in Core, b \in Byte : Issued(d, b)' <=> Issued(d, b)
    BY <1>2, <1>3 DEF Issued
  <2>2. Accounted'
    BY <1>2, <1>3, <2>1 DEF ProgInv, Accounted, QuietEffects, Monotone
  <2>3. \A d \in Core : Deferral(d)'
    BY <1>2, <1>3 DEF ProgInv, Deferral, Final, Reloads, QuietEffects
  <2>4. ASSUME NEW d \in Core PROVE Flushed(d)'
    <3>1. \A k \in DOMAIN test.code[d] : test.code[d][k].acc.addr \in Byte
      BY NextInstruction, OneByte DEF Instruction
    <3> QED BY <1>2, <1>3, <3>1 DEF ProgInv, Flushed, Monotone
  <2> QED BY <1>2, <1>3, <2>2, <2>3, <2>4 DEF ProgInv
<1>4. CASE Advances(c)
  <2>0. PICK i \in Instruction : i = test.code[c][pc[c]] /\ Effects(c, i)
    BY <1>4 DEF Advances
  <2>1. /\ i.acc.addr \in Byte
        /\ pc[c] \in DOMAIN test.code[c] /\ pc[c] \in Nat \ {0}
        /\ pc \in [Core -> Nat \ {0}]
    BY <1>4, NextInstruction, OneByte DEF Advances, Instruction, ProgInv
  <2>2. \A d \in Core : pc'[d] = IF d = c THEN pc[c] + 1 ELSE pc[d]
    BY <1>4, <2>1 DEF Advances
  <2>3. DefersOrSettles(c, i) /\ StoresIfWrite(c, i) /\ SynchronisesIfSync(c, i)
    BY <2>0 DEF Effects
  <2>4. \A d \in Core, b \in Byte :
          Issued(d, b)' <=> Issued(d, b) \/ (d = c /\ IsWrite(i) /\ b = i.acc.addr)
    <3>1. ASSUME NEW d \in Core, d # c, NEW b PROVE Issued(d, b)' <=> Issued(d, b)
      BY <1>2, <2>2, <3>1 DEF Issued
    <3>2. \A k \in DOMAIN test.code[c] : k < pc[c] + 1 <=> k < pc[c] \/ k = pc[c]
      BY <2>1, NextInstruction
    <3>3. ASSUME NEW b PROVE Issued(c, b)' <=> Issued(c, b) \/ (IsWrite(i) /\ b = i.acc.addr)
      BY <1>2, <2>0, <2>1, <2>2, <3>2 DEF Issued
    <3> QED BY <3>1, <3>3
  <2>5. Accounted'
    <3>1. SUFFICES ASSUME NEW b \in Byte, NEW d \in Core
                   PROVE  /\ Held(b)' => \E o \in Core : Issued(o, b)'
                          /\ Waiting(d, b)' => Issued(d, b)'
                          /\ Issued(d, b)' => Held(b)' \/ Waiting(d, b)'
      BY DEF Accounted
    <3>2. Held(b)' => \E o \in Core : Issued(o, b)'
      BY <2>3, <2>4 DEF ProgInv, Accounted, StoresIfWrite
    <3>3. Waiting(d, b)' => Issued(d, b)'
      BY <2>3, <2>4 DEF ProgInv, Accounted, StoresIfWrite
    <3>4. Issued(d, b)' => Held(b)' \/ Waiting(d, b)'
      BY <1>2, <2>3, <2>4 DEF ProgInv, Accounted, StoresIfWrite, Monotone
    <3> QED BY <3>2, <3>3, <3>4
  <2>6. \A d \in Core : Deferral(d)'
    <3>1. ASSUME NEW d \in Core, d # c PROVE Deferral(d)'
      BY <1>2, <2>2, <2>3, <3>1 DEF ProgInv, Deferral, Final, Reloads, DefersOrSettles
    <3>2. Deferral(c)'
      <4>1. pc'[c] - 1 = pc[c]
        BY <2>1, <2>2
      <4> QED BY <1>2, <2>0, <2>1, <2>3, <4>1 DEF Deferral, DefersOrSettles
    <3> QED BY <3>1, <3>2
  <2>7. \A d \in Core : Flushed(d)'
    <3>0. \A d \in Core : \A k \in DOMAIN test.code[d] : test.code[d][k].acc.addr \in Byte
      BY NextInstruction, OneByte DEF Instruction
    <3>1. ASSUME NEW d \in Core, d # c PROVE Flushed(d)'
      BY <1>2, <2>2, <3>0, <3>1 DEF ProgInv, Flushed, Monotone
    <3>2. ASSUME NEW j \in DOMAIN test.code[c], NEW k \in DOMAIN test.code[c],
                 j <= k, k < pc[c] + 1, IsWrite(test.code[c][j]), IsSync(test.code[c][k])
          PROVE  Held(test.code[c][j].acc.addr)'
      <4>1. CASE k < pc[c]
        BY <1>2, <3>0, <3>2, <4>1 DEF ProgInv, Flushed, Monotone
      <4>2. CASE k = pc[c] /\ j < pc[c]
        <5>1. Issued(c, test.code[c][j].acc.addr)
          BY <3>2, <4>2 DEF Issued
        <5>2. ~Waiting(c, test.code[c][j].acc.addr)
          BY <2>0, <2>3, <3>0, <3>2, <4>2 DEF SynchronisesIfSync
        <5>3. Held(test.code[c][j].acc.addr)
          BY <3>0, <5>1, <5>2 DEF ProgInv, Accounted
        <5> QED BY <1>2, <3>0, <5>3 DEF Monotone
      <4>3. CASE k = pc[c] /\ j = pc[c]
        <5>1. i.op = "STLR"
          BY <2>0, <3>2, <4>3 DEF IsWrite, IsSync
        <5>2. Held(i.acc.addr)'
          BY <2>3, <5>1 DEF StoresIfWrite
        <5> QED BY <1>2, <2>0, <4>3, <5>2
      <4>4. j \in Nat /\ k \in Nat
        BY NextInstruction
      <4> QED BY <2>1, <3>2, <4>1, <4>2, <4>3, <4>4
    <3>3. Flushed(c)'
      BY <1>2, <2>2, <3>2 DEF Flushed
    <3> QED BY <3>1, <3>3
  <2>8. pc' \in [Core -> Nat \ {0}]
    BY <1>4, <2>1 DEF Advances
  <2> QED BY <1>2, <2>5, <2>6, <2>7, <2>8 DEF ProgInv
<1> QED
  BY <1>1, <1>3, <1>4

-----------------------------------------------------------------------------
(* The tests.                                                              *)

\* The instructions of the tests.
LEMMA Mnemonics ==
  ASSUME NEW a \in Locations, NEW r \in {r1, r2}
  PROVE  /\ {ldr(a, r), ldar(a, r), str(a), stlr(a), dmb} \subseteq Instruction
         /\ ldr(a, r).op = "LDR" /\ ldr(a, r).acc = a /\ ldr(a, r).reg = r
         /\ ldar(a, r).op = "LDAR" /\ ldar(a, r).acc = a /\ ldar(a, r).reg = r
         /\ str(a).op = "STR" /\ str(a).acc = a
         /\ stlr(a).op = "STLR" /\ stlr(a).acc = a
         /\ dmb.op = "DMB"
  BY DEF ldr, ldar, str, stlr, dmb, Instruction, Locations

\* What each core runs in a test of two programs, and of three.
LEMMA TwoPrograms ==
  ASSUME NEW a, NEW b
  PROVE  /\ Two(a, b)[p0] = a /\ Two(a, b)[p1] = b
         /\ \A c \in Core : c # p0 /\ c # p1 => Two(a, b)[c] = <<>>
  BY LitmusAssumption DEF Two

\* The third program is every further core's.
LEMMA ThreePrograms ==
  ASSUME NEW a, NEW b, NEW d
  PROVE  /\ Three(a, b, d)[p0] = a /\ Three(a, b, d)[p1] = b
         /\ \A c \in Core : c # p0 /\ c # p1 => Three(a, b, d)[c] = d
  BY LitmusAssumption DEF Three

\* X and Y are different bytes, r1 and r2 different registers.
LEMMA TwoLocations ==
  /\ X \in Locations /\ Y \in Locations /\ X # Y
  /\ X.addr \in Byte /\ Y.addr \in Byte /\ X.addr # Y.addr
  /\ \A a \in Locations : (a.addr = X.addr <=> a = X) /\ (a.addr = Y.addr <=> a = Y)
  /\ r1 # r2
<1>1. X \in Locations /\ Y \in Locations /\ Locations = {X, Y} /\ r1 # r2
  BY LitmusAssumption DEF Locations
<1>2. X.addr = 0 /\ Y.addr = 1
  BY DEF X, Y
<1> QED
  BY <1>1, <1>2, OneByte

\* Instruction k of program p loads a into r.
Reads(p, k, a, r) == k \in DOMAIN p /\ IsRead(p[k]) /\ p[k].acc = a /\ p[k].reg = r

\* The program only looks: at Y, into r1; at z, its last instruction, at X, into r2;
\* and at s, in between or with the first, synchronises.
Observer(p, y, s, z) ==
  /\ Reads(p, y, Y, r1) /\ Reads(p, z, X, r2)
  /\ s \in DOMAIN p /\ p[s].op \in {"DMB", "LDAR"} /\ y <= s /\ s < z
  /\ \A k \in DOMAIN p :
       ~IsWrite(p[k]) /\ k <= z /\ (k > y => ~(IsRead(p[k]) /\ p[k].reg = r1))

\* The program stores to Y only behind, or as, a synchronisation that follows a store to X.
Publisher(p) ==
  \A k \in DOMAIN p : IsWrite(p[k]) /\ p[k].acc = Y =>
    \E j, s \in DOMAIN p : j <= s /\ s <= k /\ IsWrite(p[j]) /\ p[j].acc = X /\ IsSync(p[s])

\* The program loads a into r1 and then only stores to b.
Follows(p, a, b) ==
  /\ Reads(p, 1, a, r1)
  /\ \A k \in DOMAIN p : /\ IsRead(p[k]) => k = 1
                         /\ IsWrite(p[k]) => k > 1 /\ p[k].acc = b

\* The program stores to a, synchronises at s and loads b into r1 there or at z, its end.
Crosses(p, a, b, s, z) ==
  /\ 1 \in DOMAIN p /\ IsWrite(p[1]) /\ p[1].acc = a
  /\ s \in DOMAIN p /\ p[s].op \in {"DMB", "LDAR"} /\ 1 < s /\ s <= z
  /\ Reads(p, z, b, r1)
  /\ \A k \in DOMAIN p : k <= z

\* The program stores nothing to a.
Spares(p, a) == \A k \in DOMAIN p : ~(IsWrite(p[k]) /\ p[k].acc = a)

\* The tests in which what was stored to X is passed on through Y.
Passing == MessagePassing \cup WarmReader \cup Causality

\* What the writer of Y had to have seen for X to be stored before it.
Cause == test \in Causality => New(p1, r1)

\* A core that saw Y, and what Y is the consequence of, finds X.
ObserverInv(c, y, s, z) ==
  Observer(test.code[c], y, s, z) /\ New(c, r1) =>
    /\ pc[c] > y => \E d \in Core : Issued(d, Y.addr)
    /\ pc[c] > s /\ Cause => Certain(c, X.addr)
    /\ pc[c] > z /\ Cause => New(c, r2)

PassingInv ==
  test \in Passing =>
    /\ test \in Causality /\ pc[p1] > 1 /\ New(p1, r1) => Held(X.addr)
    /\ \A c \in Core : \A y, s, z \in Nat : ObserverInv(c, y, s, z)

\* A core has loaded the other's store, or cannot but load it.
Got(c, b, z) == IF pc[c] > z THEN New(c, r1) ELSE Certain(c, b)

\* Of two cores that have stored and synchronised, the later one finds the other's store.
CrossingInv ==
  test \in StoreBuffering =>
    \A s, z, u, v \in Nat :
      /\ Crosses(test.code[p0], X, Y, s, z) /\ pc[p0] > s
      /\ Crosses(test.code[p1], Y, X, u, v) /\ pc[p1] > u
      => Got(p0, Y.addr, z) \/ Got(p1, X.addr, v)

\* What a core has loaded was stored by the other, which therefore had loaded before.
FollowingInv ==
  test \in LoadBuffering =>
    /\ pc[p0] > 1 /\ New(p0, r1) => Issued(p1, X.addr)
    /\ pc[p1] > 1 /\ New(p1, r1) => Issued(p0, Y.addr)
    /\ ~(pc[p0] > 1 /\ New(p0, r1) /\ pc[p1] > 1 /\ New(p1, r1))

-----------------------------------------------------------------------------
(* Which shape each program has.                                           *)

\* The programs that write X and then Y.
LEMMA Publishers ==
  ASSUME NEW p \in {<<str(X), dmb, str(Y)>>, <<str(X), stlr(Y)>>}
  PROVE  Proper(p) /\ Publisher(p)
<1>1. CASE p = <<str(X), dmb, str(Y)>>
  BY <1>1, Mnemonics, TwoLocations DEF Proper, Publisher, IsWrite, IsSync
<1>2. CASE p = <<str(X), stlr(Y)>>
  BY <1>2, Mnemonics, TwoLocations DEF Proper, Publisher, IsWrite, IsSync
<1> QED
  BY <1>1, <1>2

\* The programs that look at Y and then at X.
LEMMA Observers ==
  /\ Observer(<<ldr(Y, r1), dmb, ldr(X, r2)>>, 1, 2, 3)
  /\ Observer(<<ldar(Y, r1), ldr(X, r2)>>, 1, 1, 2)
  /\ Observer(<<ldr(X, r2), ldr(X, r2), ldar(Y, r1), ldr(X, r2)>>, 3, 3, 4)
  /\ Proper(<<ldr(Y, r1), dmb, ldr(X, r2)>>)
  /\ Proper(<<ldar(Y, r1), ldr(X, r2)>>)
  /\ Proper(<<ldr(X, r2), ldr(X, r2), ldar(Y, r1), ldr(X, r2)>>)
<1>1. /\ Observer(<<ldr(Y, r1), dmb, ldr(X, r2)>>, 1, 2, 3)
      /\ Proper(<<ldr(Y, r1), dmb, ldr(X, r2)>>)
  BY Mnemonics, TwoLocations DEF Proper, Observer, Reads, IsRead, IsWrite
<1>2. /\ Observer(<<ldar(Y, r1), ldr(X, r2)>>, 1, 1, 2)
      /\ Proper(<<ldar(Y, r1), ldr(X, r2)>>)
  BY Mnemonics, TwoLocations DEF Proper, Observer, Reads, IsRead, IsWrite
<1>3. /\ Observer(<<ldr(X, r2), ldr(X, r2), ldar(Y, r1), ldr(X, r2)>>, 3, 3, 4)
      /\ Proper(<<ldr(X, r2), ldr(X, r2), ldar(Y, r1), ldr(X, r2)>>)
  BY Mnemonics, TwoLocations DEF Proper, Observer, Reads, IsRead, IsWrite
<1> QED
  BY <1>1, <1>2, <1>3

\* The programs of the store buffering tests.
LEMMA Crossers ==
  ASSUME NEW a \in Locations, NEW b \in Locations
  PROVE  /\ Crosses(<<str(a), dmb, ldr(b, r1)>>, a, b, 2, 3)
         /\ Crosses(<<stlr(a), ldar(b, r1)>>, a, b, 2, 2)
         /\ Proper(<<str(a), dmb, ldr(b, r1)>>)
         /\ Proper(<<stlr(a), ldar(b, r1)>>)
<1>1. Crosses(<<str(a), dmb, ldr(b, r1)>>, a, b, 2, 3) /\ Proper(<<str(a), dmb, ldr(b, r1)>>)
  BY Mnemonics DEF Proper, Crosses, Reads, IsRead, IsWrite
<1>2. Crosses(<<stlr(a), ldar(b, r1)>>, a, b, 2, 2) /\ Proper(<<stlr(a), ldar(b, r1)>>)
  BY Mnemonics DEF Proper, Crosses, Reads, IsRead, IsWrite
<1> QED
  BY <1>1, <1>2

\* The programs of the load buffering tests, and of the core in the middle of the causality
\* tests.
LEMMA Followers ==
  ASSUME NEW a \in Locations, NEW b \in Locations,
         NEW p \in {<<ldr(a, r1), dmb, str(b)>>, <<ldr(a, r1), stlr(b)>>,
                    <<ldar(a, r1), str(b)>>, <<ldar(a, r1), stlr(b)>>}
  PROVE  Follows(p, a, b) /\ Proper(p)
<1>1. CASE p = <<ldr(a, r1), dmb, str(b)>>
  BY <1>1, Mnemonics DEF Proper, Follows, Reads, IsRead, IsWrite
<1>2. CASE p = <<ldr(a, r1), stlr(b)>>
  BY <1>2, Mnemonics DEF Proper, Follows, Reads, IsRead, IsWrite
<1>3. CASE p = <<ldar(a, r1), str(b)>>
  BY <1>3, Mnemonics DEF Proper, Follows, Reads, IsRead, IsWrite
<1>4. CASE p = <<ldar(a, r1), stlr(b)>>
  BY <1>4, Mnemonics DEF Proper, Follows, Reads, IsRead, IsWrite
<1> QED
  BY <1>1, <1>2, <1>3, <1>4

\* The program stores nothing.
Inert(p) == \A k \in DOMAIN p : ~IsWrite(p[k])

\* A core the test does not use has nothing to do.
LEMMA NoProgram == Proper(<<>>) /\ Inert(<<>>)
  BY DEF Proper, Inert

\* The shapes in the message passing tests, and the outcome they forbid.
LEMMA MessagePrograms ==
  ASSUME NEW t \in MessagePassing \cup WarmReader
  PROVE  /\ WellFormed(t)
         /\ Publisher(t.code[p0]) /\ \A c \in Core \ {p0} : Inert(t.code[c])
         /\ \E y, s, z \in Nat : Observer(t.code[p1], y, s, z)
         /\ t.forbidden = {fresh(p1, r1), old(p1, r2)}
<1>1. PICK w \in {<<str(X), dmb, str(Y)>>, <<str(X), stlr(Y)>>},
           r \in {<<ldr(Y, r1), dmb, ldr(X, r2)>>, <<ldar(Y, r1), ldr(X, r2)>>,
                  <<ldr(X, r2), ldr(X, r2), ldar(Y, r1), ldr(X, r2)>>} :
        t = [code |-> Two(w, r), forbidden |-> {fresh(p1, r1), old(p1, r2)}]
  BY DEF MessagePassing, WarmReader
<1>2. Proper(w) /\ Publisher(w)
  BY Publishers
<1>3. Proper(r) /\ \E y, s, z \in Nat : Observer(r, y, s, z)
  BY Observers
<1>4. Inert(r)
  BY <1>3 DEF Observer, Inert
<1>5. t.code = Two(w, r) /\ t.forbidden = {fresh(p1, r1), old(p1, r2)}
  BY <1>1
<1> QED
  BY <1>2, <1>3, <1>4, <1>5, TwoPrograms, NoProgram, LitmusAssumption DEF WellFormed

\* The shapes in the causality tests.
LEMMA CausalityPrograms ==
  ASSUME NEW t \in Causality
  PROVE  /\ WellFormed(t)
         /\ Spares(t.code[p0], Y) /\ Follows(t.code[p1], X, Y)
         /\ \A c \in Core \ {p0, p1} : Inert(t.code[c])
         /\ \E y, s, z \in Nat : Observer(t.code[p2], y, s, z)
         /\ t.forbidden = {fresh(p1, r1), fresh(p2, r1), old(p2, r2)}
<1>1. PICK f \in {<<ldr(X, r1), dmb, str(Y)>>, <<ldar(X, r1), stlr(Y)>>},
           r \in {<<ldr(Y, r1), dmb, ldr(X, r2)>>, <<ldar(Y, r1), ldr(X, r2)>>} :
        t = [code |-> Three(<<str(X)>>, f, r),
             forbidden |-> {fresh(p1, r1), fresh(p2, r1), old(p2, r2)}]
  BY DEF Causality
<1>2. Proper(<<str(X)>>) /\ Spares(<<str(X)>>, Y)
  BY Mnemonics, TwoLocations DEF Proper, Spares
<1>3. Follows(f, X, Y) /\ Proper(f)
  BY Followers, TwoLocations
<1>4. Proper(r) /\ \E y, s, z \in Nat : Observer(r, y, s, z)
  BY Observers
<1>5. Inert(r)
  BY <1>4 DEF Observer, Inert
<1>6. /\ t.code = Three(<<str(X)>>, f, r)
      /\ t.forbidden = {fresh(p1, r1), fresh(p2, r1), old(p2, r2)}
  BY <1>1
<1> QED
  BY <1>2, <1>3, <1>4, <1>5, <1>6, ThreePrograms, LitmusAssumption DEF WellFormed

\* The shapes in the store buffering tests.
LEMMA CrossingPrograms ==
  ASSUME NEW t \in StoreBuffering
  PROVE  /\ WellFormed(t)
         /\ \E s, z \in Nat : Crosses(t.code[p0], X, Y, s, z)
         /\ \E s, z \in Nat : Crosses(t.code[p1], Y, X, s, z)
         /\ t.forbidden = {old(p0, r1), old(p1, r1)}
<1>1. PICK p \in {<<str(X), dmb, ldr(Y, r1)>>, <<stlr(X), ldar(Y, r1)>>},
           q \in {<<str(Y), dmb, ldr(X, r1)>>, <<stlr(Y), ldar(X, r1)>>} :
        t = [code |-> Two(p, q), forbidden |-> {old(p0, r1), old(p1, r1)}]
  BY DEF StoreBuffering
<1>2. Proper(p) /\ \E s, z \in Nat : Crosses(p, X, Y, s, z)
  BY Crossers, TwoLocations
<1>3. Proper(q) /\ \E s, z \in Nat : Crosses(q, Y, X, s, z)
  BY Crossers, TwoLocations
<1>4. t.code = Two(p, q) /\ t.forbidden = {old(p0, r1), old(p1, r1)}
  BY <1>1
<1> QED
  BY <1>2, <1>3, <1>4, TwoPrograms, NoProgram DEF WellFormed

\* The shapes in the load buffering tests.
LEMMA FollowingPrograms ==
  ASSUME NEW t \in LoadBuffering
  PROVE  /\ WellFormed(t)
         /\ Follows(t.code[p0], X, Y) /\ Follows(t.code[p1], Y, X)
         /\ \A c \in Core \ {p0, p1} : Inert(t.code[c])
         /\ t.forbidden = {fresh(p0, r1), fresh(p1, r1)}
<1>1. PICK p \in {<<ldr(X, r1), dmb, str(Y)>>, <<ldr(X, r1), stlr(Y)>>},
           q \in {<<ldr(Y, r1), dmb, str(X)>>, <<ldar(Y, r1), str(X)>>} :
        t = [code |-> Two(p, q), forbidden |-> {fresh(p0, r1), fresh(p1, r1)}]
  BY DEF LoadBuffering
<1>2. Follows(p, X, Y) /\ Proper(p)
  BY Followers, TwoLocations
<1>3. Follows(q, Y, X) /\ Proper(q)
  BY Followers, TwoLocations
<1>4. t.code = Two(p, q) /\ t.forbidden = {fresh(p0, r1), fresh(p1, r1)}
  BY <1>1
<1> QED
  BY <1>2, <1>3, <1>4, TwoPrograms, NoProgram, LitmusAssumption DEF WellFormed

\* Every test's programs are as the general part needs them.
LEMMA AllWellFormed ==
  \A t \in AllTests : WellFormed(t)
  BY MessagePrograms, CausalityPrograms, CrossingPrograms, FollowingPrograms DEF AllTests

-----------------------------------------------------------------------------
(* What a step does, seen by each core's program.                          *)

\* Core c neither executes an instruction nor loses or gains what it has loaded.
Rests(c) == pc'[c] = pc[c] /\ \A r \in Reg : New(c, r)' <=> New(c, r)

\* At most one core advances.
LEMMA Turns ==
  ASSUME MemInv, ProgInv, LNext, NEW d \in Core
  PROVE  \/ Rests(d)
         \/ Advances(d) /\ \A e \in Core \ {d} : Rests(e)
<1>1. PICK c \in Core : (QuietEffects(c) /\ UNCHANGED pc) \/ Advances(c)
  BY LitmusStep
<1>2. CASE QuietEffects(c) /\ UNCHANGED pc
  BY <1>2 DEF QuietEffects, Rests, New
<1>3. CASE Advances(c)
  <2>1. PICK i \in Instruction : i = test.code[c][pc[c]] /\ Effects(c, i)
    BY <1>3 DEF Advances
  <2>2. \A e \in Core \ {c} : pc'[e] = pc[e]
    BY <1>3 DEF Advances, ProgInv
  <2>3. \A e \in Core \ {c} : Rests(e)
    BY <2>1, <2>2 DEF Rests, Effects, LoadsIfRead
  <2> QED BY <1>3, <2>3
<1> QED
  BY <1>1, <1>2, <1>3

\* What was issued stays issued.
LEMMA IssuedStays ==
  ASSUME MemInv, ProgInv, LNext, NEW d \in Core, NEW b, Issued(d, b)
  PROVE  Issued(d, b)'
<1>1. pc'[d] \in {pc[d], pc[d] + 1} /\ pc[d] \in Nat
  BY Turns DEF Rests, Advances, ProgInv
<1>2. UNCHANGED test
  BY LitmusStep
<1>3. PICK k \in DOMAIN test.code[d] :
        k < pc[d] /\ IsWrite(test.code[d][k]) /\ test.code[d][k].acc.addr = b
  BY DEF Issued
<1>4. k \in Nat
  BY NextInstruction
<1>5. k < pc'[d]
  BY <1>1, <1>3, <1>4
<1> QED
  BY <1>2, <1>3, <1>5 DEF Issued

\* The instruction that executes, for the programs' shapes.
LEMMA Advancing ==
  ASSUME MemInv, ProgInv, NEW c \in Core, Advances(c)
  PROVE  /\ pc[c] \in DOMAIN test.code[c] /\ pc[c] \in Nat /\ pc'[c] = pc[c] + 1
         /\ \A r \in Reg : ~(IsRead(test.code[c][pc[c]]) /\ test.code[c][pc[c]].reg = r)
              => (New(c, r)' <=> New(c, r))
         /\ test.code[c][pc[c]].op \in {"DMB", "LDAR"} =>
              \A b \in Byte : Held(b) => Certain(c, b)'
<1>1. PICK i \in Instruction : i = test.code[c][pc[c]] /\ Effects(c, i)
  BY DEF Advances
<1>2. pc[c] \in DOMAIN test.code[c] /\ pc[c] \in Nat /\ pc'[c] = pc[c] + 1
  BY DEF Advances, ProgInv
<1> QED
  BY <1>1, <1>2 DEF Effects, LoadsIfRead, SynchronisesIfSync

\* What the load that executes sees.
LEMMA Looking ==
  ASSUME MemInv, ProgInv, NEW c \in Core, Advances(c),
         NEW a \in Locations, NEW r \in {r1, r2}, Reads(test.code[c], pc[c], a, r)
  PROVE  /\ New(c, r)' => Held(a.addr) \/ Issued(c, a.addr)
         /\ New(c, r)' => \E d \in Core : Issued(d, a.addr)
         /\ Certain(c, a.addr) => New(c, r)'
         /\ test.code[c][pc[c]].op = "LDAR" /\ Held(a.addr) => New(c, r)'
<1>1. PICK i \in Instruction : i = test.code[c][pc[c]] /\ Effects(c, i)
  BY DEF Advances
<1>2. IsRead(i) /\ i.acc = a /\ i.reg = r /\ a.addr \in Byte
  BY <1>1, OneByte DEF Reads
<1>3. New(c, r)' => Held(a.addr) \/ Waiting(c, a.addr)
  BY <1>1, <1>2 DEF Effects, LoadsIfRead
<1>4. /\ Waiting(c, a.addr) => Issued(c, a.addr)
      /\ Held(a.addr) => \E d \in Core : Issued(d, a.addr)
  BY <1>2 DEF ProgInv, Accounted
<1>5. /\ Certain(c, a.addr) => New(c, r)'
      /\ test.code[c][pc[c]].op = "LDAR" /\ Held(a.addr) => New(c, r)'
  BY <1>1, <1>2 DEF Effects, LoadsIfRead
<1> QED
  BY <1>3, <1>4, <1>5

-----------------------------------------------------------------------------
(* Message passing and causality.                                          *)

\* A store to Y, if it could have been caused by X, came after X was in memory.
LEMMA PassedOn ==
  ASSUME ProgInv, PassingInv, test \in Passing, NEW d \in Core, Issued(d, Y.addr)
  PROVE  /\ Cause => Held(X.addr)
         /\ test \in Causality => pc[p1] > 1
<1>1. PICK k \in DOMAIN test.code[d] :
        k < pc[d] /\ IsWrite(test.code[d][k]) /\ test.code[d][k].acc = Y
  <2>1. PICK k \in DOMAIN test.code[d] :
          k < pc[d] /\ IsWrite(test.code[d][k]) /\ test.code[d][k].acc.addr = Y.addr
    BY DEF Issued
  <2>2. test.code[d][k].acc \in Locations
    BY NextInstruction DEF Instruction
  <2> QED BY <2>1, <2>2, TwoLocations
<1>2. k \in Nat /\ pc[d] \in Nat
  BY NextInstruction
<1>3. CASE test \in Causality
  <2>1. d = p1
    BY <1>1, <1>3, CausalityPrograms DEF Spares, Inert
  <2>2. k > 1
    BY <1>1, <1>3, <2>1, CausalityPrograms DEF Follows
  <2> QED BY <1>1, <1>2, <1>3, <2>1, <2>2 DEF PassingInv, Cause
<1>4. CASE test \in MessagePassing \cup WarmReader /\ test \notin Causality
  <2>1. d = p0
    BY <1>1, <1>4, MessagePrograms DEF Inert
  <2>2. PICK j, s \in DOMAIN test.code[d] :
          /\ j <= s /\ s <= k
          /\ IsWrite(test.code[d][j]) /\ test.code[d][j].acc = X /\ IsSync(test.code[d][s])
    BY <1>1, <1>4, <2>1, MessagePrograms DEF Publisher
  <2>3. s < pc[d]
    BY <1>1, <1>2, <2>2, NextInstruction
  <2>4. Held(X.addr)
    BY <2>2, <2>3 DEF ProgInv, Flushed
  <2> QED BY <1>4, <2>4
<1> QED
  BY <1>3, <1>4 DEF Passing

\* Once Y was stored, nothing becomes its cause any more.
LEMMA CauseStays ==
  ASSUME MemInv, ProgInv, PassingInv, test \in Passing, LNext,
         NEW d \in Core, Issued(d, Y.addr), Cause'
  PROVE  Cause
<1>1. SUFFICES ASSUME test \in Causality PROVE New(p1, r1)' <=> New(p1, r1)
  BY LitmusStep DEF Cause
<1>2. pc[p1] > 1 /\ p1 \in Core /\ r1 \in Reg
  BY <1>1, PassedOn, LitmusAssumption
<1>3. CASE Rests(p1)
  BY <1>2, <1>3 DEF Rests
<1>4. CASE Advances(p1)
  <2>1. ~IsRead(test.code[p1][pc[p1]])
    BY <1>1, <1>2, <1>4, Advancing, CausalityPrograms DEF Follows
  <2> QED BY <1>2, <1>4, <2>1, Advancing
<1> QED
  BY <1>2, <1>3, <1>4, Turns

\* The core in the middle of a causality test saw X only after it was in memory.
LEMMA RelayStep ==
  ASSUME MemInv, ProgInv, PassingInv, test \in Causality, LNext, pc'[p1] > 1, New(p1, r1)'
  PROVE  Held(X.addr)'
<1>1. p1 \in Core /\ r1 \in Reg /\ X.addr \in Byte /\ Monotone /\ pc[p1] \in Nat
  BY LitmusAssumption, TwoLocations, LitmusStep DEF ProgInv
<1>2. pc[p1] > 1 /\ New(p1, r1) => Held(X.addr)
  BY DEF PassingInv, Passing
<1>3. CASE Rests(p1)
  BY <1>1, <1>2, <1>3 DEF Rests, Monotone
<1>4. CASE Advances(p1) /\ pc[p1] > 1
  <2>1. ~IsRead(test.code[p1][pc[p1]])
    BY <1>1, <1>4, Advancing, CausalityPrograms DEF Follows
  <2> QED BY <1>1, <1>2, <1>4, <2>1, Advancing DEF Monotone
<1>5. CASE Advances(p1) /\ pc[p1] = 1
  <2>1. Reads(test.code[p1], pc[p1], X, r1)
    BY <1>5, CausalityPrograms DEF Follows
  <2>2. Held(X.addr) \/ Issued(p1, X.addr)
    BY <1>1, <1>5, <2>1, Looking, TwoLocations
  <2>3. ~Issued(p1, X.addr)
    BY CausalityPrograms, TwoLocations DEF Follows, Issued
  <2> QED BY <1>1, <2>2, <2>3 DEF Monotone
<1>6. Advances(p1) => pc[p1] > 1 \/ pc[p1] = 1
  BY <1>1 DEF ProgInv
<1> QED
  BY <1>1, <1>3, <1>4, <1>5, <1>6, Turns

\* The observer goes on finding X behind Y.
LEMMA ObserverStep ==
  ASSUME MemInv, ProgInv, PassingInv, test \in Passing, LNext,
         NEW c \in Core, NEW y \in Nat, NEW s \in Nat, NEW z \in Nat
  PROVE  ObserverInv(c, y, s, z)'
<1>1. UNCHANGED test /\ Monotone
  BY LitmusStep
<1>2. SUFFICES ASSUME Observer(test.code[c], y, s, z), New(c, r1)'
               PROVE  /\ pc'[c] > y => \E d \in Core : Issued(d, Y.addr)'
                      /\ pc'[c] > s /\ Cause' => Certain(c, X.addr)'
                      /\ pc'[c] > z /\ Cause' => New(c, r2)'
  BY <1>1 DEF ObserverInv
<1>3. /\ X.addr \in Byte /\ r1 \in Reg /\ r2 \in Reg /\ r1 # r2
      /\ X \in Locations /\ Y \in Locations /\ pc[c] \in Nat
      /\ y <= s /\ s < z
  BY <1>2, TwoLocations, LitmusAssumption DEF ProgInv, Observer
<1>4. New(c, r1) =>
        /\ pc[c] > y => \E d \in Core : Issued(d, Y.addr)
        /\ pc[c] > s /\ Cause => Certain(c, X.addr)
        /\ pc[c] > z /\ Cause => New(c, r2)
  BY <1>2 DEF PassingInv, ObserverInv
<1>5. CASE Rests(c)
  <2>1. New(c, r1) /\ pc'[c] = pc[c] /\ (New(c, r2)' <=> New(c, r2))
    BY <1>2, <1>3, <1>5 DEF Rests
  <2>2. pc[c] > y /\ Cause' => Cause
    BY <1>4, <2>1, CauseStays
  <2> QED BY <1>1, <1>3, <1>4, <2>1, <2>2, IssuedStays DEF Monotone
<1>6. CASE Advances(c)
  <2>1. /\ pc[c] \in DOMAIN test.code[c] /\ pc'[c] = pc[c] + 1 /\ pc[c] <= z
    BY <1>2, <1>6, Advancing DEF Observer
  <2>2. pc[c] > y => New(c, r1)
    <3>1. pc[c] > y => ~(IsRead(test.code[c][pc[c]]) /\ test.code[c][pc[c]].reg = r1)
      BY <1>2, <2>1 DEF Observer
    <3> QED BY <1>2, <1>3, <1>6, <3>1, Advancing
  <2>3. pc[c] >= y => \E d \in Core : Issued(d, Y.addr)
    <3>1. CASE pc[c] > y
      BY <1>4, <2>2, <3>1
    <3>2. CASE pc[c] = y
      <4>1. Reads(test.code[c], pc[c], Y, r1)
        BY <1>2, <3>2 DEF Observer
      <4> QED BY <1>2, <1>3, <1>6, <4>1, Looking
    <3> QED BY <1>3, <3>1, <3>2
  <2>4. pc[c] >= y /\ Cause' => Cause /\ Held(X.addr)
    BY <2>3, CauseStays, PassedOn
  <2>5. pc'[c] > y => \E d \in Core : Issued(d, Y.addr)'
    BY <1>3, <2>1, <2>3, IssuedStays
  <2>6. ASSUME pc'[c] > s, Cause' PROVE Certain(c, X.addr)'
    <3>1. CASE pc[c] > s
      BY <1>1, <1>3, <1>4, <2>2, <2>4, <2>6, <3>1 DEF Monotone
    <3>2. CASE pc[c] = s
      BY <1>2, <1>3, <1>6, <2>4, <2>6, <3>2, Advancing DEF Observer
    <3> QED BY <1>3, <2>1, <2>6, <3>1, <3>2
  <2>7. ASSUME pc'[c] > z, Cause' PROVE New(c, r2)'
    <3>1. pc[c] = z
      BY <1>3, <2>1, <2>7
    <3>2. Certain(c, X.addr)
      BY <1>3, <1>4, <2>2, <2>4, <2>7, <3>1
    <3>3. Reads(test.code[c], pc[c], X, r2)
      BY <1>2, <3>1 DEF Observer
    <3> QED BY <1>3, <1>6, <3>2, <3>3, Looking
  <2> QED BY <2>5, <2>6, <2>7
<1> QED
  BY <1>5, <1>6, Turns

\* No step disturbs what message passing and causality keep.
LEMMA PassingStep ==
  ASSUME MemInv, ProgInv, PassingInv, LNext
  PROVE  PassingInv'
<1>1. UNCHANGED test
  BY LitmusStep
<1>2. ASSUME test \in Causality PROVE (pc[p1] > 1 /\ New(p1, r1) => Held(X.addr))'
  BY <1>2, RelayStep
<1>3. ASSUME test \in Passing, NEW c \in Core, NEW y \in Nat, NEW s \in Nat, NEW z \in Nat
      PROVE  ObserverInv(c, y, s, z)'
  BY <1>3, ObserverStep
<1> QED
  BY <1>1, <1>2, <1>3 DEF PassingInv

-----------------------------------------------------------------------------
(* Store buffering and load buffering.                                     *)

\* Of two crossing programs, one step of one of them.
LEMMA CrossingSide ==
  ASSUME MemInv, ProgInv, LNext,
         NEW c \in Core, NEW d \in Core \ {c}, NEW a \in Locations, NEW b \in Locations,
         NEW s \in Nat, NEW z \in Nat, NEW u \in Nat, NEW v \in Nat,
         Crosses(test.code[c], a, b, s, z), Crosses(test.code[d], b, a, u, v),
         pc[c] > s /\ pc[d] > u => Got(c, b.addr, z) \/ Got(d, a.addr, v),
         Advances(c), Rests(d), pc'[c] > s, pc'[d] > u
  PROVE  Got(c, b.addr, z)' \/ Got(d, a.addr, v)'
<1>1. /\ a.addr \in Byte /\ b.addr \in Byte /\ r1 \in Reg
      /\ Monotone /\ pc[c] \in Nat /\ pc[d] \in Nat
      /\ 1 < s /\ s <= z /\ 1 < u /\ u <= v
      /\ pc[c] \in DOMAIN test.code[c] /\ pc[c] <= z /\ pc'[c] = pc[c] + 1
  BY OneByte, LitmusAssumption, LitmusStep, Advancing DEF ProgInv, Crosses
<1>2. pc[d] > u
  BY DEF Rests
<1>3. Got(d, a.addr, v) => Got(d, a.addr, v)'
  BY <1>1 DEF Got, Rests, Monotone
<1>4. Held(b.addr)
  <2>1. 1 \in DOMAIN test.code[d] /\ u \in DOMAIN test.code[d] /\ IsWrite(test.code[d][1])
        /\ test.code[d][1].acc = b /\ IsSync(test.code[d][u])
    BY DEF Crosses, IsSync
  <2> QED BY <1>1, <1>2, <2>1 DEF ProgInv, Flushed
<1>5. CASE pc[c] = z
  <2>1. Reads(test.code[c], pc[c], b, r1)
    BY <1>5 DEF Crosses
  <2>2. CASE s = z
    <3>1. test.code[c][pc[c]].op = "LDAR"
      BY <1>5, <2>1, <2>2 DEF Crosses, Reads, IsRead
    <3>2. New(c, r1)'
      BY <1>4, <2>1, <3>1, Looking
    <3> QED BY <1>1, <1>5, <3>2 DEF Got
  <2>3. CASE s < z
    <3>1. Got(c, b.addr, z) => New(c, r1)'
      BY <1>1, <1>5, <2>1, Looking DEF Got
    <3>2. New(c, r1)' => Got(c, b.addr, z)'
      BY <1>1, <1>5 DEF Got
    <3> QED BY <1>2, <1>3, <1>5, <2>3, <3>1, <3>2
  <2> QED BY <1>1, <2>2, <2>3
<1>6. CASE pc[c] < z
  <2>1. Certain(c, b.addr)' => Got(c, b.addr, z)'
    BY <1>1, <1>6 DEF Got
  <2>2. CASE pc[c] = s
    BY <1>1, <1>4, <2>1, <2>2, Advancing DEF Crosses
  <2>3. CASE pc[c] > s
    BY <1>1, <1>2, <1>3, <1>6, <2>1, <2>3 DEF Got, Monotone
  <2> QED BY <1>1, <2>2, <2>3
<1> QED
  BY <1>1, <1>5, <1>6

\* No step disturbs what store buffering keeps.
LEMMA CrossingStep ==
  ASSUME MemInv, ProgInv, CrossingInv, LNext
  PROVE  CrossingInv'
<1>1. UNCHANGED test /\ Monotone
  BY LitmusStep
<1>2. SUFFICES ASSUME test \in StoreBuffering,
                      NEW s \in Nat, NEW z \in Nat, NEW u \in Nat, NEW v \in Nat,
                      Crosses(test.code[p0], X, Y, s, z), pc'[p0] > s,
                      Crosses(test.code[p1], Y, X, u, v), pc'[p1] > u
               PROVE  Got(p0, Y.addr, z)' \/ Got(p1, X.addr, v)'
  BY <1>1 DEF CrossingInv
<1>3. /\ p0 \in Core /\ p1 \in Core /\ p0 # p1 /\ r1 \in Reg
      /\ X \in Locations /\ Y \in Locations /\ X.addr \in Byte /\ Y.addr \in Byte
  BY LitmusAssumption, TwoLocations
<1>4. pc[p0] > s /\ pc[p1] > u => Got(p0, Y.addr, z) \/ Got(p1, X.addr, v)
  BY <1>2 DEF CrossingInv
<1>5. CASE Rests(p0) /\ Rests(p1)
  BY <1>1, <1>2, <1>3, <1>4, <1>5 DEF Rests, Got, Monotone
<1>6. CASE Advances(p0) /\ Rests(p1)
  BY <1>2, <1>3, <1>4, <1>6, CrossingSide
<1>7. CASE Advances(p1) /\ Rests(p0)
  BY <1>2, <1>3, <1>4, <1>7, CrossingSide
<1> QED
  BY <1>3, <1>5, <1>6, <1>7, Turns

\* One step of one of two programs that load first and store then: if it loads what the
\* other stored, the other had loaded before, and not what this one has yet to store.
LEMMA FollowingSide ==
  ASSUME MemInv, ProgInv, LNext,
         NEW c \in Core, NEW d \in Core \ {c}, NEW a \in Locations, NEW b \in Locations, a # b,
         Follows(test.code[c], a, b), Follows(test.code[d], b, a),
         \A e \in Core \ {c, d} : Inert(test.code[e]),
         pc[c] > 1 /\ New(c, r1) => Issued(d, a.addr),
         pc[d] > 1 /\ New(d, r1) => Issued(c, b.addr),
         ~(pc[c] > 1 /\ New(c, r1) /\ pc[d] > 1 /\ New(d, r1)),
         Advances(c), Rests(d)
  PROVE  /\ pc'[c] > 1 /\ New(c, r1)' => Issued(d, a.addr)'
         /\ ~(pc'[c] > 1 /\ New(c, r1)' /\ pc'[d] > 1 /\ New(d, r1)')
<1>1. /\ r1 \in Reg /\ pc[c] \in Nat \ {0} /\ pc[d] \in Nat
      /\ pc[c] \in DOMAIN test.code[c] /\ pc'[c] = pc[c] + 1
      /\ a.addr # b.addr
  BY LitmusAssumption, TwoLocations, Advancing DEF ProgInv, Locations
<1>2. CASE pc[c] > 1
  <2>1. New(c, r1)' <=> New(c, r1)
    BY <1>1, <1>2, Advancing DEF Follows
  <2> QED BY <1>1, <1>2, <2>1, IssuedStays DEF Rests
<1>3. CASE pc[c] = 1
  <2>1. Reads(test.code[c], pc[c], a, r1)
    BY <1>3 DEF Follows
  <2>2. New(c, r1)' => Issued(d, a.addr)
    <3>1. \A e \in Core \ {d} : ~Issued(e, a.addr)
      BY <1>1 DEF Follows, Inert, Issued
    <3> QED BY <2>1, <3>1, Looking
  <2>3. ~Issued(c, b.addr)
    <3>1. \A k \in DOMAIN test.code[c] : k < pc[c] => k < 1
      BY <1>3
    <3>2. \A k \in DOMAIN test.code[c] : k \in Nat \ {0}
      BY NextInstruction
    <3> QED BY <3>1, <3>2 DEF Issued
  <2> QED BY <1>1, <2>2, <2>3, IssuedStays DEF Rests
<1> QED
  BY <1>1, <1>2, <1>3

\* No step disturbs what load buffering keeps.
LEMMA FollowingStep ==
  ASSUME MemInv, ProgInv, FollowingInv, LNext
  PROVE  FollowingInv'
<1>1. UNCHANGED test
  BY LitmusStep
<1>2. SUFFICES ASSUME test \in LoadBuffering
               PROVE  /\ pc'[p0] > 1 /\ New(p0, r1)' => Issued(p1, X.addr)'
                      /\ pc'[p1] > 1 /\ New(p1, r1)' => Issued(p0, Y.addr)'
                      /\ ~(pc'[p0] > 1 /\ New(p0, r1)' /\ pc'[p1] > 1 /\ New(p1, r1)')
  BY <1>1 DEF FollowingInv
<1>3. /\ p0 \in Core /\ p1 \in Core /\ p0 # p1 /\ r1 \in Reg
      /\ X \in Locations /\ Y \in Locations /\ X # Y
  BY LitmusAssumption, TwoLocations
<1>4. /\ pc[p0] > 1 /\ New(p0, r1) => Issued(p1, X.addr)
      /\ pc[p1] > 1 /\ New(p1, r1) => Issued(p0, Y.addr)
      /\ ~(pc[p0] > 1 /\ New(p0, r1) /\ pc[p1] > 1 /\ New(p1, r1))
  BY <1>2 DEF FollowingInv
<1>5. /\ Follows(test.code[p0], X, Y) /\ Follows(test.code[p1], Y, X)
      /\ \A e \in Core \ {p0, p1} : Inert(test.code[e])
  BY <1>2, FollowingPrograms
<1>6. \A c \in Core : Rests(c) /\ pc'[c] > 1 /\ New(c, r1)' => pc[c] > 1 /\ New(c, r1)
  BY <1>3 DEF Rests
<1>7. CASE Rests(p0) /\ Rests(p1)
  BY <1>3, <1>4, <1>6, <1>7, IssuedStays
<1>8. CASE Advances(p0) /\ Rests(p1)
  BY <1>3, <1>4, <1>5, <1>6, <1>8, FollowingSide, IssuedStays
<1>9. CASE Advances(p1) /\ Rests(p0)
  BY <1>3, <1>4, <1>5, <1>6, <1>9, FollowingSide, IssuedStays
<1> QED
  BY <1>3, <1>7, <1>8, <1>9, Turns

-----------------------------------------------------------------------------
(* The theorem.                                                            *)

\* A litmus run is a run of the memory system.
LEMMA LitmusRuns ==
  ASSUME ProgInv, LNext
  PROVE  Next
<1>1. PICK c \in Core :
        \/ Quiet(c)
        \/ ~Finished(c) /\ Perform(c, test.code[c][pc[c]])
  BY DEF LNext, Quiet
<1>2. CASE Quiet(c)
  BY <1>2 DEF Quiet, Next, Silent
<1>3. CASE ~Finished(c) /\ Perform(c, test.code[c][pc[c]])
  <2>1. PICK i \in Instruction : i = test.code[c][pc[c]]
    BY <1>3, NextInstruction
  <2>2. Perform(c, i) /\ i.acc \in Access /\ i.reg \in Reg
    BY <1>3, <2>1, OneByte, LitmusAssumption DEF Instruction
  <2>3. /\ i.op = "LDR" => "LDR" \in Instr
        /\ i.op = "LDAR" => "LDAR" \in Instr
        /\ i.op = "STR" => "STR" \in Instr
        /\ i.op = "STLR" => "STLR" \in Instr
        /\ i.op = "DMB" => "DMB" \in Instr
    BY LitmusAssumption
  <2> QED BY <2>2, <2>3 DEF Perform, Next, Silent, Storing, Loading
<1> QED
  BY <1>1, <1>2, <1>3

\* The litmus invariant, and what it rests on.
LitmusInv == MemInv /\ ProgInv /\ PassingInv /\ CrossingInv /\ FollowingInv

\* The invariant holds before the first step.
LEMMA LitmusInit == LInit => LitmusInv
<1> SUFFICES ASSUME LInit PROVE LitmusInv
  OBVIOUS
<1>1. MemInv
  <2>1. TypeInv
    BY InitType DEF LInit
  <2>2. Ordered
    BY CoreAssumption DEF LInit, Init, Ordered, Unique, Published, Behind, Out, InitialWrite
  <2>3. Dated
    BY DEF LInit, Init, Dated, PastOnly, LatestHeld, RecordedOnce, OwnTimes
  <2>4. Founded
    BY DEF LInit, Init, Founded
  <2> QED BY <2>1, <2>2, <2>3, <2>4 DEF MemInv
<1>2. test \in Tests /\ WellFormed(test) /\ pc = [c \in Core |-> 1]
  BY AllWellFormed, LitmusAssumption DEF LInit
<1>3. \A c \in Core : pc[c] = 1
  BY <1>2
<1>4. \A c \in Core : \A k \in DOMAIN test.code[c] : k \in Nat /\ ~(k < pc[c])
  <2>1. \A c \in Core : test.code[c] \in Seq(Instruction)
    BY <1>2 DEF WellFormed, Proper
  <2> QED BY <1>3, <2>1
<1>5. \A b \in Byte : ~Held(b) /\ \A c \in Core : ~Issued(c, b) /\ ~Waiting(c, b)
  BY <1>4 DEF LInit, Init, Issued, Held, Waiting, Covering
<1>6. ProgInv
  <2>1. \A c \in Core : Deferral(c)
    BY DEF LInit, Init, Deferral, Final
  <2>2. \A c \in Core : Flushed(c)
    BY <1>4 DEF Flushed
  <2>3. Accounted
    BY <1>5 DEF Accounted
  <2> QED BY <1>2, <2>1, <2>2, <2>3 DEF ProgInv
<1>7. p0 \in Core /\ p1 \in Core
  BY LitmusAssumption
<1>8. PassingInv
  <2>1. ASSUME NEW c \in Core, NEW y \in Nat, NEW s \in Nat, NEW z \in Nat PROVE ObserverInv(c, y, s, z)
    <3>1. Observer(test.code[c], y, s, z) => ~(pc[c] > y) /\ ~(pc[c] > s) /\ ~(pc[c] > z)
      <4>1. Observer(test.code[c], y, s, z) =>
              /\ y \in DOMAIN test.code[c] /\ s \in DOMAIN test.code[c] /\ z \in DOMAIN test.code[c]
        BY DEF Observer, Reads
      <4> QED BY <1>3, <1>4, <4>1
    <3> QED BY <3>1 DEF ObserverInv
  <2> QED BY <1>3, <1>7, <2>1 DEF PassingInv
<1>9. CrossingInv
  BY <1>3, <1>7 DEF CrossingInv, Crosses
<1>10. FollowingInv
  BY <1>3, <1>7 DEF FollowingInv
<1> QED
  BY <1>1, <1>6, <1>8, <1>9, <1>10 DEF LitmusInv

\* Every step keeps it.
LEMMA LitmusNext == LitmusInv /\ [LNext]_lvars => LitmusInv'
<1> SUFFICES ASSUME LitmusInv, [LNext]_lvars PROVE LitmusInv'
  OBVIOUS
<1>1. CASE LNext
  <2>1. [Next]_vars
    BY <1>1, LitmusRuns DEF LitmusInv
  <2>2. MemInv'
    BY <1>1, <2>1, NextType, NextOrdered, NextDated, LitmusStep DEF LitmusInv, MemInv
  <2> QED BY <1>1, <2>2, ProgStep, PassingStep, CrossingStep, FollowingStep DEF LitmusInv
<1>2. CASE UNCHANGED lvars
  <2>1. UNCHANGED <<memory, history, buffer, sync_time, x, pending_loads, store_count, test, pc>>
    BY <1>2 DEF lvars, vars, shared, loads
  <2>2. MemInv'
    <3>1. UNCHANGED vars
      BY <1>2 DEF lvars
    <3>2. [Next]_vars
      BY <3>1
    <3>3. Founded'
      BY <2>1 DEF LitmusInv, MemInv, Founded
    <3> QED BY <3>2, <3>3, NextType, NextOrdered, NextDated DEF LitmusInv, MemInv
  <2>3. ProgInv'
    <3>1. \A c \in Core : Deferral(c)' /\ Flushed(c)'
      BY <2>1 DEF LitmusInv, ProgInv, Deferral, Flushed, Final, Reloads, Held
    <3>2. \A b \in Byte : /\ Held(b)' <=> Held(b)
                          /\ \A c \in Core : /\ Issued(c, b)' <=> Issued(c, b)
                                             /\ Waiting(c, b)' <=> Waiting(c, b)
      BY <2>1 DEF Issued, Held, Waiting
    <3>3. Accounted'
      BY <3>2 DEF LitmusInv, ProgInv, Accounted
    <3> QED BY <2>1, <3>1, <3>3 DEF LitmusInv, ProgInv
  <2>4. PassingInv'
    BY <2>1 DEF LitmusInv, PassingInv, ObserverInv, Cause, Certain, Held, New, Issued
  <2>5. CrossingInv' /\ FollowingInv'
    BY <2>1 DEF LitmusInv, CrossingInv, FollowingInv, Got, Certain, Held, New, Issued
  <2> QED BY <2>2, <2>3, <2>4, <2>5 DEF LitmusInv
<1> QED
  BY <1>1, <1>2

\* At the end of a run a register's value is what it was loaded with.
LEMMA Outcomes ==
  ASSUME LitmusInv, NEW c \in Core, NEW r \in Reg
  PROVE  /\ Meets(fresh(c, r)) <=> New(c, r)
         /\ Meets(old(c, r)) <=> ~New(c, r)
<1>1. Value(c, r) = x[c][r]
  BY DEF LitmusInv, ProgInv, Deferral, Final, Value
<1>2. /\ fresh(c, r).core = c /\ fresh(c, r).reg = r /\ fresh(c, r).stale = FALSE
      /\ old(c, r).core = c /\ old(c, r).reg = r /\ old(c, r).stale = TRUE
  BY DEF fresh, old
<1> HIDE DEF fresh, old
<1>3. Meets(fresh(c, r)) <=> ~(\A b \in DOMAIN x[c][r] : x[c][r][b] = InitialWrite)
  BY <1>1, <1>2 DEF Meets
<1>4. Meets(old(c, r)) <=> (\A b \in DOMAIN x[c][r] : x[c][r][b] = InitialWrite)
  BY <1>1, <1>2 DEF Meets
<1> QED
  BY <1>3, <1>4 DEF New

\* Each test has a register whose value is not the forbidden one.
LEMMA NotForbidden == LitmusInv => NoForbiddenOutcome
<1> SUFFICES ASSUME LitmusInv, \A c \in Core : Finished(c)
             PROVE  \E o \in test.forbidden : ~Meets(o)
  BY DEF NoForbiddenOutcome
<1>1. /\ p0 \in Core /\ p1 \in Core /\ p2 \in Core /\ r1 \in Reg /\ r2 \in Reg
      /\ test \in AllTests
  BY LitmusAssumption DEF LitmusInv, ProgInv
<1>2. \A c \in Core : \A k \in DOMAIN test.code[c] : k \in Nat /\ pc[c] > k
  <2> TAKE c \in Core
  <2>1. /\ test.code[c] \in Seq(Instruction) /\ DOMAIN test.code[c] = 1..Len(test.code[c])
        /\ pc[c] \in Nat /\ Len(test.code[c]) \in Nat
    BY NextInstruction DEF LitmusInv
  <2> QED BY <2>1 DEF Finished
<1>3. \A c \in Core, y, s, z \in Nat :
        Observer(test.code[c], y, s, z) /\ New(c, r1) /\ Cause /\ test \in Passing => New(c, r2)
  BY <1>2 DEF LitmusInv, PassingInv, ObserverInv, Observer, Reads
<1>4. CASE test \in Causality
  <2>1. /\ \E y, s, z \in Nat : Observer(test.code[p2], y, s, z)
        /\ test.forbidden = {fresh(p1, r1), fresh(p2, r1), old(p2, r2)}
    BY <1>4, CausalityPrograms
  <2>2. New(p2, r1) /\ New(p1, r1) => New(p2, r2)
    BY <1>1, <1>3, <1>4, <2>1 DEF Cause, Passing
  <2> QED BY <1>1, <2>1, <2>2, Outcomes
<1>5. CASE test \in MessagePassing \cup WarmReader /\ test \notin Causality
  <2>1. /\ \E y, s, z \in Nat : Observer(test.code[p1], y, s, z)
        /\ test.forbidden = {fresh(p1, r1), old(p1, r2)}
    BY <1>5, MessagePrograms
  <2>2. New(p1, r1) => New(p1, r2)
    BY <1>1, <1>3, <1>5, <2>1 DEF Cause, Passing
  <2> QED BY <1>1, <2>1, <2>2, Outcomes
<1>6. CASE test \in StoreBuffering
  <2>1. PICK s \in Nat, z \in Nat : Crosses(test.code[p0], X, Y, s, z)
    BY <1>6, CrossingPrograms
  <2>2. PICK u \in Nat, v \in Nat : Crosses(test.code[p1], Y, X, u, v)
    BY <1>6, CrossingPrograms
  <2>3. pc[p0] > s /\ pc[p0] > z /\ pc[p1] > u /\ pc[p1] > v
    BY <1>1, <1>2, <2>1, <2>2 DEF Crosses, Reads
  <2>4. New(p0, r1) \/ New(p1, r1)
    BY <1>6, <2>1, <2>2, <2>3 DEF LitmusInv, CrossingInv, Got
  <2>5. test.forbidden = {old(p0, r1), old(p1, r1)}
    BY <1>6, CrossingPrograms
  <2> QED BY <1>1, <2>4, <2>5, Outcomes
<1>7. CASE test \in LoadBuffering
  <2>1. /\ Follows(test.code[p0], X, Y) /\ Follows(test.code[p1], Y, X)
        /\ test.forbidden = {fresh(p0, r1), fresh(p1, r1)}
    BY <1>7, FollowingPrograms
  <2>2. pc[p0] > 1 /\ pc[p1] > 1
    BY <1>1, <1>2, <2>1 DEF Follows, Reads
  <2>3. ~(New(p0, r1) /\ New(p1, r1))
    BY <1>7, <2>2 DEF LitmusInv, FollowingInv
  <2> QED BY <1>1, <2>1, <2>3, Outcomes
<1> QED
  BY <1>1, <1>4, <1>5, <1>6, <1>7 DEF AllTests

\* What barriers, releases and acquires forbid never happens: under every memory model, with
\* every capacity, latency and horizon, in every interleaving of the tests' programs.
THEOREM OrderedProgramsHold == LSpec => []NoForbiddenOutcome
<1>1. LSpec => []LitmusInv
  BY LitmusInit, LitmusNext, PTL DEF LSpec
<1> QED
  BY <1>1, NotForbidden, PTL
=============================================================================
