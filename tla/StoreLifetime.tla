---------------------------- MODULE StoreLifetime ----------------------------
(***************************************************************************)
(* One core's StoreBuffer in unbounded time: does every store land?  Times *)
(* are kept relative, as the cycles since max(oldest entry, last_retire),  *)
(* which is all that StoreBuffer.retire compares.                          *)
(***************************************************************************)
EXTENDS Naturals, Sequences, SequencesExt

CONSTANTS
  Location,   \* what stores write to; stores overlap when these are equal
  Model,      \* "relaxed" or "adversarial"
  Capacity, Latency

VARIABLES
  entries,   \* pending stores, oldest first
  since,     \* cycles since max(oldest entry, last_retire)
  storing    \* the program still has plain stores to make

vars == <<entries, since, storing>>

Pending == [loc : Location]

Init == entries = <<>> /\ since = 0 /\ storing = TRUE

-----------------------------------------------------------------------------
\* Positions no older entry overlaps.
Free == {i \in 1..Len(entries) : \A j \in 1..(i - 1) : entries[j].loc # entries[i].loc}

\* The head of drain_order.
HeadOfOrder ==
  IF Model = "relaxed" THEN 1 ELSE CHOOSE i \in Free : \A j \in Free : j <= i

\* StoreBuffer.retire lets one store go in this cycle.
Due == entries # <<>> /\ since + 1 >= Latency

\* The buffer, and the age it is judged by, once retire has run.
AfterRetire == IF Due THEN RemoveAt(entries, HeadOfOrder) ELSE entries
SinceRetire ==
  IF Due \/ AfterRetire = <<>> THEN 0 ELSE since + 1

\* MUTANT: a core that has stopped is skipped, and its buffer with it.
Quiet_Stranded ==
  /\ entries' = IF storing THEN AfterRetire ELSE entries
  /\ since' = IF storing THEN SinceRetire ELSE since
  /\ UNCHANGED storing

\* A cycle whose instruction leaves the buffer alone; a parked core's turn.
Quiet ==
  /\ entries' = AfterRetire
  /\ since' = SinceRetire
  /\ UNCHANGED storing

\* A cycle that stores: push, and drain once over capacity.
Push(loc) ==
  /\ storing
  /\ LET pushed == Append(AfterRetire, [loc |-> loc])
     IN  entries' = IF Len(pushed) <= Capacity THEN pushed ELSE <<>>
  /\ since' = IF entries' = <<>> THEN 0 ELSE SinceRetire
  /\ UNCHANGED storing

\* A cycle with a barrier or any other synchronising instruction.
Drain ==
  /\ entries' = <<>>
  /\ since' = 0
  /\ UNCHANGED storing

\* The program makes its last plain store and its last barrier.
Stop ==
  /\ storing
  /\ storing' = FALSE
  /\ UNCHANGED <<entries, since>>

Cycle ==
  \/ Quiet
  \/ \E loc \in Location : Push(loc)
  \/ storing /\ Drain

Next == Cycle \/ Stop

\* Cluster.step_round gives every powered core a cycle, parked or not.
Spec == Init /\ [][Next]_vars /\ WF_vars(Cycle)

-----------------------------------------------------------------------------
\* The buffer never holds more than its capacity between instructions, and no
\* cycle ends with a retirement overdue.
TypeOK ==
  /\ entries \in Seq(Pending)
  /\ Len(entries) <= Capacity
  /\ since \in 0..(Latency - 1)
  /\ storing \in BOOLEAN

\* A program that ends in plain stores publishes them all: its core need only
\* be given further cycles.
LastStoresLand == ~storing ~> entries = <<>>
=============================================================================
