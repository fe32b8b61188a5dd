------------------------------- MODULE Litmus -------------------------------
(***************************************************************************)
(* Litmus programs run on MemorySystem: each core executes a fixed list of *)
(* instructions, in every interleaving and with every padding that leaves  *)
(* a store time to retire.  The tests of test_memory_model.py are of this  *)
(* kind, each with one schedule.  The tests are the classic shapes, with   *)
(* the ordering instructions that make their weak outcome impossible.      *)
(***************************************************************************)
EXTENDS MemorySystem, Sequences, TLC

CONSTANT Tests   \* records: code (core -> instructions) and forbidden (an outcome)

VARIABLES
  test,   \* the litmus test being run
  pc      \* core -> index of its next instruction

lvars == <<vars, test, pc>>

LInit == Init /\ test \in Tests /\ pc = [c \in Core |-> 1]

Finished(c) == pc[c] > Len(test.code[c])

\* One instruction of a program: its mnemonic, access and register.
Perform(c, i) ==
  \/ i.op = "LDR"  /\ Load(c, i.acc, i.reg)
  \/ i.op = "LDAR" /\ LoadExclusive(c, i.acc, i.reg, FALSE)
  \/ i.op = "STR"  /\ Store(c, i.acc)
  \/ i.op = "STLR" /\ StoreRelease(c, i.acc)
  \/ i.op = "DMB"  /\ Barrier(c)

LNext ==
  \E c \in Core :
    \/ /\ ~Finished(c) \/ buffer[c] # {}
       /\ Fetch(c)
       /\ UNCHANGED <<test, pc>>
    \/ /\ phase = "spill" \/ (~Finished(c) /\ test.code[c][pc[c]].op \in {"LDAR", "STLR", "DMB"})
       /\ DrainOne(c)
       /\ UNCHANGED <<test, pc>>
    \/ Idle(c) /\ UNCHANGED <<test, pc>>
    \/ /\ ~Finished(c)
       /\ Perform(c, test.code[c][pc[c]])
       /\ pc' = [pc EXCEPT ![c] = @ + 1]
       /\ UNCHANGED test

LSpec == LInit /\ [][LNext]_lvars

-----------------------------------------------------------------------------
\* What register r of core c would be read as now.
Value(c, r) ==
  IF r \in DOMAIN pending_loads[c] /\ Reloads(c, r)
  THEN MemGet(c, pending_loads[c][r].acc) ELSE x[c][r]

\* An expectation of an outcome: a register of a core holds initial memory, or
\* a store.
Meets(o) ==
  o.stale <=> \A b \in DOMAIN Value(o.core, o.reg) : Value(o.core, o.reg)[b] = InitialWrite

\* No program whose accesses are ordered by barriers, releases and acquires
\* ever ends in the outcome those forbid, whatever the store buffers and the
\* load reorderer do (the rows of AARCH64.md's table that carry a DMB).
NoForbiddenOutcome ==
  (\A c \in Core : Finished(c)) => \E o \in test.forbidden : ~Meets(o)

-----------------------------------------------------------------------------
(* The tests TLC runs, on three cores and two registers.                    *)

CONSTANTS p0, p1, p2, r1, r2

X == [addr |-> 0, size |-> 1]
Y == [addr |-> 1, size |-> 1]
Locations == {X, Y}

ldr(a, r)  == [op |-> "LDR",  acc |-> a, reg |-> r]
ldar(a, r) == [op |-> "LDAR", acc |-> a, reg |-> r]
str(a)     == [op |-> "STR",  acc |-> a, reg |-> r1]
stlr(a)    == [op |-> "STLR", acc |-> a, reg |-> r1]
dmb        == [op |-> "DMB",  acc |-> X, reg |-> r1]

fresh(c, r) == [core |-> c, reg |-> r, stale |-> FALSE]
old(c, r)   == [core |-> c, reg |-> r, stale |-> TRUE]

Two(a, b) == [c \in Core |-> IF c = p0 THEN a ELSE IF c = p1 THEN b ELSE <<>>]
Three(a, b, d) == [c \in Core |-> IF c = p0 THEN a ELSE IF c = p1 THEN b ELSE d]

\* Message passing: the flag (Y) without the data (X).
MessagePassing ==
  {[code |-> Two(w, r), forbidden |-> {fresh(p1, r1), old(p1, r2)}] :
     w \in {<<str(X), dmb, str(Y)>>, <<str(X), stlr(Y)>>},
     r \in {<<ldr(Y, r1), dmb, ldr(X, r2)>>, <<ldar(Y, r1), ldr(X, r2)>>}}

\* The reader looks at the data first and has it cached from before.
WarmReader ==
  {[code |-> Two(<<str(X), stlr(Y)>>, <<ldr(X, r2), ldr(X, r2), ldar(Y, r1), ldr(X, r2)>>),
    forbidden |-> {fresh(p1, r1), old(p1, r2)}]}

\* Store buffering: each core misses the other's store.
StoreBuffering ==
  {[code |-> Two(<<str(X), dmb, ldr(Y, r1)>>, <<str(Y), dmb, ldr(X, r1)>>),
    forbidden |-> {old(p0, r1), old(p1, r1)}],
   [code |-> Two(<<stlr(X), ldar(Y, r1)>>, <<stlr(Y), ldar(X, r1)>>),
    forbidden |-> {old(p0, r1), old(p1, r1)}]}

\* Load buffering: each core sees the store the other makes afterwards.
LoadBuffering ==
  {[code |-> Two(<<ldr(X, r1), dmb, str(Y)>>, <<ldr(Y, r1), dmb, str(X)>>),
    forbidden |-> {fresh(p0, r1), fresh(p1, r1)}],
   [code |-> Two(<<ldr(X, r1), stlr(Y)>>, <<ldar(Y, r1), str(X)>>),
    forbidden |-> {fresh(p0, r1), fresh(p1, r1)}]}

\* Write to read causality, through a third core.
Causality ==
  {[code |-> Three(<<str(X)>>, <<ldr(X, r1), dmb, str(Y)>>, <<ldar(Y, r1), ldr(X, r2)>>),
    forbidden |-> {fresh(p1, r1), fresh(p2, r1), old(p2, r2)}],
   [code |-> Three(<<str(X)>>, <<ldar(X, r1), stlr(Y)>>, <<ldr(Y, r1), dmb, ldr(X, r2)>>),
    forbidden |-> {fresh(p1, r1), fresh(p2, r1), old(p2, r2)}]}

AllTests == MessagePassing \cup WarmReader \cup StoreBuffering \cup LoadBuffering \cup Causality

\* Three cores, two registers, and what the tests' programs are written with.
ASSUME LitmusAssumption ==
  /\ {p0, p1, p2} \subseteq Core /\ p0 # p1 /\ p0 # p2 /\ p1 # p2
  /\ {r1, r2} \subseteq Reg /\ r1 # r2
  /\ Locations \subseteq Access
  /\ {"LDR", "LDAR", "STR", "STLR", "DMB"} \subseteq Instr
  /\ Tests \subseteq AllTests
=============================================================================
