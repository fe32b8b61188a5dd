--------------------------- MODULE SequentialMemory ---------------------------
(***************************************************************************)
(* What MemoryModel.SEQUENTIAL promises: one memory, every store in it at  *)
(* once, every load answered from it.                                      *)
(***************************************************************************)
EXTENDS Naturals

CONSTANTS
  Core,      \* the cores
  Reg,       \* registers loads go to
  Byte,      \* the bytes of memory
  Span,      \* the sets of bytes one access covers
  Initially  \* what every byte holds at first

VARIABLES
  mem,      \* byte -> the store that wrote it
  regs,     \* core -> register -> what was loaded
  issued    \* core -> stores made

avars == <<mem, regs, issued>>

Init ==
  /\ mem = [b \in Byte |-> Initially]
  /\ regs = [c \in Core |-> [r \in Reg |-> <<>>]]
  /\ issued = [c \in Core |-> 0]

Store(c, span) ==
  /\ issued' = [issued EXCEPT ![c] = issued[c] + 1]
  /\ mem' = [b \in Byte |-> IF b \in span THEN [core |-> c, n |-> issued[c] + 1]
                            ELSE mem[b]]
  /\ UNCHANGED regs

Load(c, span, r) ==
  /\ regs' = [regs EXCEPT ![c][r] = [b \in span |-> mem[b]]]
  /\ UNCHANGED <<mem, issued>>

Next ==
  \E c \in Core, span \in Span :
    Store(c, span) \/ \E r \in Reg : Load(c, span, r)

Spec == Init /\ [][Next]_avars
=============================================================================
