--------------------------- MODULE MCMemoryOrder ---------------------------
(***************************************************************************)
(* Instances of MemoryOrder for TLC: two bytes, reached one at a time and *)
(* together.                                                               *)
(***************************************************************************)
EXTENDS MemoryOrder, TLC

At(address, size) == [addr |-> address, size |-> size]

\* Two bytes of one reservation block.
Bytes == {At(0, 1), At(1, 1)}

\* The same two bytes and the halfword that covers them.
Overlapping == {At(0, 1), At(1, 1), At(0, 2)}

Symmetry == Permutations(Core) \cup Permutations(Reg)
=============================================================================
