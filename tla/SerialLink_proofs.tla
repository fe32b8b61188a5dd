------------------------- MODULE SerialLink_proofs -------------------------
(***************************************************************************)
(* Theorems about a board's SPI master and the other board's slave block,  *)
(* for FIFOs of any depth, either master and any firmware that leaves chip *)
(* select to the Tegra controller.                                         *)
(***************************************************************************)
EXTENDS SerialLink, Integers, SequenceTheorems, FiniteSetTheorems, TLAPS

-----------------------------------------------------------------------------
(* Types.                                                                  *)

OctetType == [to : Addresses \cup {Home}, read : BOOLEAN, n : Nat, frame : Nat]

Dialogue ==
  [to : Addresses \cup {Home, "nobody"}, read : BOOLEAN, payload : Seq(OctetType)]

SlaveState ==
  [cr : SUBSET (Enabling \cup {"TXE", "RXE"}), slv : Addresses \cup {Home},
   imsc : SUBSET {"RX", "TX"}, overrun : BOOLEAN, rx : Seq(OctetType), tx : Seq(Nat),
   selected : BOOLEAN, awaiting : BOOLEAN, reading : BOOLEAN, addressed : BOOLEAN,
   current : Seq(OctetType), dialogues : Seq(Dialogue), irq : BOOLEAN]

BcmMaster ==
  [cs : Lines, ta : BOOLEAN, ints : SUBSET {"INTR", "INTD"}, rx : Seq(Nat \cup {"nobody"}),
   irq : BOOLEAN, transmitted : Seq(OctetType)]

TegraMaster ==
  [cs : Lines, soft : BOOLEAN, value : BOOLEAN, tx : Seq(OctetType),
   rx : Seq(Nat \cup {"nobody"}), ready : BOOLEAN,
   errors : SUBSET {"TX_OVF", "RX_UNF", "TX_UNF", "RX_OVF"}, selected : BOOLEAN,
   transmitted : Seq(OctetType)]

-----------------------------------------------------------------------------
(* Sequences of sequences.  FlattenSeq is a recursive function, and the     *)
(* induction it needs rests on the least element of a set of numbers.       *)

\* Every nonempty set of numbers has a least one.
LEMMA LeastNumber ==
  ASSUME NEW T \in SUBSET Nat, T # {}
  PROVE  \E n \in T : \A m \in T : ~(m < n)
<1> DEFINE R == StrictSubsetOrdering(Nat)
           Below == {0 .. n : n \in T}
<1>1. IsWellFoundedOn(R, FiniteSubsetsOf(Nat))
  BY FS_StrictSubsetOrderingWellFounded
<1>2. Below \subseteq FiniteSubsetsOf(Nat) /\ Below # {}
  <2>1. ASSUME NEW n \in T
        PROVE  0 .. n \in FiniteSubsetsOf(Nat)
    BY FS_Interval, 0 \in Int, n \in Int, 0 .. n \subseteq Nat DEF FiniteSubsetsOf
  <2> QED BY <2>1
<1>3. \A m, n \in Nat : m < n => <<0 .. m, 0 .. n>> \in R
  BY DEF StrictSubsetOrdering
<1> HIDE DEF R
<1>4. \E b \in Below : \A c \in Below : ~(<<c, b>> \in R)
  BY <1>1, <1>2, WFMin
<1> QED BY <1>3, <1>4

Joined(one, other) == one \o other

\* The function that FlattenSeq is made of.
IsFlattening(f, seqs) ==
  f = [i \in 1 .. Len(seqs) |-> IF i = 1 THEN seqs[i] ELSE Joined(f[i - 1], seqs[i])]

LEMMA FlatteningAppends ==
  ASSUME NEW S, NEW seqs \in Seq(S), NEW q, NEW f, NEW g,
         IsFlattening(f, seqs), g = [i \in 1 .. Len(seqs) + 1 |->
                IF i # Len(seqs) + 1 THEN f[i] ELSE
                IF i = 1 THEN q ELSE Joined(f[i - 1], q)]
  PROVE  IsFlattening(g, Append(seqs, q))
<1> DEFINE n == Len(seqs)
           all == Append(seqs, q)
<1>1. n \in Nat /\ Len(all) = n + 1 /\ all[n + 1] = q /\ \A i \in 1 .. n : all[i] = seqs[i]
  OBVIOUS
<1>2. \A i \in 1 .. n : f[i] = IF i = 1 THEN seqs[i] ELSE Joined(f[i - 1], seqs[i])
  BY Zenon DEF IsFlattening
<1> HIDE DEF n, all
<1>3. ASSUME NEW i \in 1 .. n + 1
      PROVE  g[i] = IF i = 1 THEN all[i] ELSE Joined(g[i - 1], all[i])
  <2>1. \A k \in 1 .. n + 1 : g[k] = IF k # n + 1 THEN f[k] ELSE IF k = 1 THEN q ELSE Joined(f[k - 1], q)
    BY DEF n
  <2>2. CASE i = n + 1
    <3>1. CASE i = 1
      BY <1>1, <2>1, <2>2, <3>1
    <3>2. CASE i # 1
      <4>1. i - 1 \in 1 .. n + 1 /\ i - 1 # n + 1
        BY <1>1, <2>2, <3>2
      <4>2. g[i - 1] = f[i - 1] /\ all[i] = q
        BY <1>1, <2>1, <2>2, <4>1
      <4>3. g[i] = Joined(f[i - 1], q)
        BY <2>1, <2>2, <3>2, Zenon
      <4> QED BY <3>2, <4>2, <4>3, Zenon
    <3> QED BY <3>1, <3>2
  <2>3. CASE i # n + 1
    <3>0. i \in 1 .. n
      BY <1>1, <2>3
    <3>1. g[i] = f[i] /\ all[i] = seqs[i]
      BY <1>1, <2>1, <2>3, <3>0, Zenon
    <3>2. CASE i = 1
      BY <1>2, <3>0, <3>1, <3>2, Zenon
    <3>3. CASE i # 1
      <4>1. i - 1 \in 1 .. n + 1 /\ i - 1 # n + 1
        BY <1>1, <3>0, <3>3
      <4>2. g[i - 1] = f[i - 1]
        BY <2>1, <4>1, Zenon
      <4>3. f[i] = Joined(f[i - 1], seqs[i])
        BY <1>2, <3>0, <3>3, Zenon
      <4> QED BY <3>1, <3>3, <4>2, <4>3, Zenon
    <3> QED BY <3>2, <3>3
  <2> QED BY <2>2, <2>3
<1>4. g = [i \in 1 .. n + 1 |-> g[i]]
  BY DEF n
<1>5. g = [i \in 1 .. n + 1 |-> IF i = 1 THEN all[i] ELSE Joined(g[i - 1], all[i])]
  BY <1>3, <1>4, Zenon
<1>6. IsFlattening(g, all)
  BY <1>1, <1>5, Zenon DEF IsFlattening
<1> QED
  BY <1>6 DEF all

LEMMA FlatteningExists ==
  ASSUME NEW S, NEW seqs \in Seq(S)
  PROVE  \E f : IsFlattening(f, seqs)
<1> DEFINE Bad == {n \in Nat : \E ss \in Seq(S) : Len(ss) = n /\ ~ \E f : IsFlattening(f, ss)}
<1> SUFFICES ASSUME Bad # {} PROVE FALSE
  <2>1. Len(seqs) \in Nat
    OBVIOUS
  <2> QED BY <2>1
<1>1. PICK n \in Bad : \A m \in Bad : ~(m < n)
  BY LeastNumber
<1>2. PICK ss \in Seq(S) : Len(ss) = n /\ ~ \E f : IsFlattening(f, ss)
  OBVIOUS
<1>3. CASE n = 0
  <2>1. IsFlattening([i \in 1 .. 0 |-> 0], ss)
    BY <1>2, <1>3 DEF IsFlattening
  <2> QED BY <1>2, <2>1
<1>4. CASE n # 0
  <2>0. ss # << >>
    BY <1>2, <1>4
  <2>1. PICK rest \in Seq(S), last \in S : ss = Append(rest, last)
    BY <2>0, SequenceEmptyOrAppend
  <2>2. n \in Nat /\ Len(rest) \in Nat /\ n = Len(rest) + 1
    BY <1>2, <2>1
  <2>3. Len(rest) \notin Bad
    BY <1>1, <2>2
  <2>4. PICK f : IsFlattening(f, rest)
    BY <2>2, <2>3
  <2> QED BY <1>2, <2>1, <2>4, FlatteningAppends
<1> QED BY <1>3, <1>4

LEMMA FlatteningIsUnique ==
  ASSUME NEW S, NEW seqs \in Seq(S), NEW f, NEW g, IsFlattening(f, seqs), IsFlattening(g, seqs)
  PROVE  f = g
<1> DEFINE n == Len(seqs)
           Bad == {i \in 1 .. n : f[i] # g[i]}
<1>1. n \in Nat
  OBVIOUS
<1>2. \A i \in 1 .. n : /\ f[i] = IF i = 1 THEN seqs[i] ELSE Joined(f[i - 1], seqs[i])
                        /\ g[i] = IF i = 1 THEN seqs[i] ELSE Joined(g[i - 1], seqs[i])
  BY Zenon DEF IsFlattening
<1>3. f = [i \in 1 .. n |-> f[i]] /\ g = [i \in 1 .. n |-> g[i]]
  <2>1. /\ f = [i \in 1 .. n |-> IF i = 1 THEN seqs[i] ELSE Joined(f[i - 1], seqs[i])]
        /\ g = [i \in 1 .. n |-> IF i = 1 THEN seqs[i] ELSE Joined(g[i - 1], seqs[i])]
    BY Zenon DEF IsFlattening
  <2> QED BY <1>2, <2>1, Zenon
<1> HIDE DEF n
<1>4. Bad = {}
  <2> SUFFICES ASSUME Bad # {} PROVE FALSE
    OBVIOUS
  <2>0. Bad \subseteq Nat
    BY <1>1
  <2>1. PICK i \in Bad : \A j \in Bad : ~(j < i)
    <3> HIDE DEF Bad
    <3> QED BY <2>0, LeastNumber
  <2>2. i # 1
    BY <1>2
  <2>3. i - 1 \in 1 .. n /\ i - 1 \notin Bad
    BY <1>1, <2>1, <2>2
  <2>4. f[i - 1] = g[i - 1]
    BY <2>3
  <2> QED BY <1>2, <2>2, <2>4, Zenon
<1> QED
  BY <1>3, <1>4, Zenon

\* What a sequence of sequences amounts to, one at a time.
LEMMA FlattenEmpty == FlattenSeq(<< >>) = << >>
BY DEF FlattenSeq

LEMMA FlattenIsFlattening ==
  ASSUME NEW S, NEW seqs \in Seq(S), seqs # << >>, NEW f, IsFlattening(f, seqs)
  PROVE  FlattenSeq(seqs) = f[Len(seqs)]
<1> DEFINE h == CHOOSE h : IsFlattening(h, seqs)
<1>1. FlattenSeq(seqs) = h[Len(seqs)]
  BY DEF FlattenSeq, IsFlattening, Joined
<1>2. IsFlattening(h, seqs)
  BY Zenon
<1> HIDE DEF h
<1> QED BY <1>1, <1>2, FlatteningIsUnique

LEMMA FlattenType ==
  ASSUME NEW S, NEW seqs \in Seq(Seq(S)), NEW f, IsFlattening(f, seqs), NEW k \in 1 .. Len(seqs)
  PROVE  f[k] \in Seq(S)
<1> DEFINE n == Len(seqs)
           Bad == {i \in 1 .. n : f[i] \notin Seq(S)}
<1>1. n \in Nat /\ \A i \in 1 .. n : seqs[i] \in Seq(S)
  OBVIOUS
<1>2. \A i \in 1 .. n : f[i] = IF i = 1 THEN seqs[i] ELSE Joined(f[i - 1], seqs[i])
  BY Zenon DEF IsFlattening
<1> SUFFICES ASSUME Bad # {} PROVE FALSE
  OBVIOUS
<1> HIDE DEF n
<1>3. PICK i \in Bad : \A j \in Bad : ~(j < i)
  <2>1. Bad \subseteq Nat
    BY <1>1
  <2> HIDE DEF Bad
  <2> QED BY <2>1, LeastNumber
<1>4. i # 1
  BY <1>1, <1>2
<1>5. i - 1 \in 1 .. n /\ i - 1 \notin Bad
  BY <1>1, <1>3, <1>4
<1>6. f[i - 1] \in Seq(S) /\ seqs[i] \in Seq(S)
  BY <1>1, <1>5
<1>7. Joined(f[i - 1], seqs[i]) \in Seq(S)
  BY <1>6 DEF Joined
<1>8. f[i] = Joined(f[i - 1], seqs[i])
  BY <1>2, <1>4, Zenon
<1> QED BY <1>7, <1>8

LEMMA FlattenAppend ==
  ASSUME NEW S, NEW seqs \in Seq(Seq(S)), NEW q \in Seq(S)
  PROVE  /\ FlattenSeq(seqs) \in Seq(S)
         /\ FlattenSeq(Append(seqs, q)) = FlattenSeq(seqs) \o q
<1> DEFINE n == Len(seqs)
           all == Append(seqs, q)
<1>1. PICK f : IsFlattening(f, seqs)
  BY FlatteningExists
<1> DEFINE g == [i \in 1 .. Len(seqs) + 1 |->
                   IF i # Len(seqs) + 1 THEN f[i] ELSE
                   IF i = 1 THEN q ELSE Joined(f[i - 1], q)]
<1>2. IsFlattening(g, all)
  BY <1>1, FlatteningAppends
<1>3. n \in Nat /\ all \in Seq(Seq(S)) /\ all # << >> /\ Len(all) = n + 1
  <2> HIDE DEF g
  <2> QED BY AppendProperties, LenProperties
<1>4. FlattenSeq(all) = g[n + 1]
  <2> HIDE DEF n, all, g
  <2> QED BY <1>2, <1>3, FlattenIsFlattening
<1>5. g[n + 1] = IF n + 1 = 1 THEN q ELSE Joined(f[(n + 1) - 1], q)
  BY <1>3
<1>6. CASE seqs = << >>
  <2>1. FlattenSeq(seqs) = << >>
    BY <1>6, FlattenEmpty
  <2>2. << >> \o q = q /\ n + 1 = 1
    BY <1>6
  <2>3. g[n + 1] = q
    BY <1>5, <2>2, Zenon
  <2> HIDE DEF g, all, n
  <2>4. FlattenSeq(all) = FlattenSeq(seqs) \o q
    BY <1>4, <2>1, <2>2, <2>3, Zenon
  <2>5. << >> \in Seq(S)
    OBVIOUS
  <2> QED BY <2>1, <2>4, <2>5, Zenon DEF all
<1>7. CASE seqs # << >>
  <2>1. FlattenSeq(seqs) = f[n]
    BY <1>1, <1>7, FlattenIsFlattening
  <2>2. n \in 1 .. n /\ n + 1 # 1 /\ (n + 1) - 1 = n
    BY <1>3, <1>7
  <2>3. f[n] \in Seq(S)
    <3>1. n \in 1 .. Len(seqs)
      BY <2>2
    <3> HIDE DEF n
    <3> QED BY <1>1, <3>1, FlattenType
  <2>4. g[n + 1] = Joined(f[n], q)
    BY <1>5, <2>2, Zenon
  <2> HIDE DEF g, all, n
  <2> QED BY <1>4, <2>1, <2>3, <2>4, Zenon DEF Joined, all
<1> QED BY <1>6, <1>7

LEMMA ConcatAppend ==
  ASSUME NEW S, NEW one \in Seq(S), NEW other \in Seq(S), NEW x \in S
  PROVE  one \o Append(other, x) = Append(one \o other, x)
BY AppendIsConcat, ConcatAssociative, ConcatProperties

LEMMA ConcatMoves ==
  ASSUME NEW S, NEW one \in Seq(S), NEW other \in Seq(S), other # <<>>
  PROVE  Append(one, Head(other)) \o Tail(other) = one \o other
<1>1. /\ Head(other) \in S /\ Tail(other) \in Seq(S)
      /\ other = <<Head(other)>> \o Tail(other) /\ <<Head(other)>> \in Seq(S)
  BY HeadTailProperties
<1> DEFINE first == <<Head(other)>>
           rest  == Tail(other)
<1>2. Append(one, Head(other)) = one \o first
  BY <1>1, AppendIsConcat
<1> HIDE DEF first, rest
<1>3. (one \o first) \o rest = one \o (first \o rest)
  BY <1>1, ConcatAssociative DEF first, rest
<1>4. other = first \o rest
  BY <1>1 DEF first, rest
<1> QED BY <1>2, <1>3, <1>4, Zenon DEF rest

\* One more piece, one at a time.
LEMMA WrittenAppends ==
  ASSUME NEW ds \in Seq(Dialogue), NEW d \in Dialogue
  PROVE  /\ OctetsWritten(ds) \in Seq(OctetType)
         /\ OctetsWritten(Append(ds, d)) = OctetsWritten(ds) \o Delivered(d)
<1> DEFINE pieces == [k \in DOMAIN ds |-> Delivered(ds[k])]
           more   == [k \in DOMAIN Append(ds, d) |-> Delivered(Append(ds, d)[k])]
<1>1. \A c \in Dialogue : Delivered(c) \in Seq(OctetType)
  BY DEF Delivered, Dialogue
<1>2. /\ Len(ds) \in Nat /\ DOMAIN ds = 1 .. Len(ds) /\ DOMAIN Append(ds, d) = 1 .. Len(ds) + 1
      /\ \A k \in 1 .. Len(ds) : ds[k] \in Dialogue /\ Append(ds, d)[k] = ds[k]
      /\ Append(ds, d)[Len(ds) + 1] = d
  OBVIOUS
<1>3. pieces \in Seq(Seq(OctetType)) /\ Len(pieces) = Len(ds)
  <2>1. \A k \in 1 .. Len(ds) : Delivered(ds[k]) \in Seq(OctetType)
    BY <1>1, <1>2
  <2> HIDE DEF Delivered
  <2> QED BY <1>2, <2>1, IsASeq
<1>4. more = Append(pieces, Delivered(d))
  BY <1>2, <1>3
<1> HIDE DEF pieces, more
<1>5. OctetsWritten(ds) = FlattenSeq(pieces) /\ OctetsWritten(Append(ds, d)) = FlattenSeq(more)
  BY DEF OctetsWritten, pieces, more
<1> QED
  BY <1>1, <1>3, <1>4, <1>5, FlattenAppend

LEMMA DrivenAppends ==
  ASSUME NEW e \in Seq(OctetType \X Nat), NEW o \in OctetType, NEW miso \in Nat
  PROVE  /\ OctetsDriven(e) \in Seq(Nat)
         /\ OctetsDriven(Append(e, <<o, miso>>)) =
              OctetsDriven(e) \o (IF miso = Idle THEN <<>> ELSE <<miso>>)
<1> DEFINE pair   == <<o, miso>>
           pieces == [i \in DOMAIN e |-> OnMiso(e[i])]
           more   == [i \in DOMAIN Append(e, pair) |-> OnMiso(Append(e, pair)[i])]
<1>0. pair \in OctetType \X Nat /\ OnMiso(pair) = IF miso = Idle THEN <<>> ELSE <<miso>>
  BY DEF OnMiso
<1>1. \A c \in OctetType \X Nat : OnMiso(c) \in Seq(Nat)
  BY DEF OnMiso
<1> HIDE DEF pair
<1>2. /\ Len(e) \in Nat /\ DOMAIN e = 1 .. Len(e) /\ DOMAIN Append(e, pair) = 1 .. Len(e) + 1
      /\ \A i \in 1 .. Len(e) : e[i] \in OctetType \X Nat /\ Append(e, pair)[i] = e[i]
      /\ Append(e, pair)[Len(e) + 1] = pair
  BY <1>0
<1>3. pieces \in Seq(Seq(Nat)) /\ Len(pieces) = Len(e)
  <2>1. \A i \in 1 .. Len(e) : OnMiso(e[i]) \in Seq(Nat)
    BY <1>1, <1>2
  <2> QED BY <1>2, <2>1, IsASeq
<1>4. more = Append(pieces, OnMiso(pair))
  BY <1>2, <1>3
<1> HIDE DEF pieces, more
<1>5. OctetsDriven(e) = FlattenSeq(pieces) /\ OctetsDriven(Append(e, pair)) = FlattenSeq(more)
  BY DEF OctetsDriven, pieces, more
<1> QED
  BY <1>0, <1>1, <1>3, <1>4, <1>5, FlattenAppend DEF pair

-----------------------------------------------------------------------------
(* The slave block: what each operation leaves alone.                      *)

\* What a master may do to the FIFOs of a slave: make room in one, fill the other.
Served(s, t) == Len(t.tx) <= Len(s.tx) /\ (s.rx # <<>> => t.rx # <<>>)

LEMMA InterruptsKeep ==
  ASSUME NEW s \in SlaveState
  PROVE  LET t == UpdateInterrupts(s)
         IN  /\ t \in SlaveState
             /\ t.rx = s.rx /\ t.tx = s.tx /\ t.current = s.current /\ t.dialogues = s.dialogues
BY DEF UpdateInterrupts, SlaveState

LEMMA SelectKeeps ==
  ASSUME NEW s \in SlaveState
  PROVE  LET t == Select(s)
         IN  /\ t \in SlaveState /\ t.current = <<>> /\ t.dialogues = s.dialogues
             /\ t.rx = s.rx /\ t.tx = s.tx /\ t.awaiting = TRUE
<1> DEFINE u == [s EXCEPT !.selected = TRUE, !.awaiting = TRUE]
           v == [u EXCEPT !.reading = FALSE, !.addressed = FALSE]
<1>1. Select(s) = [v EXCEPT !.current = <<>>]
  BY DEF Select
<1>2. /\ u \in SlaveState /\ u.dialogues = s.dialogues
      /\ u.rx = s.rx /\ u.tx = s.tx /\ u.awaiting = TRUE
  BY DEF SlaveState
<1> HIDE DEF u
<1>3. /\ v \in SlaveState /\ v.dialogues = s.dialogues
      /\ v.rx = s.rx /\ v.tx = s.tx /\ v.awaiting = TRUE
  BY <1>2 DEF SlaveState
<1> HIDE DEF v
<1>4. ASSUME NEW none \in Seq(OctetType)
      PROVE  LET t == [v EXCEPT !.current = none]
             IN  /\ t \in SlaveState /\ t.current = none /\ t.dialogues = s.dialogues
                 /\ t.rx = s.rx /\ t.tx = s.tx /\ t.awaiting = TRUE
  BY <1>3 DEF SlaveState
<1>5. <<>> \in Seq(OctetType)
  OBVIOUS
<1> QED
  BY <1>1, <1>4, <1>5

LEMMA DeselectKeeps ==
  ASSUME NEW s \in SlaveState
  PROVE  LET t == Deselect(s)
         IN  /\ t \in SlaveState /\ t.current = <<>>
             /\ t.rx = s.rx /\ t.tx = s.tx
             /\ \/ t.dialogues = s.dialogues
                \/ \E d \in Dialogue : d.payload = s.current /\ t.dialogues = Append(s.dialogues, d)
<1> DEFINE d == [to |-> IF s.addressed THEN s.slv ELSE "nobody", read |-> s.reading,
                 payload |-> s.current]
           logged == IF s.selected /\ ~s.awaiting THEN Append(s.dialogues, d) ELSE s.dialogues
           t == [cr |-> s.cr, slv |-> s.slv, imsc |-> s.imsc, overrun |-> s.overrun, rx |-> s.rx,
                 tx |-> s.tx, selected |-> FALSE, awaiting |-> TRUE, reading |-> s.reading,
                 addressed |-> s.addressed, current |-> <<>>, dialogues |-> logged, irq |-> s.irq]
<1>1. d \in Dialogue /\ d.payload = s.current
  BY DEF SlaveState, Dialogue
<1> HIDE DEF d
<1>2. s.dialogues \in Seq(Dialogue) /\ logged \in Seq(Dialogue)
  <2>1. s.dialogues \in Seq(Dialogue)
    BY DEF SlaveState
  <2> QED BY <1>1, <2>1, AppendProperties
<1>3. logged = s.dialogues \/ logged = Append(s.dialogues, d)
  OBVIOUS
<1>4. Deselect(s) = t
  <2>1. Deselect(s) = [s EXCEPT !.dialogues = logged, !.selected = FALSE, !.awaiting = TRUE,
                                !.current = <<>>]
    BY DEF Deselect, d
  <2> HIDE DEF logged
  <2> QED BY <2>1 DEF SlaveState
<1> HIDE DEF logged
<1>5. t \in SlaveState
  <2>1. <<>> \in Seq(OctetType)
    OBVIOUS
  <2> QED BY <1>2, <2>1 DEF SlaveState
<1>6. t.current = <<>> /\ t.rx = s.rx /\ t.tx = s.tx /\ t.dialogues = logged
  OBVIOUS
<1> HIDE DEF t
<1> QED
  BY <1>1, <1>3, <1>4, <1>5, <1>6

\* One octet: the dialogue it belongs to gets it or does not, and no other changes.
LEMMA TransferKeeps ==
  ASSUME NEW s \in SlaveState, NEW o \in OctetType
  PROVE  LET t == Transfer(s, o).slave
         IN  /\ t \in SlaveState /\ t.dialogues = s.dialogues /\ Served(s, t)
             /\ t.current \in {s.current, <<>>, Append(s.current, o)}
             /\ Transfer(s, o).miso \in Nat
<1>1. ASSUME NEW r \in SlaveState
      PROVE  LET t == Exchanged(r, o).slave
             IN  /\ t \in SlaveState /\ t.dialogues = r.dialogues /\ Served(r, t)
                 /\ t.current \in {r.current, Append(r.current, o)}
                 /\ r.awaiting => t.current = r.current
                 /\ Exchanged(r, o).miso \in Nat
  <2>1. CASE r.awaiting
    <3>1. Exchanged(r, o) = [slave |-> TakeAddress(r, o), miso |-> Idle]
      BY <2>1 DEF Exchanged
    <3>2. /\ TakeAddress(r, o) \in SlaveState
          /\ TakeAddress(r, o).dialogues = r.dialogues /\ TakeAddress(r, o).current = r.current
          /\ TakeAddress(r, o).rx = r.rx /\ TakeAddress(r, o).tx = r.tx
      BY DEF TakeAddress, SlaveState, OctetType
    <3> QED BY <3>1, <3>2 DEF Served, Idle, SlaveState
  <2>2. CASE ~r.awaiting /\ ~r.addressed
    <3>1. Exchanged(r, o) = [slave |-> r, miso |-> Idle]
      BY <2>2 DEF Exchanged
    <3> QED BY <2>2, <3>1 DEF Served, Idle, SlaveState
  <2>3. CASE ~r.awaiting /\ r.addressed /\ r.reading
    <3> DEFINE tx == IF Answers(r) THEN Tail(r.tx) ELSE r.tx
               current == Append(r.current, o)
               u == [r EXCEPT !.current = current, !.tx = tx]
    <3>1. Exchanged(r, o) = [slave |-> UpdateInterrupts(u),
                             miso |-> IF Answers(r) THEN Head(r.tx) ELSE Idle]
      BY <2>3 DEF Exchanged, Answered
    <3>2. tx \in Seq(Nat) /\ Len(tx) <= Len(r.tx) /\ (Answers(r) => Head(r.tx) \in Nat)
      <4>1. r.tx \in Seq(Nat)
        BY DEF SlaveState
      <4> QED BY <4>1, HeadTailProperties DEF Answers
    <3>3. current \in Seq(OctetType)
      BY AppendProperties DEF SlaveState
    <3> HIDE DEF tx, current
    <3>4. u \in SlaveState /\ u.current = current /\ u.tx = tx /\ u.rx = r.rx
          /\ u.dialogues = r.dialogues
      BY <3>2, <3>3 DEF SlaveState
    <3> HIDE DEF u
    <3>5. /\ UpdateInterrupts(u) \in SlaveState /\ UpdateInterrupts(u).current = current
          /\ UpdateInterrupts(u).tx = tx /\ UpdateInterrupts(u).rx = r.rx
          /\ UpdateInterrupts(u).dialogues = r.dialogues
      BY <3>4, InterruptsKeep
    <3> QED BY <2>3, <3>1, <3>2, <3>5 DEF Served, Idle, current
  <2>4. CASE ~r.awaiting /\ r.addressed /\ ~r.reading
    <3> DEFINE rx == IF "RXE" \in r.cr /\ Len(r.rx) < FifoDepth THEN Append(r.rx, o) ELSE r.rx
               current == Append(r.current, o)
               over == r.overrun \/ ("RXE" \in r.cr /\ Len(r.rx) >= FifoDepth)
               u == [r EXCEPT !.current = current, !.rx = rx, !.overrun = over]
    <3>1. Exchanged(r, o) = [slave |-> UpdateInterrupts(u), miso |-> Idle]
      BY <2>4 DEF Exchanged, Kept
    <3>2. rx \in Seq(OctetType) /\ (r.rx # <<>> => rx # <<>>)
      <4>1. r.rx \in Seq(OctetType)
        BY DEF SlaveState
      <4> QED BY <4>1, AppendProperties
    <3>3. current \in Seq(OctetType)
      BY AppendProperties DEF SlaveState
    <3>4. over \in BOOLEAN
      BY DEF SlaveState
    <3> HIDE DEF rx, current, over
    <3>5. u \in SlaveState /\ u.current = current /\ u.rx = rx /\ u.tx = r.tx
          /\ u.dialogues = r.dialogues
      BY <3>2, <3>3, <3>4 DEF SlaveState
    <3> HIDE DEF u
    <3>6. /\ UpdateInterrupts(u) \in SlaveState /\ UpdateInterrupts(u).current = current
          /\ UpdateInterrupts(u).tx = r.tx /\ UpdateInterrupts(u).rx = rx
          /\ UpdateInterrupts(u).dialogues = r.dialogues
      BY <3>5, InterruptsKeep
    <3>7. Len(r.tx) <= Len(r.tx)
      BY DEF SlaveState
    <3> QED BY <2>4, <3>1, <3>2, <3>6, <3>7 DEF Served, Idle, current
  <2> QED BY <2>1, <2>2, <2>3, <2>4
<1>2. CASE ~(Enabling \subseteq s.cr)
  <2>1. Transfer(s, o) = [slave |-> s, miso |-> Idle]
    BY <1>2 DEF Transfer
  <2> QED BY <2>1 DEF Served, Idle, SlaveState
<1>3. CASE Enabling \subseteq s.cr /\ s.selected
  <2>1. Transfer(s, o) = Exchanged(s, o)
    BY <1>3 DEF Transfer
  <2> QED BY <1>1, <2>1
<1>4. CASE Enabling \subseteq s.cr /\ ~s.selected
  <2>1. Transfer(s, o) = Exchanged(Select(s), o)
    BY <1>4 DEF Transfer
  <2>2. /\ Select(s) \in SlaveState /\ Select(s).awaiting /\ Select(s).current = <<>>
        /\ Select(s).dialogues = s.dialogues /\ Select(s).rx = s.rx /\ Select(s).tx = s.tx
    BY SelectKeeps
  <2> HIDE DEF Select
  <2> QED BY <1>1, <2>1, <2>2 DEF Served
<1> QED
  BY <1>2, <1>3, <1>4

\* Firmware's accesses to the block reach its FIFOs and settings only.
LEMMA FirmwareKeeps ==
  ASSUME NEW s \in SlaveState, NEW t,
         \/ t = ReadDr(s) \/ \E octet \in Nat : t = WriteDr(s, octet)
         \/ \E bits \in Controls, brk \in BOOLEAN : t = WriteCr(s, bits, brk)
         \/ \E address \in Addresses \cup {Home} : t = WriteSlv(s, address)
         \/ \E bits \in Masks : t = WriteImsc(s, bits)
         \/ t = ClearOverrun(s)
  PROVE  t \in SlaveState /\ t.current = s.current /\ t.dialogues = s.dialogues
<1>1. CASE t = ReadDr(s)
  <2>1. CASE s.rx = <<>>
    BY <1>1, <2>1 DEF ReadDr
  <2>2. CASE s.rx # <<>>
    <3> DEFINE u == [s EXCEPT !.rx = Tail(s.rx)]
    <3>1. Tail(s.rx) \in Seq(OctetType)
      BY <2>2 DEF SlaveState
    <3>2. u \in SlaveState /\ u.current = s.current /\ u.dialogues = s.dialogues
      BY <3>1 DEF SlaveState
    <3> HIDE DEF u
    <3>3. t = UpdateInterrupts(u)
      BY <1>1, <2>2 DEF ReadDr, u
    <3> QED BY <3>2, <3>3, InterruptsKeep
  <2> QED BY <2>1, <2>2
<1>2. ASSUME NEW octet \in Nat, t = WriteDr(s, octet)
      PROVE  t \in SlaveState /\ t.current = s.current /\ t.dialogues = s.dialogues
  <2> DEFINE tx == IF Len(s.tx) < FifoDepth THEN Append(s.tx, octet) ELSE s.tx
             u == [s EXCEPT !.tx = tx]
  <2>1. tx \in Seq(Nat)
    BY AppendProperties DEF SlaveState
  <2>2. t = UpdateInterrupts(u)
    BY <1>2 DEF WriteDr
  <2> HIDE DEF tx
  <2>3. u \in SlaveState /\ u.current = s.current /\ u.dialogues = s.dialogues
    BY <2>1 DEF SlaveState
  <2> HIDE DEF u
  <2> QED BY <2>2, <2>3, InterruptsKeep
<1>3. ASSUME NEW bits \in Controls, NEW brk \in BOOLEAN, t = WriteCr(s, bits, brk)
      PROVE  t \in SlaveState /\ t.current = s.current /\ t.dialogues = s.dialogues
  <2> DEFINE rx == IF brk /\ BrkClearsFifos THEN <<>> ELSE s.rx
             tx == IF brk /\ BrkClearsFifos THEN <<>> ELSE s.tx
             u == [s EXCEPT !.cr = bits]
             v == [u EXCEPT !.rx = rx, !.tx = tx]
  <2>1. rx \in Seq(OctetType) /\ tx \in Seq(Nat)
    BY DEF SlaveState
  <2>2. bits \in SUBSET (Enabling \cup {"TXE", "RXE"})
    BY DEF Controls, Everything, Off
  <2>3. t = UpdateInterrupts(v)
    BY <1>3 DEF WriteCr
  <2> HIDE DEF rx, tx
  <2>4. u \in SlaveState /\ u.current = s.current /\ u.dialogues = s.dialogues
    BY <2>2 DEF SlaveState
  <2> HIDE DEF u
  <2>5. v \in SlaveState /\ v.current = s.current /\ v.dialogues = s.dialogues
    BY <2>1, <2>4 DEF SlaveState
  <2> HIDE DEF v
  <2> QED BY <2>3, <2>5, InterruptsKeep
<1>4. ASSUME NEW address \in Addresses \cup {Home}, t = WriteSlv(s, address)
      PROVE  t \in SlaveState /\ t.current = s.current /\ t.dialogues = s.dialogues
  BY <1>4 DEF WriteSlv, SlaveState
<1>5. ASSUME NEW bits \in Masks, t = WriteImsc(s, bits)
      PROVE  t \in SlaveState /\ t.current = s.current /\ t.dialogues = s.dialogues
  <2> DEFINE u == [s EXCEPT !.imsc = bits]
  <2>1. u \in SlaveState /\ u.current = s.current /\ u.dialogues = s.dialogues
    BY DEF Masks, SlaveState
  <2> HIDE DEF u
  <2>2. t = UpdateInterrupts(u)
    BY <1>5 DEF WriteImsc, u
  <2> QED BY <2>1, <2>2, InterruptsKeep
<1>6. CASE t = ClearOverrun(s)
  <2> DEFINE u == [s EXCEPT !.overrun = FALSE]
  <2>1. u \in SlaveState /\ u.current = s.current /\ u.dialogues = s.dialogues
    BY DEF SlaveState
  <2> HIDE DEF u
  <2>2. t = UpdateInterrupts(u)
    BY <1>6 DEF ClearOverrun, u
  <2> QED BY <2>1, <2>2, InterruptsKeep
<1> QED
  BY <1>1, <1>2, <1>3, <1>4, <1>5, <1>6

-----------------------------------------------------------------------------
(* Frames.                                                                 *)

OfOneFrame(payload) == \A i, j \in DOMAIN payload : payload[i].frame = payload[j].frame

Before(payload, f) == \A i \in DOMAIN payload : payload[i].frame < f

Apart(one, other) ==
  \A i \in DOMAIN one, j \in DOMAIN other : one[i].frame # other[j].frame

\* The octets of the dialogue going on were written in frame f, those of the ones
\* before it in earlier frames, each in one of its own.
Framed(s, f) ==
  /\ \A i \in DOMAIN s.current : s.current[i].frame = f
  /\ \A k \in DOMAIN s.dialogues :
       OfOneFrame(s.dialogues[k].payload) /\ Before(s.dialogues[k].payload, f)
  /\ \A k, l \in DOMAIN s.dialogues :
       k < l => Apart(s.dialogues[k].payload, s.dialogues[l].payload)

LEMMA PayloadFrames ==
  ASSUME NEW s \in SlaveState, NEW k \in DOMAIN s.dialogues
  PROVE  \A i \in DOMAIN s.dialogues[k].payload : s.dialogues[k].payload[i].frame \in Nat
<1>1. s.dialogues \in Seq(Dialogue)
  BY DEF SlaveState
<1>2. s.dialogues[k] \in Dialogue
  BY <1>1
<1> DEFINE payload == s.dialogues[k].payload
<1>3. payload \in Seq(OctetType)
  BY <1>2 DEF Dialogue
<1> HIDE DEF payload
<1>4. ASSUME NEW i \in DOMAIN payload
      PROVE  payload[i].frame \in Nat
  <2>1. payload[i] \in OctetType
    BY <1>3
  <2> QED BY <2>1 DEF OctetType
<1> QED
  BY <1>4 DEF payload

LEMMA FramedOctet ==
  ASSUME NEW s \in SlaveState, NEW f \in Nat, Framed(s, f), NEW o \in OctetType, o.frame = f
  PROVE  Framed(Transfer(s, o).slave, f)
<1> DEFINE t == Transfer(s, o).slave
<1>1. t.dialogues = s.dialogues /\ t.current \in {s.current, <<>>, Append(s.current, o)}
  BY TransferKeeps
<1> HIDE DEF t
<1>2. s.current \in Seq(OctetType)
  BY DEF SlaveState
<1>3. \A i \in DOMAIN t.current : t.current[i].frame = f
  <2>1. CASE t.current = s.current
    BY <2>1 DEF Framed
  <2>2. CASE t.current = <<>>
    BY <2>2
  <2>3. CASE t.current = Append(s.current, o)
    <3>1. /\ DOMAIN t.current = 1 .. Len(s.current) + 1
          /\ \A i \in 1 .. Len(s.current) : t.current[i] = s.current[i]
          /\ t.current[Len(s.current) + 1] = o
      BY <1>2, <2>3, AppendProperties
    <3>2. ASSUME NEW i \in DOMAIN t.current
          PROVE  t.current[i].frame = f
      <4>1. CASE i \in 1 .. Len(s.current)
        BY <1>2, <3>1, <4>1 DEF Framed
      <4>2. CASE i = Len(s.current) + 1
        BY <3>1, <4>2
      <4> QED BY <1>2, <3>1, <4>1, <4>2
    <3> QED BY <3>2
  <2> QED BY <1>1, <2>1, <2>2, <2>3
<1> QED
  BY <1>1, <1>3 DEF Framed, t

LEMMA FramedLater ==
  ASSUME NEW s \in SlaveState, NEW f \in Nat, NEW g \in Nat, f <= g, Framed(s, f),
         NEW t \in SlaveState, t.current = <<>>, t.dialogues = s.dialogues
  PROVE  Framed(t, g)
<1>1. ASSUME NEW k \in DOMAIN s.dialogues
      PROVE  Before(s.dialogues[k].payload, g)
  <2>1. Before(s.dialogues[k].payload, f)
    BY DEF Framed
  <2> QED BY <2>1, PayloadFrames DEF Before
<1> QED
  BY <1>1 DEF Framed

\* The end of a dialogue.
LEMMA FramedDeselect ==
  ASSUME NEW s \in SlaveState, NEW f \in Nat, NEW g \in Nat, f <= g, Framed(s, f),
         s.current # <<>> => f < g
  PROVE  Framed(Deselect(s), g)
<1> DEFINE t == Deselect(s)
<1>1. t \in SlaveState /\ t.current = <<>>
  BY DeselectKeeps
<1>2. \/ t.dialogues = s.dialogues
      \/ \E d \in Dialogue : d.payload = s.current /\ t.dialogues = Append(s.dialogues, d)
  BY DeselectKeeps
<1> HIDE DEF t
<1>3. CASE t.dialogues = s.dialogues
  BY <1>1, <1>3, FramedLater DEF t
<1>4. ASSUME NEW d \in Dialogue, d.payload = s.current, t.dialogues = Append(s.dialogues, d)
      PROVE  Framed(t, g)
  <2> DEFINE n == Len(s.dialogues)
  <2>1. s.dialogues \in Seq(Dialogue) /\ n \in Nat /\ DOMAIN s.dialogues = 1 .. n
    BY DEF SlaveState
  <2>2. /\ DOMAIN t.dialogues = 1 .. n + 1
        /\ \A k \in 1 .. n : t.dialogues[k] = s.dialogues[k]
        /\ t.dialogues[n + 1] = d
    BY <1>4, <2>1, AppendProperties
  <2> HIDE DEF n
  <2>3. ASSUME NEW k \in 1 .. n
        PROVE  /\ \A i \in DOMAIN s.dialogues[k].payload :
                    s.dialogues[k].payload[i].frame \in Nat /\ s.dialogues[k].payload[i].frame < f
               /\ OfOneFrame(s.dialogues[k].payload)
    <3>1. Before(s.dialogues[k].payload, f) /\ OfOneFrame(s.dialogues[k].payload)
      BY <2>1 DEF Framed
    <3> QED BY <2>1, <3>1, PayloadFrames DEF Before
  <2>4. \A i \in DOMAIN d.payload : d.payload[i].frame = f /\ f < g
    <3>1. s.current \in Seq(OctetType)
      BY DEF SlaveState
    <3>2. DOMAIN s.current # {} => s.current # <<>>
      OBVIOUS
    <3> QED BY <1>4, <3>1, <3>2 DEF Framed
  <2>5. ASSUME NEW k \in DOMAIN t.dialogues
        PROVE  OfOneFrame(t.dialogues[k].payload) /\ Before(t.dialogues[k].payload, g)
    <3>1. CASE k = n + 1
      BY <2>2, <2>4, <3>1 DEF OfOneFrame, Before
    <3>2. CASE k \in 1 .. n
      BY <2>2, <2>3, <3>2 DEF OfOneFrame, Before
    <3> QED BY <2>1, <2>2, <3>1, <3>2
  <2>6. ASSUME NEW k \in DOMAIN t.dialogues, NEW l \in DOMAIN t.dialogues, k < l
        PROVE  Apart(t.dialogues[k].payload, t.dialogues[l].payload)
    <3>1. k \in 1 .. n
      BY <2>1, <2>2, <2>6
    <3>2. CASE l = n + 1
      BY <2>2, <2>3, <2>4, <3>1, <3>2 DEF Apart
    <3>3. CASE l \in 1 .. n
      BY <2>1, <2>2, <2>6, <3>1, <3>3 DEF Framed
    <3> QED BY <2>1, <2>2, <3>2, <3>3
  <2> QED BY <1>1, <2>5, <2>6 DEF Framed
<1> QED
  BY <1>2, <1>3, <1>4 DEF t

-----------------------------------------------------------------------------
(* The link.                                                               *)

History ==
  [written : Nat, frame : Nat, queued : Seq(Nat), heard : Seq(OctetType),
   excused : BOOLEAN, setups : Nat]

LinkTypeOK ==
  /\ wiring \in AllWirings
  /\ bcm \in BcmMaster /\ tegra \in TegraMaster /\ slave \in SlaveState
  /\ spi \in History

\* The frame that a dialogue going on belongs to.  An octet makes the count of octets
\* written reach its frame, so the frame that begins when chip select next moves is a
\* later one; the Tegra controller leaves no dialogue open between two transfers.
FrameInv ==
  /\ wiring = "bcm" =>
       /\ Framed(slave, spi.frame) /\ spi.frame <= spi.written + 1
       /\ slave.current # <<>> => spi.frame <= spi.written
  /\ wiring = "tegra" =>
       /\ tegra.soft = FALSE /\ tegra.selected = FALSE /\ slave.current = <<>>
       /\ Framed(slave, Len(tegra.transmitted) + 1)

LEMMA ServedByNobody ==
  ASSUME NEW s \in SlaveState, NEW t \in SlaveState, t.tx = s.tx, t.rx = s.rx
  PROVE  Served(s, t)
BY DEF Served, SlaveState

LEMMA BcmInterruptKeeps ==
  ASSUME NEW m \in BcmMaster
  PROVE  BcmInterrupt(m) \in BcmMaster
BY DEF BcmInterrupt, BcmMaster

\* Chip select of the BCM2835 moves exactly when TA or the line does, one way.
LEMMA FramingFollows ==
  ASSUME NEW old \in BcmMaster, NEW new \in BcmMaster, NEW s
  PROVE  BcmFraming(old, new, s) = IF Asserted(old) /\ ~Asserted(new) THEN Deselect(s)
                                   ELSE IF ~Asserted(old) /\ Asserted(new) THEN Select(s)
                                   ELSE s
<1>1. old.ta \in BOOLEAN /\ new.ta \in BOOLEAN
  BY DEF BcmMaster
<1>2. old.ta /\ (~new.ta \/ old.cs # new.cs) /\ old.cs = BridgeCs
        <=> Asserted(old) /\ ~Asserted(new)
  BY <1>1 DEF Asserted
<1>3. new.ta /\ (~old.ta \/ old.cs # new.cs) /\ new.cs = BridgeCs
        <=> ~Asserted(old) /\ Asserted(new)
  BY <1>1 DEF Asserted
<1> QED
  BY <1>2, <1>3, Zenon DEF BcmFraming

LEMMA BcmWriteCsKeeps ==
  ASSUME LinkTypeOK, NEW cs \in Lines, NEW ta \in BOOLEAN,
         NEW ints \in {{}, {"INTR", "INTD"}}, NEW clear \in BOOLEAN,
         BcmWriteCs(cs, ta, ints, clear)
  PROVE  LinkTypeOK' /\ Served(slave, slave') /\ (FrameInv => FrameInv')
<1> DEFINE rx == IF clear THEN <<>> ELSE bcm.rx
           n  == [bcm EXCEPT !.cs = cs, !.ta = ta]
           m  == [n EXCEPT !.ints = ints, !.rx = rx]
           frame == IF Asserted(bcm) # Asserted(m) THEN spi.written + 1 ELSE spi.frame
           setups == IF ints # bcm.ints THEN spi.setups + 1 ELSE spi.setups
<1>1. /\ wiring = "bcm" /\ UNCHANGED <<wiring, tegra>>
      /\ bcm' = BcmInterrupt(m) /\ slave' = BcmFraming(bcm, m, slave)
      /\ spi' = [spi EXCEPT !.frame = frame, !.setups = setups]
  BY DEF BcmWriteCs
<1>2. bcm \in BcmMaster /\ slave \in SlaveState /\ spi \in History
  BY DEF LinkTypeOK
<1>3. rx \in Seq(Nat \cup {"nobody"})
  BY <1>2 DEF BcmMaster
<1> HIDE DEF rx
<1>4. n \in BcmMaster
  BY <1>2 DEF BcmMaster
<1> HIDE DEF n
<1>5. m \in BcmMaster
  BY <1>3, <1>4 DEF BcmMaster
<1> HIDE DEF m
<1>6. /\ spi.written \in Nat /\ spi.frame \in Nat /\ spi.setups \in Nat
      /\ frame \in Nat /\ setups \in Nat
  BY <1>2 DEF History
<1>7. slave' = IF Asserted(bcm) /\ ~Asserted(m) THEN Deselect(slave)
               ELSE IF ~Asserted(bcm) /\ Asserted(m) THEN Select(slave) ELSE slave
  BY <1>1, <1>2, <1>5, FramingFollows
<1>8. Asserted(bcm) \in BOOLEAN /\ Asserted(m) \in BOOLEAN
  BY DEF Asserted
<1> HIDE DEF setups
<1>9. spi' \in History /\ spi'.frame = frame /\ spi'.written = spi.written
  <2> HIDE DEF frame
  <2> QED BY <1>1, <1>2, <1>6 DEF History
<1>10. CASE Asserted(bcm) /\ ~Asserted(m)
  <2>1. slave' = Deselect(slave) /\ frame = spi.written + 1
    BY <1>7, <1>8, <1>10
  <2>2. slave' \in SlaveState /\ slave'.current = <<>> /\ Served(slave, slave')
    BY <1>2, <2>1, DeselectKeeps, ServedByNobody
  <2>3. FrameInv => FrameInv'
    <3> HAVE FrameInv
    <3>1. /\ Framed(slave, spi.frame) /\ spi.frame <= spi.written + 1
          /\ slave.current # <<>> => spi.frame < spi.written + 1
      BY <1>1, <1>6 DEF FrameInv
    <3>2. Framed(Deselect(slave), spi.written + 1)
      BY <1>2, <1>6, <3>1, FramedDeselect
    <3> QED BY <1>1, <1>6, <1>9, <2>1, <2>2, <3>2 DEF FrameInv
  <2> QED BY <1>1, <1>5, <1>9, <2>2, <2>3, BcmInterruptKeeps DEF LinkTypeOK
<1>11. CASE ~Asserted(bcm) /\ Asserted(m)
  <2>1. slave' = Select(slave) /\ frame = spi.written + 1
    BY <1>7, <1>8, <1>11
  <2>2. /\ slave' \in SlaveState /\ slave'.current = <<>> /\ slave'.dialogues = slave.dialogues
        /\ Served(slave, slave')
    BY <1>2, <2>1, SelectKeeps, ServedByNobody
  <2>3. FrameInv => FrameInv'
    <3> HAVE FrameInv
    <3>1. Framed(slave, spi.frame) /\ spi.frame <= spi.written + 1
      BY <1>1 DEF FrameInv
    <3>2. Framed(slave', spi.written + 1)
      BY <1>2, <1>6, <2>2, <3>1, FramedLater
    <3> QED BY <1>1, <1>6, <1>9, <2>1, <2>2, <3>2 DEF FrameInv
  <2> QED BY <1>1, <1>5, <1>9, <2>2, <2>3, BcmInterruptKeeps DEF LinkTypeOK
<1>12. CASE Asserted(bcm) <=> Asserted(m)
  <2>1. slave' = slave /\ frame = spi.frame
    BY <1>7, <1>8, <1>12
  <2>2. FrameInv => FrameInv'
    BY <1>1, <1>9, <2>1 DEF FrameInv
  <2> QED BY <1>1, <1>2, <1>5, <1>9, <2>1, <2>2, BcmInterruptKeeps, ServedByNobody DEF LinkTypeOK
<1> QED
  BY <1>10, <1>11, <1>12

LEMMA BcmWriteFifoKeeps ==
  ASSUME LinkTypeOK, NEW to \in Addresses, NEW read \in BOOLEAN, BcmWriteFifo(to, read)
  PROVE  LinkTypeOK' /\ Served(slave, slave') /\ (FrameInv => FrameInv')
<1> DEFINE octet == Octet(to, read, spi.written + 1, spi.frame)
           reply == Transfer(slave, octet)
           miso  == IF bcm.cs = BridgeCs THEN reply.miso ELSE "nobody"
           rx    == Append(bcm.rx, miso)
           sent  == Append(bcm.transmitted, octet)
           m     == [bcm EXCEPT !.rx = rx, !.transmitted = sent]
           excused == spi.excused \/ ~bcm.ta
<1>1. /\ wiring = "bcm" /\ UNCHANGED <<wiring, tegra>>
      /\ bcm' = BcmInterrupt(m)
      /\ slave' = IF bcm.cs = BridgeCs THEN reply.slave ELSE slave
      /\ spi' = [spi EXCEPT !.written = spi.written + 1, !.excused = excused]
  BY DEF BcmWriteFifo
<1>2. /\ bcm \in BcmMaster /\ slave \in SlaveState /\ spi \in History
      /\ spi.written \in Nat /\ spi.frame \in Nat
  BY DEF LinkTypeOK, History
<1>3. octet \in OctetType /\ octet.frame = spi.frame
  BY <1>2 DEF Octet, OctetType
<1> HIDE DEF octet
<1>4. /\ reply.slave \in SlaveState /\ Served(slave, reply.slave) /\ reply.miso \in Nat
  BY <1>2, <1>3, TransferKeeps
<1>5. FrameInv => Framed(reply.slave, spi.frame)
  BY <1>1, <1>2, <1>3, FramedOctet DEF FrameInv
<1> HIDE DEF reply
<1>6. rx \in Seq(Nat \cup {"nobody"})
  <2>1. bcm.rx \in Seq(Nat \cup {"nobody"}) /\ miso \in Nat \cup {"nobody"}
    BY <1>2, <1>4 DEF BcmMaster
  <2> HIDE DEF miso
  <2> QED BY <2>1
<1>7. sent \in Seq(OctetType)
  BY <1>2, <1>3 DEF BcmMaster
<1>8. excused \in BOOLEAN
  BY <1>2 DEF History, BcmMaster
<1> HIDE DEF rx, sent, excused
<1>9. m \in BcmMaster
  BY <1>2, <1>6, <1>7 DEF BcmMaster
<1> HIDE DEF m
<1>10. /\ spi' \in History /\ spi'.written = spi.written + 1 /\ spi'.frame = spi.frame
  <2> DEFINE written == spi.written + 1
  <2>1. written \in Nat
    BY <1>2
  <2> HIDE DEF written
  <2>2. spi' = [spi EXCEPT !.written = written, !.excused = excused]
    BY <1>1 DEF written
  <2>3. spi' \in History /\ spi'.written = written /\ spi'.frame = spi.frame
    BY <1>2, <1>8, <2>1, <2>2 DEF History
  <2> QED BY <2>3 DEF written
<1>11. Served(slave, slave') /\ slave' \in SlaveState
  BY <1>1, <1>2, <1>4, ServedByNobody
<1>12. FrameInv => FrameInv'
  BY <1>1, <1>2, <1>5, <1>10 DEF FrameInv
<1> QED
  BY <1>1, <1>9, <1>10, <1>11, <1>12, BcmInterruptKeeps DEF LinkTypeOK

LEMMA BcmReadFifoKeeps ==
  ASSUME LinkTypeOK, BcmReadFifo
  PROVE  LinkTypeOK' /\ Served(slave, slave') /\ (FrameInv => FrameInv')
<1>1. bcm \in BcmMaster /\ bcm.rx \in Seq(Nat \cup {"nobody"}) /\ slave \in SlaveState
  BY DEF LinkTypeOK, BcmMaster
<1> DEFINE rx == Tail(bcm.rx)
           m == [bcm EXCEPT !.rx = rx]
<1>2. rx \in Seq(Nat \cup {"nobody"})
  BY <1>1 DEF BcmReadFifo
<1>3. bcm' = BcmInterrupt(m) /\ UNCHANGED <<wiring, tegra, slave, exchanges, spi>>
  BY DEF BcmReadFifo
<1> HIDE DEF rx
<1>4. m \in BcmMaster
  BY <1>1, <1>2 DEF BcmMaster
<1> HIDE DEF m
<1> QED
  BY <1>1, <1>3, <1>4, BcmInterruptKeeps, ServedByNobody DEF LinkTypeOK, FrameInv

\* One word of a transfer of the Tegra controller.  Only a controller on the bridge's
\* line reaches the slave.
LEMMA TegraWordKeeps ==
  ASSUME LinkAssumption, NEW t \in TegraMaster, NEW s \in SlaveState, NEW e, NEW f \in Nat
  PROVE  LET at == TegraWord(f, <<t, s, e>>)
         IN  /\ at = <<at[1], at[2], at[3]>>
             /\ at[1] \in TegraMaster /\ at[2] \in SlaveState /\ Served(s, at[2])
             /\ at[1].cs = t.cs /\ at[1].soft = t.soft
             /\ Len(at[1].transmitted) = Len(t.transmitted) + 1
             /\ t.cs # BridgeCs => at[2] = s
             /\ Framed(s, f) => Framed(at[2], f)
<1> DEFINE octet == IF t.tx = <<>> THEN Zero(f) ELSE [Head(t.tx) EXCEPT !.frame = f]
           reply == Transfer(s, octet)
           miso  == IF t.cs = BridgeCs THEN reply.miso ELSE "nobody"
           tx    == IF t.tx = <<>> THEN t.tx ELSE Tail(t.tx)
           rx    == IF Len(t.rx) < TegraDepth THEN Append(t.rx, miso) ELSE t.rx
           errors == t.errors \cup (IF t.tx = <<>> THEN {"TX_UNF"} ELSE {})
                              \cup (IF Len(t.rx) < TegraDepth THEN {} ELSE {"RX_OVF"})
           sent  == Append(t.transmitted, octet)
           u     == [t EXCEPT !.tx = tx, !.rx = rx]
           v     == [u EXCEPT !.errors = errors, !.transmitted = sent]
           after == IF t.cs = BridgeCs THEN reply.slave ELSE s
           seen  == IF t.cs = BridgeCs THEN Append(e, <<octet, miso>>) ELSE e
<1>1. TegraWord(f, <<t, s, e>>) = <<v, after, seen>>
  BY DEF TegraWord
<1>2. /\ t.tx \in Seq(OctetType) /\ t.rx \in Seq(Nat \cup {"nobody"})
      /\ t.transmitted \in Seq(OctetType)
      /\ t.errors \in SUBSET {"TX_OVF", "RX_UNF", "TX_UNF", "RX_OVF"}
  BY DEF TegraMaster
<1>3. octet \in OctetType /\ octet.frame = f
  <2>1. CASE t.tx = <<>>
    <3>1. Zero(f) \in OctetType /\ Zero(f).frame = f
      BY DEF Zero, Octet, OctetType, Home
    <3> QED BY <2>1, <3>1
  <2>2. CASE t.tx # <<>>
    <3> DEFINE h == Head(t.tx)
    <3>1. h \in OctetType
      BY <1>2, <2>2
    <3> HIDE DEF h
    <3>2. [h EXCEPT !.frame = f] \in OctetType /\ [h EXCEPT !.frame = f].frame = f
      BY <3>1 DEF OctetType
    <3> QED BY <2>2, <3>2 DEF h
  <2> QED BY <2>1, <2>2
<1> HIDE DEF octet
<1>4. reply.slave \in SlaveState /\ Served(s, reply.slave) /\ reply.miso \in Nat
  BY <1>3, TransferKeeps
<1>5. Framed(s, f) => Framed(reply.slave, f)
  BY <1>3, FramedOctet
<1> HIDE DEF reply
<1>6. after \in SlaveState /\ Served(s, after) /\ (Framed(s, f) => Framed(after, f))
      /\ (t.cs # BridgeCs => after = s)
  BY <1>4, <1>5, ServedByNobody
<1>7. tx \in Seq(OctetType)
  BY <1>2
<1>8. rx \in Seq(Nat \cup {"nobody"})
  <2>1. miso \in Nat \cup {"nobody"}
    BY <1>4
  <2> HIDE DEF miso
  <2> QED BY <1>2, <2>1
<1>9. sent \in Seq(OctetType) /\ Len(sent) = Len(t.transmitted) + 1
  BY <1>2, <1>3
<1>10. errors \in SUBSET {"TX_OVF", "RX_UNF", "TX_UNF", "RX_OVF"}
  BY <1>2
<1> HIDE DEF tx, rx, sent, errors, after, seen
<1>11. /\ u \in TegraMaster /\ u.cs = t.cs /\ u.soft = t.soft
  BY <1>7, <1>8 DEF TegraMaster
<1> HIDE DEF u
<1>12. /\ v \in TegraMaster /\ v.cs = t.cs /\ v.soft = t.soft /\ v.transmitted = sent
  BY <1>9, <1>10, <1>11 DEF TegraMaster
<1> HIDE DEF v
<1> QED
  BY <1>1, <1>6, <1>9, <1>12

\* A transfer of the lengths that firmware of the model asks for.
LEMMA TegraWordsUnfold ==
  ASSUME NEW start, NEW frame, NEW count \in 0 .. 2
  PROVE  TegraWords(count, frame, start) =
           IF count = 0 THEN start
           ELSE IF count = 1 THEN TegraWord(frame, start)
           ELSE TegraWord(frame, TegraWord(frame, start))
<1> DEFINE W(at) == TegraWord(frame, at)
           Fixed(f) == f = [i \in 0 .. count |-> IF i = 0 THEN start ELSE W(f[i - 1])]
           At == CHOOSE f : Fixed(f)
           g == [i \in 0 .. count |-> IF i = 0 THEN start
                                      ELSE IF i = 1 THEN W(start) ELSE W(W(start))]
<1>1. TegraWords(count, frame, start) = At[count]
  BY DEF TegraWords
<1> HIDE DEF W
<1>2. Fixed(g)
  <2>1. ASSUME NEW i \in 0 .. count
        PROVE  g[i] = IF i = 0 THEN start ELSE W(g[i - 1])
    OBVIOUS
  <2>2. g = [i \in 0 .. count |-> g[i]]
    OBVIOUS
  <2> HIDE DEF g
  <2> QED BY <2>1, <2>2, Zenon
<1>3. Fixed(At)
  <2> HIDE DEF g, Fixed
  <2> QED BY <1>2
<1> HIDE DEF At
<1>4. \A i \in 0 .. count : At[i] = IF i = 0 THEN start ELSE W(At[i - 1])
  BY <1>3, Zenon
<1>5. At[0] = start
  BY <1>4
<1>6. count >= 1 => At[1] = W(start)
  BY <1>4, <1>5
<1>7. count = 2 => At[2] = W(W(start))
  <2>1. count = 2 => At[2] = W(At[1])
    BY <1>4
  <2> QED BY <1>6, <2>1
<1> QED
  BY <1>1, <1>5, <1>6, <1>7 DEF W

LEMMA ServedTwice ==
  ASSUME NEW r \in SlaveState, NEW s \in SlaveState, NEW t \in SlaveState, Served(r, s), Served(s, t)
  PROVE  Served(r, t)
BY DEF Served, SlaveState

LEMMA TegraWordsKeep ==
  ASSUME NEW t \in TegraMaster, NEW s \in SlaveState, NEW e, NEW f \in Nat, NEW count \in 0 .. 2
  PROVE  LET at == TegraWords(count, f, <<t, s, e>>)
         IN  /\ at[1] \in TegraMaster /\ at[2] \in SlaveState /\ Served(s, at[2])
             /\ at[1].cs = t.cs /\ at[1].soft = t.soft
             /\ Len(at[1].transmitted) = Len(t.transmitted) + count
             /\ t.cs # BridgeCs => at[2] = s
             /\ Framed(s, f) => Framed(at[2], f)
<1>0. Len(t.transmitted) \in Nat
  BY DEF TegraMaster
<1>1. CASE count = 0
  <2>1. TegraWords(count, f, <<t, s, e>>) = <<t, s, e>>
    BY <1>1, TegraWordsUnfold
  <2> QED BY <1>0, <1>1, <2>1, ServedByNobody
<1> DEFINE one == TegraWord(f, <<t, s, e>>)
           two == TegraWord(f, one)
<1>2. /\ one = <<one[1], one[2], one[3]>>
      /\ one[1] \in TegraMaster /\ one[2] \in SlaveState /\ Served(s, one[2])
      /\ one[1].cs = t.cs /\ one[1].soft = t.soft
      /\ Len(one[1].transmitted) = Len(t.transmitted) + 1
      /\ t.cs # BridgeCs => one[2] = s
      /\ Framed(s, f) => Framed(one[2], f)
  BY LinkAssumption, TegraWordKeeps
<1> HIDE DEF one
<1>3. CASE count = 1
  <2>1. TegraWords(count, f, <<t, s, e>>) = one
    BY <1>3, TegraWordsUnfold DEF one
  <2> QED BY <1>2, <1>3, <2>1
<1>4. CASE count = 2
  <2> DEFINE t1 == one[1]
             s1 == one[2]
             e1 == one[3]
  <2>1. TegraWords(count, f, <<t, s, e>>) = two
    BY <1>4, TegraWordsUnfold DEF one
  <2>2. two = TegraWord(f, <<t1, s1, e1>>)
    BY <1>2
  <2> HIDE DEF two, t1, s1, e1
  <2>3. t1 \in TegraMaster /\ s1 \in SlaveState
    BY <1>2 DEF t1, s1
  <2>4. /\ two[1] \in TegraMaster /\ two[2] \in SlaveState /\ Served(s1, two[2])
        /\ two[1].cs = t1.cs /\ two[1].soft = t1.soft
        /\ Len(two[1].transmitted) = Len(t1.transmitted) + 1
        /\ t1.cs # BridgeCs => two[2] = s1
        /\ Framed(s1, f) => Framed(two[2], f)
    BY <2>2, <2>3, LinkAssumption, TegraWordKeeps
  <2>5. Served(s, two[2])
    BY <1>2, <2>3, <2>4, ServedTwice DEF s1
  <2> QED BY <1>0, <1>2, <1>4, <2>1, <2>4, <2>5 DEF t1, s1
<1> QED
  BY <1>1, <1>3, <1>4

LEMMA TegraCommandKeeps ==
  ASSUME LinkTypeOK, NEW cs \in Lines, NEW soft \in BOOLEAN, NEW value \in BOOLEAN,
         NEW count \in 0 .. 2, TegraCommand(cs, soft, value, count)
  PROVE  LinkTypeOK' /\ Served(slave, slave') /\ (SoftwareCs = FALSE /\ FrameInv => FrameInv')
<1> DEFINE t     == [tegra EXCEPT !.cs = cs, !.soft = soft, !.value = value]
           same  == soft /\ tegra.soft /\ value = tegra.value /\ cs = tegra.cs
           sent  == Len(tegra.transmitted)
           frame == IF same THEN spi.frame ELSE sent + 1
           first == [t EXCEPT !.selected = TRUE]
           opened == IF t.selected THEN slave
                     ELSE IF t.cs = BridgeCs THEN Select(slave) ELSE slave
           end   == TegraWords(count, frame, <<first, opened, exchanges>>)
           shut  == [end[1] EXCEPT !.ready = TRUE, !.selected = t.soft]
           freed == IF t.soft THEN end[2]
                    ELSE IF t.cs = BridgeCs THEN Deselect(end[2]) ELSE end[2]
           owner == IF count > 0 \/ soft THEN frame ELSE spi.frame
<1>1. /\ wiring = "tegra" /\ UNCHANGED <<wiring, bcm>>
      /\ soft => SoftwareCs
      /\ ~soft => count > 0
      /\ spi' = [spi EXCEPT !.frame = owner]
  BY DEF TegraCommand
<1>2. IF count = 0 THEN tegra' = t /\ slave' = slave ELSE tegra' = shut /\ slave' = freed
  <2> DEFINE after == IF count = 0 THEN <<t, slave, exchanges>> ELSE <<shut, freed, end[3]>>
  <2>1. Transferred(t, count, frame) = <<shut, freed, end[3]>>
    BY DEF Transferred, TegraNotify
  <2> HIDE DEF end, shut, freed
  <2>2. tegra' = after[1] /\ slave' = after[2]
    BY <2>1 DEF TegraCommand
  <2> QED BY <2>2
<1>3. /\ tegra \in TegraMaster /\ slave \in SlaveState /\ spi \in History /\ spi.frame \in Nat
      /\ sent \in Nat
  BY DEF LinkTypeOK, History, TegraMaster
<1>4. frame \in Nat /\ owner \in Nat
  BY <1>3
<1>5. /\ t \in TegraMaster /\ t.cs = cs /\ t.soft = soft /\ t.selected = tegra.selected
      /\ t.transmitted = tegra.transmitted
  BY <1>3 DEF TegraMaster
<1>6. spi' \in History
  <2> HIDE DEF owner
  <2> QED BY <1>1, <1>3, <1>4 DEF History
<1> HIDE DEF t
<1>7. /\ first \in TegraMaster /\ first.cs = cs /\ first.soft = soft
      /\ Len(first.transmitted) = sent
  BY <1>5 DEF TegraMaster
<1>8. /\ opened \in SlaveState /\ Served(slave, opened)
      /\ opened.dialogues = slave.dialogues
      /\ opened.current = slave.current \/ opened.current = <<>>
      /\ cs # BridgeCs => opened = slave
  BY <1>3, <1>5, SelectKeeps, ServedByNobody
<1> HIDE DEF first, opened, sent, owner
<1>9. /\ end[1] \in TegraMaster /\ end[2] \in SlaveState /\ Served(opened, end[2])
      /\ end[1].cs = cs /\ end[1].soft = soft
      /\ Len(end[1].transmitted) = sent + count
      /\ cs # BridgeCs => end[2] = opened
      /\ Framed(opened, frame) => Framed(end[2], frame)
  <2> HIDE DEF frame
  <2> QED BY <1>4, <1>7, <1>8, TegraWordsKeep
<1> HIDE DEF end, frame
<1>10. /\ shut \in TegraMaster /\ shut.soft = soft /\ shut.selected = soft
       /\ shut.transmitted = end[1].transmitted
  BY <1>5, <1>9 DEF TegraMaster
<1>11. /\ freed \in SlaveState /\ Served(slave, freed)
  <2>1. Served(slave, end[2])
    BY <1>3, <1>8, <1>9, ServedTwice
  <2>2. /\ Deselect(end[2]) \in SlaveState /\ Served(end[2], Deselect(end[2]))
    BY <1>9, DeselectKeeps, ServedByNobody
  <2> QED BY <1>3, <1>9, <2>1, <2>2, ServedTwice
<1> HIDE DEF shut
<1>12. LinkTypeOK' /\ Served(slave, slave')
  <2> HIDE DEF freed
  <2>1. CASE count = 0
    BY <1>1, <1>2, <1>3, <1>5, <1>6, <2>1, ServedByNobody DEF LinkTypeOK
  <2>2. CASE count # 0
    BY <1>1, <1>2, <1>6, <1>10, <1>11, <2>2 DEF LinkTypeOK
  <2> QED BY <2>1, <2>2
<1>13. ASSUME SoftwareCs = FALSE, FrameInv
       PROVE  FrameInv'
  <2>1. soft = FALSE /\ count > 0 /\ tegra' = shut /\ slave' = freed /\ frame = sent + 1
    BY <1>1, <1>2, <1>13 DEF frame
  <2>2. slave.current = <<>> /\ Framed(slave, sent + 1)
    BY <1>1, <1>13 DEF FrameInv, sent
  <2>3. Framed(opened, frame) /\ opened.current = <<>>
    BY <1>3, <1>4, <1>8, <2>1, <2>2, FramedLater
  <2>4. Framed(end[2], frame)
    BY <1>9, <2>3
  <2>5. sent + 1 <= sent + count + 1 /\ sent + 1 < sent + count + 1 /\ sent + count + 1 \in Nat
    BY <1>3, <2>1
  <2>6. freed.current = <<>> /\ Framed(freed, sent + count + 1)
    <3>1. CASE cs = BridgeCs
      <4>1. freed = Deselect(end[2])
        BY <1>5, <2>1, <3>1
      <4> QED BY <1>4, <1>9, <2>1, <2>4, <2>5, <4>1, FramedDeselect, DeselectKeeps
    <3>2. CASE cs # BridgeCs
      <4>1. freed = end[2] /\ end[2] = opened
        BY <1>5, <1>9, <2>1, <3>2
      <4> QED BY <1>4, <1>8, <2>1, <2>3, <2>5, <4>1, FramedLater
    <3> QED BY <3>1, <3>2
  <2> HIDE DEF freed
  <2> QED BY <1>1, <1>9, <1>10, <2>1, <2>6 DEF FrameInv
<1> QED
  BY <1>12, <1>13

LEMMA TegraRegistersKeep ==
  ASSUME LinkTypeOK,
         \/ \E to \in Addresses, read \in BOOLEAN : TegraWriteFifo(to, read)
         \/ TegraReadFifo \/ TegraAcknowledge
         \/ \E flush \in SUBSET {"TX", "RX"} : TegraFifoStatus(flush)
  PROVE  LinkTypeOK' /\ Served(slave, slave') /\ (FrameInv => FrameInv')
<1>1. /\ tegra \in TegraMaster /\ slave \in SlaveState /\ spi \in History
      /\ tegra.tx \in Seq(OctetType) /\ tegra.rx \in Seq(Nat \cup {"nobody"})
      /\ tegra.errors \in SUBSET {"TX_OVF", "RX_UNF", "TX_UNF", "RX_OVF"}
      /\ spi.written \in Nat /\ spi.setups \in Nat
  BY DEF LinkTypeOK, TegraMaster, History
<1>2. ASSUME tegra' \in TegraMaster, spi' \in History, UNCHANGED <<wiring, bcm, slave>>,
             wiring = "tegra", tegra'.soft = tegra.soft, tegra'.selected = tegra.selected,
             tegra'.transmitted = tegra.transmitted
      PROVE  LinkTypeOK' /\ Served(slave, slave') /\ (FrameInv => FrameInv')
  BY <1>1, <1>2, ServedByNobody DEF LinkTypeOK, FrameInv
<1>3. ASSUME NEW n \in Nat
      PROVE  [spi EXCEPT !.written = n] \in History /\ [spi EXCEPT !.setups = n] \in History
  BY <1>1 DEF History
<1>4. ASSUME NEW seq \in Seq(OctetType)
      PROVE  LET t == [tegra EXCEPT !.tx = seq]
             IN  /\ t \in TegraMaster /\ t.soft = tegra.soft /\ t.selected = tegra.selected
                 /\ t.transmitted = tegra.transmitted
  BY <1>1 DEF TegraMaster
<1>5. ASSUME NEW errors \in SUBSET {"TX_OVF", "RX_UNF", "TX_UNF", "RX_OVF"}
      PROVE  LET t == [tegra EXCEPT !.errors = errors]
             IN  /\ t \in TegraMaster /\ t.soft = tegra.soft /\ t.selected = tegra.selected
                 /\ t.transmitted = tegra.transmitted
  BY <1>1 DEF TegraMaster
<1>6. ASSUME NEW seq \in Seq(Nat \cup {"nobody"})
      PROVE  LET t == [tegra EXCEPT !.rx = seq]
             IN  /\ t \in TegraMaster /\ t.soft = tegra.soft /\ t.selected = tegra.selected
                 /\ t.transmitted = tegra.transmitted
  BY <1>1 DEF TegraMaster
<1>7. ASSUME NEW to \in Addresses, NEW read \in BOOLEAN, TegraWriteFifo(to, read)
      PROVE  LinkTypeOK' /\ Served(slave, slave') /\ (FrameInv => FrameInv')
  <2> DEFINE octet == Octet(to, read, spi.written + 1, 0)
  <2>1. octet \in OctetType /\ spi.written + 1 \in Nat
    BY <1>1 DEF Octet, OctetType
  <2>2. /\ UNCHANGED <<wiring, bcm, slave>> /\ wiring = "tegra"
        /\ spi' = [spi EXCEPT !.written = spi.written + 1]
        /\ tegra' = IF Len(tegra.tx) < TegraDepth
                    THEN [tegra EXCEPT !.tx = Append(tegra.tx, octet)]
                    ELSE [tegra EXCEPT !.errors = tegra.errors \cup {"TX_OVF"}]
    BY <1>7 DEF TegraWriteFifo
  <2> HIDE DEF octet
  <2>3. CASE Len(tegra.tx) < TegraDepth
    <3>1. Append(tegra.tx, octet) \in Seq(OctetType)
      BY <1>1, <2>1
    <3> QED BY <1>2, <1>3, <1>4, <2>1, <2>2, <2>3, <3>1
  <2>4. CASE ~(Len(tegra.tx) < TegraDepth)
    <3>1. tegra.errors \cup {"TX_OVF"} \in SUBSET {"TX_OVF", "RX_UNF", "TX_UNF", "RX_OVF"}
      BY <1>1
    <3> QED BY <1>2, <1>3, <1>5, <2>1, <2>2, <2>4, <3>1
  <2> QED BY <2>3, <2>4
<1>8. CASE TegraReadFifo
  <2>1. /\ UNCHANGED <<wiring, bcm, slave, spi>> /\ wiring = "tegra"
        /\ tegra' = IF tegra.rx = <<>>
                    THEN [tegra EXCEPT !.errors = tegra.errors \cup {"RX_UNF"}]
                    ELSE [tegra EXCEPT !.rx = Tail(tegra.rx)]
    BY <1>8 DEF TegraReadFifo
  <2>2. CASE tegra.rx = <<>>
    <3>1. tegra.errors \cup {"RX_UNF"} \in SUBSET {"TX_OVF", "RX_UNF", "TX_UNF", "RX_OVF"}
      BY <1>1
    <3> QED BY <1>1, <1>2, <1>5, <2>1, <2>2, <3>1
  <2>3. CASE tegra.rx # <<>>
    <3>1. Tail(tegra.rx) \in Seq(Nat \cup {"nobody"})
      BY <1>1, <2>3
    <3> QED BY <1>1, <1>2, <1>6, <2>1, <2>3, <3>1
  <2> QED BY <2>2, <2>3
<1>9. CASE TegraAcknowledge
  <2>1. /\ UNCHANGED <<wiring, bcm, slave>> /\ wiring = "tegra"
        /\ tegra' = [tegra EXCEPT !.ready = FALSE]
        /\ spi' = [spi EXCEPT !.setups = spi.setups + 1] /\ spi.setups + 1 \in Nat
    BY <1>1, <1>9 DEF TegraAcknowledge
  <2>2. /\ tegra' \in TegraMaster /\ tegra'.soft = tegra.soft /\ tegra'.selected = tegra.selected
        /\ tegra'.transmitted = tegra.transmitted
    BY <1>1, <2>1 DEF TegraMaster
  <2> QED BY <1>2, <1>3, <2>1, <2>2
<1>10. ASSUME NEW flush \in SUBSET {"TX", "RX"}, TegraFifoStatus(flush)
       PROVE  LinkTypeOK' /\ Served(slave, slave') /\ (FrameInv => FrameInv')
  <2> DEFINE tx == IF "TX" \in flush THEN <<>> ELSE tegra.tx
             rx == IF "RX" \in flush THEN <<>> ELSE tegra.rx
             t  == [tegra EXCEPT !.tx = tx, !.rx = rx]
             u  == [t EXCEPT !.errors = {}]
  <2>1. /\ UNCHANGED <<wiring, bcm, slave>> /\ wiring = "tegra"
        /\ tegra' = u
        /\ spi' = [spi EXCEPT !.setups = spi.setups + 1] /\ spi.setups + 1 \in Nat
    <3>1. /\ UNCHANGED <<wiring, bcm, slave>> /\ wiring = "tegra"
          /\ spi' = [spi EXCEPT !.setups = spi.setups + 1]
      BY <1>10 DEF TegraFifoStatus
    <3>2. tegra' = u
      BY <1>10 DEF TegraFifoStatus
    <3> QED BY <1>1, <3>1, <3>2
  <2>2. tx \in Seq(OctetType) /\ rx \in Seq(Nat \cup {"nobody"})
    BY <1>1
  <2> HIDE DEF tx, rx
  <2>3. /\ t \in TegraMaster /\ t.soft = tegra.soft /\ t.selected = tegra.selected
        /\ t.transmitted = tegra.transmitted
    BY <1>1, <2>2 DEF TegraMaster
  <2> HIDE DEF t
  <2>4. /\ u \in TegraMaster /\ u.soft = tegra.soft /\ u.selected = tegra.selected
        /\ u.transmitted = tegra.transmitted
    BY <2>3 DEF TegraMaster
  <2> QED BY <1>2, <1>3, <2>1, <2>4
<1> QED
  BY <1>7, <1>8, <1>9, <1>10

LEMMA MasterKeeps ==
  ASSUME LinkTypeOK, Master
  PROVE  LinkTypeOK' /\ Served(slave, slave') /\ (SoftwareCs = FALSE /\ FrameInv => FrameInv')
<1>1. ASSUME NEW cs \in Lines, NEW ta \in BOOLEAN, NEW ints \in {{}, {"INTR", "INTD"}},
             NEW clear \in BOOLEAN, BcmWriteCs(cs, ta, ints, clear)
      PROVE  LinkTypeOK' /\ Served(slave, slave') /\ (FrameInv => FrameInv')
  BY <1>1, BcmWriteCsKeeps
<1>2. ASSUME NEW to \in Addresses, NEW read \in BOOLEAN, BcmWriteFifo(to, read)
      PROVE  LinkTypeOK' /\ Served(slave, slave') /\ (FrameInv => FrameInv')
  BY <1>2, BcmWriteFifoKeeps
<1>3. ASSUME NEW cs \in Lines, NEW soft \in BOOLEAN, NEW value \in BOOLEAN, NEW count \in 0 .. 2,
             TegraCommand(cs, soft, value, count)
      PROVE  LinkTypeOK' /\ Served(slave, slave') /\ (SoftwareCs = FALSE /\ FrameInv => FrameInv')
  BY <1>3, TegraCommandKeeps
<1> QED
  BY <1>1, <1>2, <1>3, BcmReadFifoKeeps, TegraRegistersKeep DEF Master

LEMMA SlaveKeeps ==
  ASSUME LinkTypeOK, Slave
  PROVE  LinkTypeOK' /\ (FrameInv => FrameInv')
<1>1. /\ slave \in SlaveState /\ spi \in History /\ slave.rx \in Seq(OctetType)
      /\ spi.queued \in Seq(Nat) /\ spi.heard \in Seq(OctetType) /\ spi.setups \in Nat
      /\ spi.excused \in BOOLEAN
  BY DEF LinkTypeOK, SlaveState, History
<1>2. ASSUME NEW s \in SlaveState, s.current = slave.current, s.dialogues = slave.dialogues,
             SlaveStep(s), spi' \in History, spi'.frame = spi.frame, spi'.written = spi.written
      PROVE  LinkTypeOK' /\ (FrameInv => FrameInv')
  BY <1>2 DEF SlaveStep, LinkTypeOK, FrameInv, Framed
<1>3. ASSUME NEW n \in Nat, NEW b \in BOOLEAN
      PROVE  /\ [spi EXCEPT !.setups = n] \in History
             /\ [spi EXCEPT !.setups = n].frame = spi.frame
             /\ [spi EXCEPT !.setups = n].written = spi.written
             /\ [spi EXCEPT !.excused = b, !.setups = n] \in History
             /\ [spi EXCEPT !.excused = b, !.setups = n].frame = spi.frame
             /\ [spi EXCEPT !.excused = b, !.setups = n].written = spi.written
             /\ [spi EXCEPT !.excused = b] \in History
             /\ [spi EXCEPT !.excused = b].frame = spi.frame
             /\ [spi EXCEPT !.excused = b].written = spi.written
  BY <1>1 DEF History
<1>4. CASE SlaveReads
  <2> DEFINE heard == IF slave.rx = <<>> THEN spi.heard ELSE Append(spi.heard, Head(slave.rx))
  <2>1. heard \in Seq(OctetType)
    BY <1>1
  <2>2. spi' = [spi EXCEPT !.heard = heard] /\ SlaveStep(ReadDr(slave))
    BY <1>4 DEF SlaveReads
  <2> HIDE DEF heard
  <2>3. spi' \in History /\ spi'.frame = spi.frame /\ spi'.written = spi.written
    BY <1>1, <2>1, <2>2 DEF History
  <2> QED BY <1>1, <1>2, <2>2, <2>3, FirmwareKeeps
<1>5. CASE SlaveWrites
  <2> DEFINE answer == Len(spi.queued) + 1
             queued == IF "TXFF" \in Flags(slave) THEN spi.queued ELSE Append(spi.queued, answer)
  <2>1. answer \in Nat
    BY <1>1
  <2>2. spi' = [spi EXCEPT !.queued = queued] /\ SlaveStep(WriteDr(slave, answer))
    BY <1>5 DEF SlaveWrites
  <2> HIDE DEF answer
  <2>3. queued \in Seq(Nat)
    BY <1>1, <2>1
  <2> HIDE DEF queued
  <2>4. spi' \in History /\ spi'.frame = spi.frame /\ spi'.written = spi.written
    BY <1>1, <2>2, <2>3 DEF History
  <2> QED BY <1>1, <1>2, <2>1, <2>2, <2>4, FirmwareKeeps
<1>6. CASE SlaveForgives
  <2>1. spi' = [spi EXCEPT !.excused = TRUE] /\ SlaveStep(ClearOverrun(slave))
    BY <1>6 DEF SlaveForgives
  <2> QED BY <1>1, <1>2, <1>3, <2>1, FirmwareKeeps
<1>7. ASSUME NEW bits \in Controls, NEW brk \in BOOLEAN, SlaveControl(bits, brk)
      PROVE  LinkTypeOK' /\ (FrameInv => FrameInv')
  <2> DEFINE excused == spi.excused \/ "RXE" \notin bits
  <2>1. /\ spi' = [spi EXCEPT !.excused = excused, !.setups = spi.setups + 1]
        /\ SlaveStep(WriteCr(slave, bits, brk))
    BY <1>7 DEF SlaveControl
  <2>2. excused \in BOOLEAN /\ spi.setups + 1 \in Nat
    BY <1>1
  <2> HIDE DEF excused
  <2> QED BY <1>1, <1>2, <1>3, <2>1, <2>2, FirmwareKeeps
<1>8. ASSUME NEW address \in Addresses, SlaveAddress(address)
      PROVE  LinkTypeOK' /\ (FrameInv => FrameInv')
  <2>1. spi' = [spi EXCEPT !.setups = spi.setups + 1] /\ SlaveStep(WriteSlv(slave, address))
    BY <1>8 DEF SlaveAddress
  <2>2. spi.setups + 1 \in Nat
    BY <1>1
  <2> QED BY <1>1, <1>2, <1>3, <2>1, <2>2, FirmwareKeeps
<1>9. ASSUME NEW bits \in Masks, SlaveMask(bits)
      PROVE  LinkTypeOK' /\ (FrameInv => FrameInv')
  <2>1. spi' = [spi EXCEPT !.setups = spi.setups + 1] /\ SlaveStep(WriteImsc(slave, bits))
    BY <1>9 DEF SlaveMask
  <2>2. spi.setups + 1 \in Nat
    BY <1>1
  <2> QED BY <1>1, <1>2, <1>3, <2>1, <2>2, FirmwareKeeps
<1> QED
  BY <1>4, <1>5, <1>6, <1>7, <1>8, <1>9 DEF Slave

-----------------------------------------------------------------------------
(* Faithfulness: what the slave block does to the octets in its FIFOs.     *)

\* What was driven on MISO and what is still queued is q.
Replies(s, e, q) ==
  /\ e \in Seq(OctetType \X Nat)
  /\ s.tx \in Seq(Nat \ {Idle})
  /\ OctetsDriven(e) \o s.tx = q

\* What firmware heard and what waits for it is what was written.  A block that is not
\* selected awaits an address, and one that does has nothing of a dialogue yet.
Delivers(s, h) ==
  /\ "RXE" \in s.cr
  /\ ~s.selected => s.awaiting
  /\ s.awaiting => s.current = <<>>
  /\ ~s.overrun => h \o s.rx = OctetsWritten(s.dialogues) \o Ongoing(s)

LEMMA InterruptsLeave ==
  ASSUME NEW s \in SlaveState
  PROVE  LET t == UpdateInterrupts(s)
         IN  /\ t \in SlaveState
             /\ t.cr = s.cr /\ t.rx = s.rx /\ t.tx = s.tx /\ t.overrun = s.overrun
             /\ t.selected = s.selected /\ t.awaiting = s.awaiting /\ t.reading = s.reading
             /\ t.current = s.current /\ t.dialogues = s.dialogues
BY DEF UpdateInterrupts, SlaveState

LEMMA SlaveFields ==
  ASSUME NEW s \in SlaveState
  PROVE  /\ s.rx \in Seq(OctetType) /\ s.tx \in Seq(Nat) /\ s.current \in Seq(OctetType)
         /\ s.dialogues \in Seq(Dialogue) /\ OctetsWritten(s.dialogues) \in Seq(OctetType)
         /\ s.reading \in BOOLEAN /\ s.awaiting \in BOOLEAN /\ s.selected \in BOOLEAN
         /\ s.overrun \in BOOLEAN /\ s.addressed \in BOOLEAN
<1>1. /\ s.rx \in Seq(OctetType) /\ s.tx \in Seq(Nat) /\ s.current \in Seq(OctetType)
      /\ s.dialogues \in Seq(Dialogue)
      /\ s.reading \in BOOLEAN /\ s.awaiting \in BOOLEAN /\ s.selected \in BOOLEAN
      /\ s.overrun \in BOOLEAN /\ s.addressed \in BOOLEAN
  BY DEF SlaveState
<1>2. OctetsWritten(s.dialogues) \in Seq(OctetType)
  <2> DEFINE d == [to |-> "nobody", read |-> TRUE, payload |-> <<>>]
  <2>1. d \in Dialogue
    BY DEF Dialogue
  <2> QED BY <1>1, <2>1, WrittenAppends
<1> QED BY <1>1, <1>2

\* What a selected block makes of an octet.
LEMMA ExchangedDelivers ==
  ASSUME NEW s \in SlaveState, NEW o \in OctetType, NEW h \in Seq(OctetType),
         Delivers(s, h), s.selected
  PROVE  LET t == Exchanged(s, o).slave IN Delivers(t, h) /\ t.selected
<1> DEFINE written == OctetsWritten(s.dialogues)
<1>0. /\ s.rx \in Seq(OctetType) /\ s.current \in Seq(OctetType) /\ written \in Seq(OctetType)
      /\ s.awaiting \in BOOLEAN /\ s.addressed \in BOOLEAN /\ s.reading \in BOOLEAN
      /\ s.overrun \in BOOLEAN
  BY SlaveFields
<1>1. CASE s.awaiting
  <2> DEFINE t == TakeAddress(s, o)
  <2>1. Exchanged(s, o).slave = t
    BY <1>1 DEF Exchanged
  <2>2. /\ t.cr = s.cr /\ t.rx = s.rx /\ t.overrun = s.overrun /\ t.dialogues = s.dialogues
        /\ t.selected = s.selected /\ t.current = s.current /\ t.awaiting = FALSE
    BY DEF TakeAddress, SlaveState
  <2> HIDE DEF t
  <2>3. Ongoing(t) = Ongoing(s)
    BY <1>1, <2>2 DEF Ongoing, Delivers
  <2> QED BY <2>1, <2>2, <2>3 DEF Delivers
<1>2. CASE ~s.awaiting /\ ~s.addressed
  <2>1. Exchanged(s, o).slave = s
    BY <1>2 DEF Exchanged
  <2> QED BY <2>1
<1>3. CASE ~s.awaiting /\ s.addressed /\ s.reading
  <2> DEFINE tx == IF Answers(s) THEN Tail(s.tx) ELSE s.tx
             current == Append(s.current, o)
             u == [s EXCEPT !.current = current, !.tx = tx]
             t == UpdateInterrupts(u)
  <2>1. Exchanged(s, o).slave = t
    BY <1>3 DEF Exchanged, Answered
  <2>2. tx \in Seq(Nat) /\ current \in Seq(OctetType)
    BY <1>0, SlaveFields, HeadTailProperties DEF Answers
  <2> HIDE DEF tx, current
  <2>3. /\ u \in SlaveState
        /\ u.cr = s.cr /\ u.rx = s.rx /\ u.overrun = s.overrun /\ u.dialogues = s.dialogues
        /\ u.selected = s.selected /\ u.awaiting = s.awaiting /\ u.reading = s.reading
    BY <2>2 DEF SlaveState
  <2> HIDE DEF u
  <2>4. /\ t.cr = s.cr /\ t.rx = s.rx /\ t.overrun = s.overrun /\ t.dialogues = s.dialogues
        /\ t.selected = s.selected /\ t.awaiting = s.awaiting /\ t.reading = s.reading
    BY <2>3, InterruptsLeave
  <2> HIDE DEF t
  <2>5. Ongoing(t) = Ongoing(s)
    BY <1>3, <2>4 DEF Ongoing
  <2> QED BY <1>3, <2>1, <2>4, <2>5 DEF Delivers
<1>4. CASE ~s.awaiting /\ s.addressed /\ ~s.reading
  <2> DEFINE fits == "RXE" \in s.cr /\ Len(s.rx) < FifoDepth
             rx == IF fits THEN Append(s.rx, o) ELSE s.rx
             current == Append(s.current, o)
             over == s.overrun \/ ("RXE" \in s.cr /\ Len(s.rx) >= FifoDepth)
             u == [s EXCEPT !.current = current, !.rx = rx, !.overrun = over]
             t == UpdateInterrupts(u)
  <2>1. Exchanged(s, o).slave = t
    BY <1>4 DEF Exchanged, Kept
  <2>2. rx \in Seq(OctetType) /\ current \in Seq(OctetType) /\ over \in BOOLEAN
    BY <1>0, AppendProperties
  <2>3. ~over => ~s.overrun /\ rx = Append(s.rx, o)
    BY <1>0, SlaveAssumption DEF Delivers
  <2> HIDE DEF rx, over
  <2>4. /\ u \in SlaveState
        /\ u.cr = s.cr /\ u.rx = rx /\ u.overrun = over /\ u.dialogues = s.dialogues
        /\ u.selected = s.selected /\ u.awaiting = s.awaiting /\ u.reading = s.reading
        /\ u.current = current
    <3> HIDE DEF current
    <3> QED BY <2>2 DEF SlaveState
  <2> HIDE DEF u
  <2>5. /\ t.cr = s.cr /\ t.rx = rx /\ t.overrun = over /\ t.dialogues = s.dialogues
        /\ t.selected = s.selected /\ t.awaiting = s.awaiting /\ t.reading = s.reading
        /\ t.current = current
    BY <2>4, InterruptsLeave
  <2> HIDE DEF t
  <2>6. Ongoing(t) = Append(s.current, o) /\ Ongoing(s) = s.current
    BY <1>4, <2>5 DEF Ongoing
  <2>7. ASSUME ~over
        PROVE  h \o t.rx = OctetsWritten(t.dialogues) \o Ongoing(t)
    <3>1. h \o s.rx = written \o s.current
      BY <2>3, <2>6, <2>7 DEF Delivers
    <3>2. h \o Append(s.rx, o) = Append(h \o s.rx, o)
      BY <1>0, ConcatAppend
    <3>3. written \o Append(s.current, o) = Append(written \o s.current, o)
      <4> HIDE DEF written
      <4> QED BY <1>0, ConcatAppend
    <3> HIDE DEF written
    <3> QED BY <2>3, <2>5, <2>6, <2>7, <3>1, <3>2, <3>3, Zenon DEF written
  <2> QED BY <1>4, <2>1, <2>5, <2>7 DEF Delivers
<1> QED
  BY <1>0, <1>1, <1>2, <1>3, <1>4

\* The beginning and the end of a dialogue.
LEMMA SelectDelivers ==
  ASSUME NEW s \in SlaveState, NEW h, Delivers(s, h), ~s.selected
  PROVE  Delivers(Select(s), h) /\ Select(s).selected
<1> DEFINE t == Select(s)
           u == [s EXCEPT !.selected = TRUE, !.awaiting = TRUE, !.reading = FALSE]
<1>1. t = [u EXCEPT !.addressed = FALSE, !.current = <<>>]
  BY DEF Select
<1>2. /\ u \in SlaveState /\ u.cr = s.cr /\ u.rx = s.rx /\ u.overrun = s.overrun
      /\ u.dialogues = s.dialogues /\ u.selected = TRUE /\ u.awaiting = TRUE
      /\ u.reading = FALSE
  BY DEF SlaveState
<1> HIDE DEF u, t
<1>3. /\ t.cr = s.cr /\ t.rx = s.rx /\ t.overrun = s.overrun
      /\ t.dialogues = s.dialogues /\ t.selected = TRUE /\ t.awaiting = TRUE
      /\ t.reading = FALSE /\ t.current = <<>>
  BY <1>1, <1>2 DEF SlaveState
<1>4. Ongoing(t) = <<>> /\ Ongoing(s) = <<>>
  BY <1>3 DEF Ongoing, Delivers
<1> QED
  BY <1>3, <1>4 DEF Delivers, t

LEMMA DeselectDelivers ==
  ASSUME NEW s \in SlaveState, NEW h \in Seq(OctetType), Delivers(s, h)
  PROVE  Delivers(Deselect(s), h) /\ ~Deselect(s).selected
<1> DEFINE t == Deselect(s)
           d == [to |-> IF s.addressed THEN s.slv ELSE "nobody",
                 read |-> s.reading, payload |-> s.current]
           ds == IF s.selected /\ ~s.awaiting THEN Append(s.dialogues, d) ELSE s.dialogues
           u == [s EXCEPT !.dialogues = ds, !.selected = FALSE]
<1>1. t = [u EXCEPT !.awaiting = TRUE, !.current = <<>>]
  BY DEF Deselect
<1>2. d \in Dialogue
  BY DEF Dialogue, SlaveState
<1>3. Delivered(d) = Ongoing(s)
  BY DEF Delivered, Ongoing
<1> HIDE DEF d
<1>4. ds \in Seq(Dialogue)
  BY <1>2, SlaveFields, AppendProperties
<1>5. OctetsWritten(ds) = OctetsWritten(s.dialogues) \o Ongoing(s)
  <2>1. CASE s.selected /\ ~s.awaiting
    BY <1>2, <1>3, <2>1, SlaveFields, WrittenAppends
  <2>2. CASE ~(s.selected /\ ~s.awaiting)
    <3>1. Ongoing(s) = <<>>
      BY <2>2, SlaveFields DEF Ongoing, Delivers
    <3>2. ds = s.dialogues
      BY <2>2
    <3> HIDE DEF ds
    <3> QED BY <3>1, <3>2, SlaveFields, ConcatEmptySeq
  <2> QED BY <2>1, <2>2
<1> HIDE DEF ds, t
<1>6. /\ u \in SlaveState /\ u.cr = s.cr /\ u.rx = s.rx /\ u.overrun = s.overrun
      /\ u.dialogues = ds /\ u.selected = FALSE
  BY <1>4 DEF SlaveState
<1> HIDE DEF u
<1>7. /\ t.cr = s.cr /\ t.rx = s.rx /\ t.overrun = s.overrun
      /\ t.dialogues = ds /\ t.selected = FALSE /\ t.awaiting = TRUE /\ t.current = <<>>
  <2> DEFINE v == [u EXCEPT !.awaiting = TRUE]
  <2>1. /\ v \in SlaveState /\ v.cr = s.cr /\ v.rx = s.rx /\ v.overrun = s.overrun
        /\ v.dialogues = ds /\ v.selected = FALSE /\ v.awaiting = TRUE
    BY <1>6 DEF SlaveState
  <2>2. t = [v EXCEPT !.current = <<>>]
    BY <1>1
  <2> HIDE DEF v
  <2> QED BY <2>1, <2>2 DEF SlaveState
<1>8. OctetsWritten(t.dialogues) \o Ongoing(t) = OctetsWritten(s.dialogues) \o Ongoing(s)
  <2>1. Ongoing(t) = <<>>
    BY <1>7 DEF Ongoing
  <2> QED BY <1>5, <1>7, <2>1, SlaveFields, ConcatEmptySeq
<1> QED
  BY <1>7, <1>8 DEF Delivers, t

\* An octet on its way back.
LEMMA ExchangedReplies ==
  ASSUME NEW s \in SlaveState, NEW o \in OctetType, NEW e, NEW q, Replies(s, e, q)
  PROVE  LET x == Exchanged(s, o) IN Replies(x.slave, Append(e, <<o, x.miso>>), q)
<1> DEFINE driven == OctetsDriven(e)
<1>0. /\ s.tx \in Seq(Nat \ {Idle}) /\ e \in Seq(OctetType \X Nat) /\ driven \o s.tx = q
      /\ s.awaiting \in BOOLEAN /\ s.addressed \in BOOLEAN /\ s.reading \in BOOLEAN
      /\ driven \in Seq(Nat)
  <2>1. /\ s.tx \in Seq(Nat \ {Idle}) /\ e \in Seq(OctetType \X Nat) /\ driven \o s.tx = q
    BY DEF Replies
  <2>2. Idle \in Nat
    BY DEF Idle
  <2> QED BY <2>1, <2>2, SlaveFields, DrivenAppends
<1> HIDE DEF driven
<1>1. ASSUME NEW t, t.tx = s.tx
      PROVE  Replies(t, Append(e, <<o, Idle>>), q)
  <2>1. Idle \in Nat
    BY DEF Idle
  <2>2. OctetsDriven(Append(e, <<o, Idle>>)) = driven \o <<>>
    BY <1>0, <2>1, DrivenAppends DEF driven
  <2>3. driven \o <<>> = driven
    BY <1>0, ConcatEmptySeq
  <2>4. Append(e, <<o, Idle>>) \in Seq(OctetType \X Nat)
    BY <1>0, <2>1
  <2> QED BY <1>0, <1>1, <2>2, <2>3, <2>4 DEF Replies
<1>2. CASE s.awaiting
  <2>1. Exchanged(s, o) = [slave |-> TakeAddress(s, o), miso |-> Idle]
    BY <1>2 DEF Exchanged
  <2>2. TakeAddress(s, o).tx = s.tx
    BY DEF TakeAddress, SlaveState
  <2> QED BY <1>1, <2>1, <2>2
<1>3. CASE ~s.awaiting /\ ~s.addressed
  <2>1. Exchanged(s, o) = [slave |-> s, miso |-> Idle]
    BY <1>3 DEF Exchanged
  <2> QED BY <1>1, <2>1
<1>4. CASE ~s.awaiting /\ s.addressed /\ s.reading
  <2> DEFINE tx == IF Answers(s) THEN Tail(s.tx) ELSE s.tx
             miso == IF Answers(s) THEN Head(s.tx) ELSE Idle
             current == Append(s.current, o)
             u == [s EXCEPT !.current = current, !.tx = tx]
             t == UpdateInterrupts(u)
  <2>1. Exchanged(s, o) = [slave |-> t, miso |-> miso]
    BY <1>4 DEF Exchanged, Answered
  <2>2. tx \in Seq(Nat) /\ current \in Seq(OctetType)
    BY SlaveFields, HeadTailProperties, AppendProperties DEF Answers
  <2> HIDE DEF tx, current
  <2>3. u \in SlaveState /\ u.tx = tx
    BY <2>2 DEF SlaveState
  <2> HIDE DEF u
  <2>4. t.tx = tx
    BY <2>3, InterruptsLeave
  <2> HIDE DEF t
  <2>5. CASE ~Answers(s)
    BY <1>1, <2>1, <2>4, <2>5 DEF tx
  <2>6. CASE Answers(s)
    <3> DEFINE first == Head(s.tx)
               rest  == Tail(s.tx)
    <3>1. /\ first \in Nat \ {Idle} /\ rest \in Seq(Nat \ {Idle})
          /\ s.tx = <<first>> \o rest
      <4>1. s.tx # <<>>
        BY <2>6 DEF Answers
      <4> QED BY <1>0, <4>1, HeadTailProperties
    <3>2. miso = first /\ t.tx = rest
      BY <2>4, <2>6 DEF tx
    <3> HIDE DEF first, rest, miso
    <3>3. OctetsDriven(Append(e, <<o, first>>)) = driven \o <<first>>
      BY <1>0, <3>1, DrivenAppends DEF driven
    <3>4. (driven \o <<first>>) \o rest = driven \o (<<first>> \o rest)
      <4>1. <<first>> \in Seq(Nat) /\ rest \in Seq(Nat)
        BY <3>1
      <4> QED BY <1>0, <4>1, ConcatAssociative
    <3>5. Append(e, <<o, first>>) \in Seq(OctetType \X Nat)
      BY <1>0, <3>1
    <3>6. OctetsDriven(Append(e, <<o, first>>)) \o rest = q
      BY <1>0, <3>1, <3>3, <3>4, Zenon
    <3>7. Replies(t, Append(e, <<o, first>>), q)
      BY <3>1, <3>2, <3>5, <3>6, Zenon DEF Replies
    <3> QED BY <2>1, <3>2, <3>7
  <2> QED BY <2>5, <2>6
<1>5. CASE ~s.awaiting /\ s.addressed /\ ~s.reading
  <2> DEFINE rx == IF "RXE" \in s.cr /\ Len(s.rx) < FifoDepth THEN Append(s.rx, o) ELSE s.rx
             current == Append(s.current, o)
             over == s.overrun \/ ("RXE" \in s.cr /\ Len(s.rx) >= FifoDepth)
             u == [s EXCEPT !.current = current, !.rx = rx, !.overrun = over]
  <2>1. Exchanged(s, o) = [slave |-> UpdateInterrupts(u), miso |-> Idle]
    BY <1>5 DEF Exchanged, Kept
  <2>2. rx \in Seq(OctetType) /\ current \in Seq(OctetType) /\ over \in BOOLEAN
    BY SlaveFields, AppendProperties
  <2> HIDE DEF rx, current, over
  <2>3. u \in SlaveState /\ u.tx = s.tx
    BY <2>2 DEF SlaveState
  <2> HIDE DEF u
  <2>4. UpdateInterrupts(u).tx = s.tx
    BY <2>3, InterruptsLeave
  <2> QED BY <1>1, <2>1, <2>4
<1> QED
  BY <1>0, <1>2, <1>3, <1>4, <1>5

LEMMA TransferReplies ==
  ASSUME NEW s \in SlaveState, NEW o \in OctetType, NEW e, NEW q, Replies(s, e, q)
  PROVE  LET x == Transfer(s, o) IN Replies(x.slave, Append(e, <<o, x.miso>>), q)
<1>1. CASE ~(Enabling \subseteq s.cr)
  <2>1. Transfer(s, o) = [slave |-> s, miso |-> Idle]
    BY <1>1 DEF Transfer
  <2>2. e \in Seq(OctetType \X Nat) /\ Idle \in Nat
    BY DEF Replies, Idle
  <2>3. /\ OctetsDriven(e) \in Seq(Nat)
        /\ OctetsDriven(Append(e, <<o, Idle>>)) = OctetsDriven(e) \o <<>>
    BY <2>2, DrivenAppends
  <2>4. OctetsDriven(e) \o <<>> = OctetsDriven(e)
    BY <2>3, ConcatEmptySeq
  <2>5. Append(e, <<o, Idle>>) \in Seq(OctetType \X Nat)
    BY <2>2
  <2>6. Replies(s, Append(e, <<o, Idle>>), q)
    BY <2>3, <2>4, <2>5, Zenon DEF Replies
  <2> QED BY <2>1, <2>6
<1>2. CASE Enabling \subseteq s.cr /\ s.selected
  <2>1. Transfer(s, o) = Exchanged(s, o)
    BY <1>2 DEF Transfer
  <2> QED BY <2>1, ExchangedReplies
<1>3. CASE Enabling \subseteq s.cr /\ ~s.selected
  <2>1. Transfer(s, o) = Exchanged(Select(s), o)
    BY <1>3 DEF Transfer
  <2>2. Select(s) \in SlaveState /\ Select(s).tx = s.tx
    BY SelectKeeps
  <2>3. Replies(Select(s), e, q)
    <3> HIDE DEF Select
    <3> QED BY <2>2 DEF Replies
  <2> HIDE DEF Select
  <2> QED BY <2>1, <2>2, <2>3, ExchangedReplies
<1> QED
  BY <1>1, <1>2, <1>3

LEMMA TransferDelivers ==
  ASSUME NEW s \in SlaveState, NEW o \in OctetType, NEW h \in Seq(OctetType),
         Delivers(s, h), s.selected
  PROVE  LET t == Transfer(s, o).slave IN Delivers(t, h) /\ t.selected
<1>1. CASE ~(Enabling \subseteq s.cr)
  <2>1. Transfer(s, o).slave = s
    BY <1>1 DEF Transfer
  <2> QED BY <2>1
<1>2. CASE Enabling \subseteq s.cr
  <2>1. Transfer(s, o) = Exchanged(s, o)
    BY <1>2 DEF Transfer
  <2> QED BY <2>1, ExchangedDelivers
<1> QED
  BY <1>1, <1>2

-----------------------------------------------------------------------------
(* Faithfulness: the order of the words of a master.                       *)

\* Octets sent and octets that wait are in the order written, the latter later, and
\* firmware wrote no more than n.
InOrder(sent, waiting, n) ==
  /\ \A i \in DOMAIN sent : sent[i].n <= n
  /\ \A j \in DOMAIN waiting : 0 < waiting[j].n /\ waiting[j].n <= n
  /\ Increasing(sent) /\ Increasing(waiting)
  /\ \A i \in DOMAIN sent, j \in DOMAIN waiting : sent[i].n < waiting[j].n

LEMMA OrderStarts ==
  ASSUME NEW n \in Nat
  PROVE  InOrder(<<>>, <<>>, n)
BY DEF InOrder, Increasing

LEMMA OctetNumbers ==
  ASSUME NEW seq \in Seq(OctetType)
  PROVE  /\ Len(seq) \in Nat /\ DOMAIN seq = 1 .. Len(seq)
         /\ \A i \in 1 .. Len(seq) : seq[i].n \in Nat
<1>1. \A o \in OctetType : o.n \in Nat
  BY DEF OctetType
<1> QED BY <1>1

LEMMA AppendedIncreases ==
  ASSUME NEW seq \in Seq(OctetType), Increasing(seq), NEW o \in OctetType,
         o.n = 0 \/ \A i \in DOMAIN seq : seq[i].n < o.n
  PROVE  Increasing(Append(seq, o))
<1> DEFINE all == Append(seq, o)
           m == Len(seq)
<1>1. m \in Nat /\ DOMAIN seq = 1 .. m /\ (\A i \in 1 .. m : seq[i].n \in Nat) /\ o.n \in Nat
  BY OctetNumbers DEF OctetType
<1>2. DOMAIN all = 1 .. m + 1 /\ (\A i \in 1 .. m : all[i] = seq[i]) /\ all[m + 1] = o
  BY AppendProperties
<1> HIDE DEF all, m
<1>3. ASSUME NEW i \in 1 .. m + 1, NEW j \in 1 .. m + 1, i < j, all[i].n > 0, all[j].n > 0
      PROVE  all[i].n < all[j].n
  <2>1. i \in 1 .. m
    BY <1>1, <1>3
  <2>2. CASE j = m + 1
    BY <1>1, <1>2, <1>3, <2>1, <2>2
  <2>3. CASE j \in 1 .. m
    BY <1>1, <1>2, <1>3, <2>1, <2>3 DEF Increasing
  <2> QED BY <1>1, <2>2, <2>3
<1> QED
  BY <1>2, <1>3 DEF Increasing, all

\* Firmware writes an octet that waits, or one that leaves at once.
LEMMA OrderQueues ==
  ASSUME NEW sent \in Seq(OctetType), NEW waiting \in Seq(OctetType), NEW n \in Nat,
         InOrder(sent, waiting, n), NEW o \in OctetType, o.n = n + 1
  PROVE  InOrder(sent, Append(waiting, o), n + 1)
<1> DEFINE all == Append(waiting, o)
           m == Len(waiting)
<1>1. /\ m \in Nat /\ DOMAIN waiting = 1 .. m /\ \A j \in 1 .. m : waiting[j].n \in Nat
      /\ Len(sent) \in Nat /\ DOMAIN sent = 1 .. Len(sent)
      /\ \A i \in 1 .. Len(sent) : sent[i].n \in Nat
  BY OctetNumbers
<1>2. DOMAIN all = 1 .. m + 1 /\ (\A j \in 1 .. m : all[j] = waiting[j]) /\ all[m + 1] = o
  BY AppendProperties
<1>3. Increasing(all)
  <2>1. \A j \in DOMAIN waiting : waiting[j].n < o.n
    <3> HIDE DEF all
    <3> QED BY <1>1 DEF InOrder
  <2>2. Increasing(waiting)
    BY DEF InOrder
  <2> QED BY <2>1, <2>2, AppendedIncreases
<1> HIDE DEF all, m
<1>4. ASSUME NEW j \in 1 .. m + 1
      PROVE  /\ 0 < all[j].n /\ all[j].n <= n + 1
             /\ \A i \in 1 .. Len(sent) : sent[i].n < all[j].n
  <2>1. CASE j = m + 1
    BY <1>1, <1>2, <2>1 DEF InOrder
  <2>2. CASE j \in 1 .. m
    <3>1. 0 < waiting[j].n /\ waiting[j].n <= n
      BY <1>1, <2>2, Zenon DEF InOrder
    <3>2. \A i \in 1 .. Len(sent) : sent[i].n < waiting[j].n
      BY <1>1, <2>2, Zenon DEF InOrder
    <3>3. all[j] = waiting[j] /\ waiting[j].n \in Nat
      BY <1>1, <1>2, <2>2
    <3> QED BY <3>1, <3>2, <3>3
  <2> QED BY <1>1, <2>1, <2>2
<1>5. \A i \in 1 .. Len(sent) : sent[i].n <= n + 1
  BY <1>1 DEF InOrder
<1> QED
  BY <1>1, <1>2, <1>3, <1>4, <1>5 DEF InOrder, all

LEMMA OrderSends ==
  ASSUME NEW sent \in Seq(OctetType), NEW n \in Nat, NEW k \in Nat,
         InOrder(sent, <<>>, n), NEW o \in OctetType, o.n = 0 \/ o.n = n + 1, o.n <= k, n <= k
  PROVE  InOrder(Append(sent, o), <<>>, k)
<1> DEFINE all == Append(sent, o)
           m == Len(sent)
<1>1. m \in Nat /\ DOMAIN sent = 1 .. m /\ (\A j \in 1 .. m : sent[j].n \in Nat) /\ o.n \in Nat
  BY OctetNumbers DEF OctetType
<1>2. DOMAIN all = 1 .. m + 1 /\ (\A j \in 1 .. m : all[j] = sent[j]) /\ all[m + 1] = o
  BY AppendProperties
<1>3. Increasing(all)
  BY <1>1, AppendedIncreases DEF InOrder
<1> HIDE DEF all, m
<1>4. ASSUME NEW i \in 1 .. m + 1
      PROVE  all[i].n <= k
  <2>1. CASE i = m + 1
    BY <1>2, <2>1
  <2>2. CASE i \in 1 .. m
    BY <1>1, <1>2, <2>2 DEF InOrder
  <2> QED BY <1>1, <2>1, <2>2
<1>5. Increasing(<<>>) /\ DOMAIN <<>> = {}
  BY DEF Increasing
<1>6. InOrder(all, <<>>, k)
  BY <1>2, <1>3, <1>4, <1>5, Zenon DEF InOrder
<1> QED
  BY <1>6 DEF all

\* The first octet that waits leaves, whatever frame it is put in.
LEMMA OrderMoves ==
  ASSUME NEW sent \in Seq(OctetType), NEW waiting \in Seq(OctetType), NEW n \in Nat,
         InOrder(sent, waiting, n), waiting # <<>>, NEW o \in OctetType, o.n = Head(waiting).n
  PROVE  InOrder(Append(sent, o), Tail(waiting), n)
<1> DEFINE all  == Append(sent, o)
           rest == Tail(waiting)
           m == Len(sent)
           k == Len(waiting)
<1>1. /\ m \in Nat /\ DOMAIN sent = 1 .. m /\ (\A i \in 1 .. m : sent[i].n \in Nat)
      /\ k \in Nat /\ DOMAIN waiting = 1 .. k /\ (\A j \in 1 .. k : waiting[j].n \in Nat)
  BY OctetNumbers
<1>2. DOMAIN all = 1 .. m + 1 /\ (\A i \in 1 .. m : all[i] = sent[i]) /\ all[m + 1] = o
  BY AppendProperties
<1>3. /\ k \in Nat \ {0} /\ DOMAIN rest = 1 .. k - 1
      /\ \A j \in 1 .. k - 1 : rest[j] = waiting[j + 1]
  BY HeadTailProperties, LenProperties
<1>4. o.n = waiting[1].n /\ 1 \in 1 .. k
  BY <1>3, HeadTailProperties
<1>5. Increasing(all)
  BY <1>1, <1>4, AppendedIncreases DEF InOrder
<1> HIDE DEF all, rest, m, k
<1>6. ASSUME NEW j \in 1 .. k - 1
      PROVE  /\ j + 1 \in 1 .. k /\ rest[j].n = waiting[j + 1].n
             /\ 0 < rest[j].n /\ rest[j].n <= n
             /\ \A i \in 1 .. m : sent[i].n < rest[j].n
             /\ o.n < rest[j].n
  <2>1. j + 1 \in 1 .. k /\ rest[j].n = waiting[j + 1].n
    BY <1>1, <1>3
  <2>2. 0 < waiting[j + 1].n /\ waiting[j + 1].n <= n /\ 0 < waiting[1].n
    BY <1>1, <1>4, <2>1 DEF InOrder
  <2>3. waiting[1].n < waiting[j + 1].n
    BY <1>1, <1>4, <2>1, <2>2 DEF InOrder, Increasing
  <2>4. \A i \in 1 .. m : sent[i].n < waiting[j + 1].n
    BY <1>1, <2>1 DEF InOrder
  <2> QED BY <1>4, <2>1, <2>2, <2>3, <2>4
<1>7. Increasing(rest)
  <2>1. ASSUME NEW i \in 1 .. k - 1, NEW j \in 1 .. k - 1, i < j
        PROVE  rest[i].n < rest[j].n
    <3>1. /\ i + 1 \in 1 .. k /\ rest[i].n = waiting[i + 1].n /\ 0 < waiting[i + 1].n
          /\ j + 1 \in 1 .. k /\ rest[j].n = waiting[j + 1].n /\ 0 < waiting[j + 1].n
      BY <1>6
    <3>2. \A a, b \in 1 .. k : a < b /\ waiting[a].n > 0 /\ waiting[b].n > 0
                                 => waiting[a].n < waiting[b].n
      BY <1>1 DEF InOrder, Increasing
    <3>3. i + 1 < j + 1 /\ waiting[i + 1].n > 0 /\ waiting[j + 1].n > 0
      BY <1>1, <2>1, <3>1
    <3>4. waiting[i + 1].n < waiting[j + 1].n
      BY <3>1, <3>2, <3>3, Zenon
    <3> QED BY <3>1, <3>4
  <2> QED BY <1>3, <2>1 DEF Increasing
<1>8. ASSUME NEW i \in 1 .. m + 1
      PROVE  all[i].n <= n /\ \A j \in 1 .. k - 1 : all[i].n < rest[j].n
  <2>1. CASE i = m + 1
    <3>1. o.n <= n
      BY <1>1, <1>4 DEF InOrder
    <3> QED BY <1>2, <1>6, <2>1, <3>1
  <2>2. CASE i \in 1 .. m
    BY <1>1, <1>2, <1>6, <2>2 DEF InOrder
  <2> QED BY <1>1, <2>1, <2>2
<1> QED
  BY <1>2, <1>3, <1>5, <1>6, <1>7, <1>8 DEF InOrder, all, rest

LEMMA OrderLasts ==
  ASSUME NEW sent \in Seq(OctetType), NEW waiting \in Seq(OctetType), NEW n \in Nat, NEW k \in Nat,
         InOrder(sent, waiting, n), n <= k
  PROVE  InOrder(sent, waiting, k) /\ InOrder(sent, <<>>, k)
<1>1. /\ Len(sent) \in Nat /\ DOMAIN sent = 1 .. Len(sent)
      /\ \A i \in 1 .. Len(sent) : sent[i].n \in Nat
      /\ Len(waiting) \in Nat /\ DOMAIN waiting = 1 .. Len(waiting)
      /\ \A i \in 1 .. Len(waiting) : waiting[i].n \in Nat
  BY OctetNumbers
<1>2. Increasing(<<>>)
  BY DEF Increasing
<1> QED
  BY <1>1, <1>2 DEF InOrder

\* The two sequences are one.
LEMMA OrderJoins ==
  ASSUME NEW sent \in Seq(OctetType), NEW waiting \in Seq(OctetType), NEW n \in Nat,
         InOrder(sent, waiting, n)
  PROVE  Increasing(sent \o waiting)
<1> DEFINE all == sent \o waiting
           m == Len(sent)
           k == Len(waiting)
<1>1. /\ m \in Nat /\ DOMAIN sent = 1 .. m /\ (\A i \in 1 .. m : sent[i].n \in Nat)
      /\ k \in Nat /\ DOMAIN waiting = 1 .. k /\ (\A j \in 1 .. k : waiting[j].n \in Nat)
  BY OctetNumbers
<1>2. /\ DOMAIN all = 1 .. m + k /\ (\A i \in 1 .. m : all[i] = sent[i])
      /\ \A i \in m + 1 .. m + k : all[i] = waiting[i - m]
  BY ConcatProperties, LenProperties
<1> HIDE DEF all, m, k
<1>3. ASSUME NEW i \in 1 .. m + k, NEW j \in 1 .. m + k, i < j, all[i].n > 0, all[j].n > 0
      PROVE  all[i].n < all[j].n
  <2>1. CASE j \in 1 .. m
    <3>1. i \in 1 .. m
      BY <1>1, <1>3, <2>1
    <3> QED BY <1>1, <1>2, <1>3, <2>1, <3>1 DEF InOrder, Increasing
  <2>2. CASE i \in 1 .. m /\ j \notin 1 .. m
    <3>1. j \in m + 1 .. m + k /\ j - m \in 1 .. k
      BY <1>1, <2>2
    <3> QED BY <1>1, <1>2, <2>2, <3>1 DEF InOrder
  <2>3. CASE i \notin 1 .. m
    <3>1. /\ i \in m + 1 .. m + k /\ i - m \in 1 .. k
          /\ j \in m + 1 .. m + k /\ j - m \in 1 .. k /\ i - m < j - m
      BY <1>1, <1>3, <2>3
    <3> QED BY <1>1, <1>2, <1>3, <3>1 DEF InOrder, Increasing
  <2> QED BY <2>1, <2>2, <2>3
<1> QED
  BY <1>2, <1>3 DEF Increasing, all

-----------------------------------------------------------------------------
(* Faithfulness: the link.                                                 *)

\* Outside of a transfer the slave is selected exactly while the BCM2835 asserts the
\* line it sits on; the Tegra controller selects it for a transfer only.  Firmware that
\* wrote outside a selection is excused, and nothing is asked of what it said.
FaithInv ==
  /\ Replies(slave, exchanges, spi.queued)
  /\ InOrder(tegra.transmitted, tegra.tx, spi.written)
  /\ InOrder(bcm.transmitted, <<>>, spi.written)
  /\ ~spi.excused =>
       /\ Delivers(slave, spi.heard)
       /\ slave.selected <=> wiring = "bcm" /\ Asserted(bcm)

LEMMA LinkFields ==
  ASSUME LinkTypeOK
  PROVE  /\ bcm \in BcmMaster /\ tegra \in TegraMaster /\ slave \in SlaveState /\ spi \in History
         /\ bcm.transmitted \in Seq(OctetType) /\ bcm.ta \in BOOLEAN
         /\ tegra.transmitted \in Seq(OctetType) /\ tegra.tx \in Seq(OctetType)
         /\ spi.written \in Nat /\ spi.frame \in Nat /\ spi.setups \in Nat
         /\ spi.queued \in Seq(Nat) /\ spi.heard \in Seq(OctetType) /\ spi.excused \in BOOLEAN
BY DEF LinkTypeOK, BcmMaster, TegraMaster, History

LEMMA BcmInterruptLeaves ==
  ASSUME NEW m \in BcmMaster
  PROVE  LET n == BcmInterrupt(m)
         IN  n.cs = m.cs /\ n.ta = m.ta /\ n.transmitted = m.transmitted
BY DEF BcmInterrupt, BcmMaster

LEMMA BcmWriteCsIsFaithful ==
  ASSUME LinkTypeOK, FaithInv, NEW cs \in Lines, NEW ta \in BOOLEAN,
         NEW ints \in {{}, {"INTR", "INTD"}}, NEW clear \in BOOLEAN,
         BcmWriteCs(cs, ta, ints, clear)
  PROVE  FaithInv'
<1> DEFINE rx == IF clear THEN <<>> ELSE bcm.rx
           n  == [bcm EXCEPT !.cs = cs, !.ta = ta]
           m  == [n EXCEPT !.ints = ints, !.rx = rx]
           frame == IF Asserted(bcm) # Asserted(m) THEN spi.written + 1 ELSE spi.frame
           setups == IF ints # bcm.ints THEN spi.setups + 1 ELSE spi.setups
<1>0. /\ bcm \in BcmMaster /\ slave \in SlaveState /\ spi \in History
      /\ spi.heard \in Seq(OctetType) /\ spi.excused \in BOOLEAN
  BY LinkFields
<1>1. /\ wiring = "bcm" /\ UNCHANGED <<wiring, tegra, exchanges>>
      /\ bcm' = BcmInterrupt(m) /\ slave' = BcmFraming(bcm, m, slave)
      /\ spi' = [spi EXCEPT !.frame = frame, !.setups = setups]
  BY DEF BcmWriteCs
<1> HIDE DEF frame, setups
<1>2. /\ spi'.written = spi.written /\ spi'.queued = spi.queued /\ spi'.heard = spi.heard
      /\ spi'.excused = spi.excused
  BY <1>0, <1>1 DEF History
<1>3. rx \in Seq(Nat \cup {"nobody"})
  BY <1>0 DEF BcmMaster
<1> HIDE DEF rx
<1>4. n \in BcmMaster /\ n.transmitted = bcm.transmitted
  BY <1>0 DEF BcmMaster
<1> HIDE DEF n
<1>5. m \in BcmMaster /\ m.transmitted = bcm.transmitted
  BY <1>3, <1>4 DEF BcmMaster
<1> HIDE DEF m
<1>6. bcm'.transmitted = bcm.transmitted /\ (Asserted(bcm') <=> Asserted(m))
  BY <1>1, <1>5, BcmInterruptLeaves DEF Asserted
<1>7. slave' = IF Asserted(bcm) /\ ~Asserted(m) THEN Deselect(slave)
               ELSE IF ~Asserted(bcm) /\ Asserted(m) THEN Select(slave) ELSE slave
  BY <1>0, <1>1, <1>5, FramingFollows
<1>8. slave'.tx = slave.tx
  BY <1>0, <1>7, SelectKeeps, DeselectKeeps
<1>9. Replies(slave', exchanges', spi'.queued)
  BY <1>1, <1>2, <1>8 DEF FaithInv, Replies
<1>10. ASSUME ~spi.excused
       PROVE  Delivers(slave', spi'.heard) /\ (slave'.selected <=> Asserted(bcm'))
  <2>1. Delivers(slave, spi.heard) /\ (slave.selected <=> Asserted(bcm))
    BY <1>1, <1>10 DEF FaithInv
  <2>2. CASE Asserted(bcm) /\ ~Asserted(m)
    <3>1. slave' = Deselect(slave)
      BY <1>7, <2>2
    <3> QED BY <1>0, <1>2, <1>6, <2>1, <2>2, <3>1, DeselectDelivers
  <2>3. CASE ~Asserted(bcm) /\ Asserted(m)
    <3>1. slave' = Select(slave)
      BY <1>7, <2>3
    <3> QED BY <1>0, <1>2, <1>6, <2>1, <2>3, <3>1, SelectDelivers
  <2>4. CASE Asserted(bcm) <=> Asserted(m)
    <3>1. slave' = slave
      BY <1>7, <2>4
    <3> QED BY <1>2, <1>6, <2>1, <2>4, <3>1
  <2> QED BY <2>2, <2>3, <2>4
<1> QED
  BY <1>1, <1>2, <1>6, <1>9, <1>10 DEF FaithInv

LEMMA BcmWriteFifoIsFaithful ==
  ASSUME LinkTypeOK, FaithInv, NEW to \in Addresses, NEW read \in BOOLEAN, BcmWriteFifo(to, read)
  PROVE  FaithInv'
<1> DEFINE octet == Octet(to, read, spi.written + 1, spi.frame)
           reply == Transfer(slave, octet)
           miso  == IF bcm.cs = BridgeCs THEN reply.miso ELSE "nobody"
           rx    == Append(bcm.rx, miso)
           sent  == Append(bcm.transmitted, octet)
           m     == [bcm EXCEPT !.rx = rx, !.transmitted = sent]
           excused == spi.excused \/ ~bcm.ta
           written == spi.written + 1
<1>0. /\ bcm \in BcmMaster /\ slave \in SlaveState /\ spi \in History
      /\ spi.heard \in Seq(OctetType) /\ spi.excused \in BOOLEAN /\ bcm.ta \in BOOLEAN
      /\ spi.written \in Nat /\ spi.frame \in Nat /\ written \in Nat
      /\ bcm.transmitted \in Seq(OctetType)
      /\ tegra.transmitted \in Seq(OctetType) /\ tegra.tx \in Seq(OctetType)
  BY LinkFields
<1>1. /\ wiring = "bcm" /\ UNCHANGED <<wiring, tegra>>
      /\ bcm' = BcmInterrupt(m)
      /\ slave' = IF bcm.cs = BridgeCs THEN reply.slave ELSE slave
      /\ exchanges' = IF bcm.cs = BridgeCs THEN Append(exchanges, <<octet, reply.miso>>)
                      ELSE exchanges
      /\ spi' = [spi EXCEPT !.written = written, !.excused = excused]
  BY DEF BcmWriteFifo
<1>2. octet \in OctetType /\ octet.n = written
  BY <1>0 DEF Octet, OctetType
<1> HIDE DEF octet
<1>3. reply.slave \in SlaveState /\ reply.miso \in Nat
  BY <1>0, <1>2, TransferKeeps
<1>4. Replies(reply.slave, Append(exchanges, <<octet, reply.miso>>), spi.queued)
  BY <1>0, <1>2, TransferReplies DEF FaithInv
<1>5. ASSUME Delivers(slave, spi.heard), slave.selected
      PROVE  Delivers(reply.slave, spi.heard) /\ reply.slave.selected
  BY <1>0, <1>2, <1>5, TransferDelivers
<1> HIDE DEF reply
<1>6. /\ spi'.written = written /\ spi'.excused = excused
      /\ spi'.queued = spi.queued /\ spi'.heard = spi.heard
  <2> HIDE DEF written, excused
  <2> QED BY <1>0, <1>1 DEF History
<1>7. sent \in Seq(OctetType) /\ rx \in Seq(Nat \cup {"nobody"})
  <2>1. bcm.rx \in Seq(Nat \cup {"nobody"}) /\ miso \in Nat \cup {"nobody"}
    BY <1>0, <1>3 DEF BcmMaster
  <2> HIDE DEF miso
  <2> QED BY <1>0, <1>2, <2>1
<1>8. InOrder(sent, <<>>, written)
  <2>1. InOrder(bcm.transmitted, <<>>, spi.written)
    BY DEF FaithInv
  <2>2. written = spi.written + 1 /\ written <= written /\ spi.written <= written
    BY <1>0
  <2> HIDE DEF written
  <2> QED BY <1>0, <1>2, <2>1, <2>2, OrderSends
<1>9. InOrder(tegra.transmitted, tegra.tx, written)
  <2>1. InOrder(tegra.transmitted, tegra.tx, spi.written)
    BY DEF FaithInv
  <2>2. spi.written <= written
    BY <1>0
  <2> HIDE DEF written
  <2> QED BY <1>0, <2>1, <2>2, OrderLasts
<1> HIDE DEF rx, sent
<1>10. m \in BcmMaster /\ m.cs = bcm.cs /\ m.ta = bcm.ta /\ m.transmitted = sent
  BY <1>0, <1>7 DEF BcmMaster
<1> HIDE DEF m
<1>11. bcm'.transmitted = sent /\ (Asserted(bcm') <=> Asserted(bcm))
  BY <1>1, <1>10, BcmInterruptLeaves DEF Asserted
<1>12. Replies(slave', exchanges', spi'.queued)
  BY <1>1, <1>4, <1>6 DEF FaithInv
<1>13. ASSUME ~excused
       PROVE  Delivers(slave', spi'.heard) /\ (slave'.selected <=> Asserted(bcm'))
  <2>1. Delivers(slave, spi.heard) /\ (slave.selected <=> Asserted(bcm)) /\ bcm.ta
    BY <1>1, <1>13 DEF FaithInv
  <2>2. CASE bcm.cs = BridgeCs
    BY <1>1, <1>5, <1>6, <1>11, <2>1, <2>2 DEF Asserted
  <2>3. CASE bcm.cs # BridgeCs
    BY <1>1, <1>6, <1>11, <2>1, <2>3
  <2> QED BY <2>2, <2>3
<1> HIDE DEF written, excused
<1> QED
  BY <1>1, <1>6, <1>8, <1>9, <1>11, <1>12, <1>13 DEF FaithInv

LEMMA BcmReadFifoIsFaithful ==
  ASSUME LinkTypeOK, FaithInv, BcmReadFifo
  PROVE  FaithInv'
<1> DEFINE rx == Tail(bcm.rx)
           m == [bcm EXCEPT !.rx = rx]
<1>1. bcm \in BcmMaster /\ bcm.rx \in Seq(Nat \cup {"nobody"})
  BY LinkFields DEF BcmMaster
<1>2. rx \in Seq(Nat \cup {"nobody"})
  BY <1>1 DEF BcmReadFifo
<1>3. bcm' = BcmInterrupt(m) /\ UNCHANGED <<wiring, tegra, slave, exchanges, spi>>
  BY DEF BcmReadFifo
<1> HIDE DEF rx
<1>4. m \in BcmMaster /\ m.cs = bcm.cs /\ m.ta = bcm.ta /\ m.transmitted = bcm.transmitted
  BY <1>1, <1>2 DEF BcmMaster
<1> HIDE DEF m
<1>5. bcm'.transmitted = bcm.transmitted /\ (Asserted(bcm') <=> Asserted(bcm))
  BY <1>3, <1>4, BcmInterruptLeaves DEF Asserted
<1> QED
  BY <1>3, <1>5 DEF FaithInv

\* A transfer of the Tegra controller, as it goes on: the controller, the slave and the
\* exchanges, when firmware queued q answers and wrote n octets.
Transferring(at, q, n) ==
  /\ at = <<at[1], at[2], at[3]>>
  /\ at[1] \in TegraMaster /\ at[2] \in SlaveState
  /\ Replies(at[2], at[3], q)
  /\ InOrder(at[1].transmitted, at[1].tx, n)

\* The slave on the other end of it, whose firmware heard h.
Listening(at, h, cs) ==
  /\ at[1].cs = cs
  /\ Delivers(at[2], h)
  /\ at[2].selected <=> cs = BridgeCs

LEMMA TegraWordIsFaithful ==
  ASSUME NEW at, NEW q, NEW n \in Nat, NEW f \in Nat, Transferring(at, q, n)
  PROVE  /\ Transferring(TegraWord(f, at), q, n)
         /\ \A h \in Seq(OctetType), cs \in Lines :
              Listening(at, h, cs) => Listening(TegraWord(f, at), h, cs)
<1> DEFINE t     == at[1]
           s     == at[2]
           e     == at[3]
           octet == IF t.tx = <<>> THEN Zero(f) ELSE [Head(t.tx) EXCEPT !.frame = f]
           reply == Transfer(s, octet)
           miso  == IF t.cs = BridgeCs THEN reply.miso ELSE "nobody"
           tx    == IF t.tx = <<>> THEN t.tx ELSE Tail(t.tx)
           rx    == IF Len(t.rx) < TegraDepth THEN Append(t.rx, miso) ELSE t.rx
           errors == t.errors \cup (IF t.tx = <<>> THEN {"TX_UNF"} ELSE {})
                              \cup (IF Len(t.rx) < TegraDepth THEN {} ELSE {"RX_OVF"})
           sent  == Append(t.transmitted, octet)
           u     == [t EXCEPT !.tx = tx, !.rx = rx]
           v     == [u EXCEPT !.errors = errors, !.transmitted = sent]
           after == IF t.cs = BridgeCs THEN reply.slave ELSE s
           seen  == IF t.cs = BridgeCs THEN Append(e, <<octet, miso>>) ELSE e
<1>0. /\ t \in TegraMaster /\ s \in SlaveState /\ Replies(s, e, q)
      /\ InOrder(t.transmitted, t.tx, n)
  BY DEF Transferring
<1>1. TegraWord(f, at) = <<v, after, seen>>
  BY DEF TegraWord
<1> HIDE DEF t, s, e
<1>2. /\ t.tx \in Seq(OctetType) /\ t.rx \in Seq(Nat \cup {"nobody"})
      /\ t.transmitted \in Seq(OctetType)
      /\ t.errors \in SUBSET {"TX_OVF", "RX_UNF", "TX_UNF", "RX_OVF"}
  BY <1>0 DEF TegraMaster
<1>3. octet \in OctetType /\ octet.n = IF t.tx = <<>> THEN 0 ELSE Head(t.tx).n
  <2>1. CASE t.tx = <<>>
    <3>1. Zero(f) \in OctetType /\ Zero(f).n = 0
      BY DEF Zero, Octet, OctetType, Home
    <3> QED BY <2>1, <3>1
  <2>2. CASE t.tx # <<>>
    <3> DEFINE first == Head(t.tx)
    <3>1. first \in OctetType
      BY <1>2, <2>2
    <3> HIDE DEF first
    <3>2. [first EXCEPT !.frame = f] \in OctetType /\ [first EXCEPT !.frame = f].n = first.n
      BY <3>1 DEF OctetType
    <3> QED BY <2>2, <3>2 DEF first
  <2> QED BY <2>1, <2>2
<1> HIDE DEF octet
<1>4. /\ reply.slave \in SlaveState /\ reply.miso \in Nat
      /\ Replies(reply.slave, Append(e, <<octet, reply.miso>>), q)
  BY <1>0, <1>3, TransferKeeps, TransferReplies
<1>5. ASSUME NEW h \in Seq(OctetType), Delivers(s, h), s.selected
      PROVE  Delivers(reply.slave, h) /\ reply.slave.selected
  BY <1>0, <1>3, <1>5, TransferDelivers
<1> HIDE DEF reply
<1>6. after \in SlaveState /\ Replies(after, seen, q)
  BY <1>0, <1>4
<1>7. tx \in Seq(OctetType)
  BY <1>2
<1>8. rx \in Seq(Nat \cup {"nobody"})
  <2>1. miso \in Nat \cup {"nobody"}
    BY <1>4
  <2> HIDE DEF miso
  <2> QED BY <1>2, <2>1
<1>9. sent \in Seq(OctetType)
  BY <1>2, <1>3
<1>10. errors \in SUBSET {"TX_OVF", "RX_UNF", "TX_UNF", "RX_OVF"}
  BY <1>2
<1>11. InOrder(sent, tx, n)
  <2>1. CASE t.tx = <<>>
    <3>1. tx = <<>> /\ octet.n = 0 /\ octet.n <= n /\ InOrder(t.transmitted, <<>>, n)
      BY <1>0, <1>3, <2>1
    <3>2. InOrder(sent, <<>>, n)
      BY <1>2, <1>3, <3>1, OrderSends
    <3> QED BY <3>1, <3>2
  <2>2. CASE t.tx # <<>>
    <3>1. octet.n = Head(t.tx).n /\ tx = Tail(t.tx)
      BY <1>3, <2>2
    <3>2. InOrder(sent, Tail(t.tx), n)
      BY <1>0, <1>2, <1>3, <2>2, <3>1, OrderMoves
    <3> QED BY <3>1, <3>2
  <2> QED BY <2>1, <2>2
<1> HIDE DEF tx, rx, sent, errors, seen
<1>12. u \in TegraMaster /\ u.cs = t.cs /\ u.tx = tx
  BY <1>0, <1>7, <1>8 DEF TegraMaster
<1> HIDE DEF u
<1>13. v \in TegraMaster /\ v.cs = t.cs /\ v.transmitted = sent /\ v.tx = tx
  BY <1>9, <1>10, <1>12 DEF TegraMaster
<1> HIDE DEF v
<1>14. ASSUME NEW h \in Seq(OctetType), NEW cs \in Lines, Listening(at, h, cs)
       PROVE  Listening(TegraWord(f, at), h, cs)
  <2>1. t.cs = cs /\ Delivers(s, h) /\ (s.selected <=> cs = BridgeCs)
    BY <1>14 DEF Listening, t, s
  <2>2. Delivers(after, h) /\ (after.selected <=> cs = BridgeCs)
    BY <1>5, <2>1
  <2> HIDE DEF after
  <2> QED BY <1>1, <1>13, <2>1, <2>2 DEF Listening
<1> DEFINE next == TegraWord(f, at)
<1>15. /\ next = <<next[1], next[2], next[3]>>
       /\ next[1] = v /\ next[2] = after /\ next[3] = seen
  <2> HIDE DEF after
  <2> QED BY <1>1
<1> HIDE DEF after, next
<1>16. Transferring(next, q, n)
  BY <1>6, <1>11, <1>13, <1>15, Zenon DEF Transferring
<1> QED
  BY <1>14, <1>16 DEF next

LEMMA TegraWordsAreFaithful ==
  ASSUME NEW at, NEW q, NEW n \in Nat, NEW f \in Nat, NEW count \in 0 .. 2,
         Transferring(at, q, n)
  PROVE  /\ Transferring(TegraWords(count, f, at), q, n)
         /\ \A h \in Seq(OctetType), cs \in Lines :
              Listening(at, h, cs) => Listening(TegraWords(count, f, at), h, cs)
<1> DEFINE one == TegraWord(f, at)
           two == TegraWord(f, one)
<1>1. /\ Transferring(one, q, n)
      /\ \A h \in Seq(OctetType), cs \in Lines : Listening(at, h, cs) => Listening(one, h, cs)
  BY TegraWordIsFaithful
<1>2. TegraWords(count, f, at) = IF count = 0 THEN at ELSE IF count = 1 THEN one ELSE two
  BY TegraWordsUnfold
<1> HIDE DEF one
<1>3. /\ Transferring(two, q, n)
      /\ \A h \in Seq(OctetType), cs \in Lines : Listening(one, h, cs) => Listening(two, h, cs)
  BY <1>1, TegraWordIsFaithful
<1> HIDE DEF two
<1> QED
  BY <1>1, <1>2, <1>3

LEMMA TegraCommandIsFaithful ==
  ASSUME SoftwareCs = FALSE, LinkTypeOK, FrameInv, FaithInv,
         NEW cs \in Lines, NEW soft \in BOOLEAN, NEW value \in BOOLEAN,
         NEW count \in 0 .. 2, TegraCommand(cs, soft, value, count)
  PROVE  FaithInv'
<1> DEFINE t     == [tegra EXCEPT !.cs = cs, !.soft = soft, !.value = value]
           frame == Len(tegra.transmitted) + 1
           first == [t EXCEPT !.selected = TRUE]
           opened == IF cs = BridgeCs THEN Select(slave) ELSE slave
           start == <<first, opened, exchanges>>
           end   == TegraWords(count, frame, start)
           shut  == [end[1] EXCEPT !.ready = TRUE, !.selected = FALSE]
           freed == IF cs = BridgeCs THEN Deselect(end[2]) ELSE end[2]
<1>0. /\ tegra \in TegraMaster /\ slave \in SlaveState /\ spi \in History
      /\ tegra.transmitted \in Seq(OctetType) /\ tegra.tx \in Seq(OctetType)
      /\ spi.heard \in Seq(OctetType) /\ spi.excused \in BOOLEAN /\ spi.written \in Nat
      /\ frame \in Nat
  BY LinkFields
<1>1. /\ wiring = "tegra" /\ UNCHANGED <<wiring, bcm>>
      /\ soft = FALSE /\ count > 0
  BY DEF TegraCommand
<1>2. tegra.selected = FALSE
  BY <1>1 DEF FrameInv
<1>3. /\ t \in TegraMaster /\ t.cs = cs /\ t.soft = FALSE /\ t.selected = FALSE
      /\ t.transmitted = tegra.transmitted /\ t.tx = tegra.tx
  BY <1>0, <1>1, <1>2 DEF TegraMaster
<1>4. /\ tegra' = shut /\ slave' = freed /\ exchanges' = end[3]
      /\ spi' = [spi EXCEPT !.frame = frame]
  <2>1. Transferred(t, count, frame) = <<shut, freed, end[3]>>
    <3> HIDE DEF t, frame, end
    <3>1. (IF t.selected THEN slave ELSE TegraNotify(t, Select, slave)) = opened
      BY <1>3 DEF TegraNotify
    <3> HIDE DEF opened
    <3> QED BY <1>3, <3>1 DEF Transferred, TegraNotify, end
  <2> HIDE DEF end, shut, freed, frame
  <2>2. /\ tegra' = Transferred(t, count, frame)[1] /\ slave' = Transferred(t, count, frame)[2]
        /\ exchanges' = Transferred(t, count, frame)[3]
        /\ spi' = [spi EXCEPT !.frame = frame]
    BY <1>1 DEF TegraCommand, frame
  <2> QED BY <2>1, <2>2
<1> HIDE DEF t
<1>5. /\ first \in TegraMaster /\ first.cs = cs
      /\ first.transmitted = tegra.transmitted /\ first.tx = tegra.tx
  BY <1>3 DEF TegraMaster
<1> HIDE DEF first, frame
<1>6. opened \in SlaveState /\ opened.tx = slave.tx
  BY <1>0, SelectKeeps
<1>7. ASSUME ~spi.excused
      PROVE  Delivers(opened, spi.heard) /\ (opened.selected <=> cs = BridgeCs)
  <2>1. Delivers(slave, spi.heard) /\ ~slave.selected
    BY <1>1, <1>7 DEF FaithInv
  <2> QED BY <1>0, <2>1, SelectDelivers
<1> HIDE DEF opened
<1>8. Transferring(start, spi.queued, spi.written)
  BY <1>5, <1>6 DEF FaithInv, Replies, Transferring
<1>9. ~spi.excused => Listening(start, spi.heard, cs)
  BY <1>5, <1>7 DEF Listening
<1> HIDE DEF start
<1>10. /\ Transferring(end, spi.queued, spi.written)
       /\ ~spi.excused => Listening(end, spi.heard, cs)
  BY <1>0, <1>8, <1>9, TegraWordsAreFaithful
<1> HIDE DEF end
<1>11. /\ end[1] \in TegraMaster /\ end[2] \in SlaveState
       /\ Replies(end[2], end[3], spi.queued)
       /\ InOrder(end[1].transmitted, end[1].tx, spi.written)
  BY <1>10 DEF Transferring
<1>12. shut.transmitted = end[1].transmitted /\ shut.tx = end[1].tx
  BY <1>11 DEF TegraMaster
<1> HIDE DEF shut
<1>13. Replies(freed, end[3], spi.queued)
  <2>1. freed.tx = end[2].tx
    BY <1>11, DeselectKeeps
  <2> HIDE DEF freed
  <2> QED BY <1>11, <2>1 DEF Replies
<1>14. ASSUME ~spi.excused
       PROVE  Delivers(freed, spi.heard) /\ ~freed.selected
  <2>1. Delivers(end[2], spi.heard) /\ (end[2].selected <=> cs = BridgeCs)
    BY <1>10, <1>14 DEF Listening
  <2> QED BY <1>0, <1>11, <2>1, DeselectDelivers
<1> HIDE DEF freed
<1>15. /\ spi'.written = spi.written /\ spi'.excused = spi.excused
       /\ spi'.queued = spi.queued /\ spi'.heard = spi.heard
  BY <1>0, <1>4 DEF History
<1> QED
  BY <1>1, <1>4, <1>11, <1>12, <1>13, <1>14, <1>15 DEF FaithInv

LEMMA TegraRegistersAreFaithful ==
  ASSUME LinkTypeOK, FaithInv,
         \/ \E to \in Addresses, read \in BOOLEAN : TegraWriteFifo(to, read)
         \/ TegraReadFifo \/ TegraAcknowledge
         \/ \E flush \in SUBSET {"TX", "RX"} : TegraFifoStatus(flush)
  PROVE  FaithInv'
<1>0. /\ tegra \in TegraMaster /\ spi \in History
      /\ bcm.transmitted \in Seq(OctetType)
      /\ tegra.transmitted \in Seq(OctetType) /\ tegra.tx \in Seq(OctetType)
      /\ spi.written \in Nat /\ spi.written + 1 \in Nat /\ spi.written <= spi.written + 1
  BY LinkFields
<1>1. ASSUME UNCHANGED <<wiring, bcm, slave, exchanges>>,
             spi'.queued = spi.queued, spi'.heard = spi.heard, spi'.excused = spi.excused,
             tegra'.transmitted = tegra.transmitted,
             InOrder(tegra.transmitted, tegra'.tx, spi'.written),
             InOrder(bcm.transmitted, <<>>, spi'.written)
      PROVE  FaithInv'
  BY <1>1 DEF FaithInv, Asserted
<1>2. /\ InOrder(tegra.transmitted, tegra.tx, spi.written)
      /\ InOrder(bcm.transmitted, <<>>, spi.written)
  BY DEF FaithInv
<1>3. ASSUME NEW n, spi' = [spi EXCEPT !.setups = n]
      PROVE  /\ spi'.queued = spi.queued /\ spi'.heard = spi.heard
             /\ spi'.excused = spi.excused /\ spi'.written = spi.written
  BY <1>0, <1>3 DEF History
<1>4. ASSUME NEW to \in Addresses, NEW read \in BOOLEAN, TegraWriteFifo(to, read)
      PROVE  FaithInv'
  <2> DEFINE octet == Octet(to, read, spi.written + 1, 0)
             written == spi.written + 1
  <2>1. octet \in OctetType /\ octet.n = spi.written + 1
    BY <1>0 DEF Octet, OctetType
  <2>2. /\ UNCHANGED <<wiring, bcm, slave, exchanges>>
        /\ spi' = [spi EXCEPT !.written = written]
        /\ tegra' = IF Len(tegra.tx) < TegraDepth
                    THEN [tegra EXCEPT !.tx = Append(tegra.tx, octet)]
                    ELSE [tegra EXCEPT !.errors = tegra.errors \cup {"TX_OVF"}]
    BY <1>4 DEF TegraWriteFifo
  <2> HIDE DEF octet, written
  <2>3. /\ spi'.queued = spi.queued /\ spi'.heard = spi.heard
        /\ spi'.excused = spi.excused /\ spi'.written = written
    BY <1>0, <2>2 DEF History
  <2>4. InOrder(bcm.transmitted, <<>>, written) /\ InOrder(tegra.transmitted, tegra.tx, written)
    <3>1. written \in Nat /\ spi.written <= written /\ <<>> \in Seq(OctetType)
      BY <1>0 DEF written
    <3>2. InOrder(bcm.transmitted, <<>>, written)
      BY <1>0, <1>2, <3>1, OrderLasts
    <3>3. InOrder(tegra.transmitted, tegra.tx, written)
      BY <1>0, <1>2, <3>1, OrderLasts
    <3> QED BY <3>2, <3>3
  <2>5. InOrder(tegra.transmitted, Append(tegra.tx, octet), written)
    BY <1>0, <1>2, <2>1, OrderQueues DEF written
  <2>6. /\ tegra'.transmitted = tegra.transmitted
        /\ tegra'.tx = tegra.tx \/ tegra'.tx = Append(tegra.tx, octet)
    BY <1>0, <2>2 DEF TegraMaster
  <2> QED BY <1>1, <2>2, <2>3, <2>4, <2>5, <2>6
<1>5. CASE TegraReadFifo
  <2>1. /\ UNCHANGED <<wiring, bcm, slave, exchanges, spi>>
        /\ tegra' = IF tegra.rx = <<>>
                    THEN [tegra EXCEPT !.errors = tegra.errors \cup {"RX_UNF"}]
                    ELSE [tegra EXCEPT !.rx = Tail(tegra.rx)]
    BY <1>5 DEF TegraReadFifo
  <2>2. tegra'.transmitted = tegra.transmitted /\ tegra'.tx = tegra.tx
    BY <1>0, <2>1 DEF TegraMaster
  <2> QED BY <1>1, <1>2, <2>1, <2>2
<1>6. CASE TegraAcknowledge
  <2>1. /\ UNCHANGED <<wiring, bcm, slave, exchanges>>
        /\ tegra' = [tegra EXCEPT !.ready = FALSE]
        /\ spi' = [spi EXCEPT !.setups = spi.setups + 1]
    BY <1>6 DEF TegraAcknowledge
  <2>2. tegra'.transmitted = tegra.transmitted /\ tegra'.tx = tegra.tx
    BY <1>0, <2>1 DEF TegraMaster
  <2> QED BY <1>1, <1>2, <1>3, <2>1, <2>2
<1>7. ASSUME NEW flush \in SUBSET {"TX", "RX"}, TegraFifoStatus(flush)
      PROVE  FaithInv'
  <2> DEFINE tx == IF "TX" \in flush THEN <<>> ELSE tegra.tx
             rx == IF "RX" \in flush THEN <<>> ELSE tegra.rx
             t  == [tegra EXCEPT !.tx = tx, !.rx = rx]
             u  == [t EXCEPT !.errors = {}]
  <2>1. tegra' = u
    BY <1>7 DEF TegraFifoStatus
  <2>2. /\ UNCHANGED <<wiring, bcm, slave, exchanges>>
        /\ spi' = [spi EXCEPT !.setups = spi.setups + 1]
    BY <1>7 DEF TegraFifoStatus
  <2>3. InOrder(tegra.transmitted, tx, spi.written)
    <3>1. InOrder(tegra.transmitted, <<>>, spi.written)
      BY <1>0, <1>2, OrderLasts
    <3> QED BY <1>2, <3>1
  <2>4. tx \in Seq(OctetType) /\ rx \in Seq(Nat \cup {"nobody"})
    BY <1>0 DEF TegraMaster
  <2> HIDE DEF tx, rx
  <2>5. t \in TegraMaster /\ t.transmitted = tegra.transmitted /\ t.tx = tx
    BY <1>0, <2>4 DEF TegraMaster
  <2> HIDE DEF t
  <2>6. u.transmitted = tegra.transmitted /\ u.tx = tx
    BY <2>5 DEF TegraMaster
  <2> QED BY <1>1, <1>2, <1>3, <2>1, <2>2, <2>3, <2>6
<1> QED
  BY <1>4, <1>5, <1>6, <1>7

LEMMA MasterIsFaithful ==
  ASSUME SoftwareCs = FALSE, LinkTypeOK, FrameInv, FaithInv, Master
  PROVE  FaithInv'
<1>1. ASSUME NEW cs \in Lines, NEW ta \in BOOLEAN, NEW ints \in {{}, {"INTR", "INTD"}},
             NEW clear \in BOOLEAN, BcmWriteCs(cs, ta, ints, clear)
      PROVE  FaithInv'
  BY <1>1, BcmWriteCsIsFaithful
<1>2. ASSUME NEW to \in Addresses, NEW read \in BOOLEAN, BcmWriteFifo(to, read)
      PROVE  FaithInv'
  BY <1>2, BcmWriteFifoIsFaithful
<1>3. ASSUME NEW cs \in Lines, NEW soft \in BOOLEAN, NEW value \in BOOLEAN, NEW count \in 0 .. 2,
             TegraCommand(cs, soft, value, count)
      PROVE  FaithInv'
  BY <1>3, TegraCommandIsFaithful
<1> QED
  BY <1>1, <1>2, <1>3, BcmReadFifoIsFaithful, TegraRegistersAreFaithful DEF Master

LEMMA SlaveIsFaithful ==
  ASSUME BrkClearsFifos = FALSE, LinkTypeOK, FaithInv, Slave
  PROVE  FaithInv'
<1>0. /\ slave \in SlaveState /\ spi \in History
      /\ slave.rx \in Seq(OctetType) /\ slave.tx \in Seq(Nat)
      /\ spi.queued \in Seq(Nat) /\ spi.heard \in Seq(OctetType) /\ spi.excused \in BOOLEAN
  BY LinkFields, SlaveFields
<1>1. ASSUME NEW s, SlaveStep(s), spi'.written = spi.written,
             Replies(s, exchanges, spi'.queued),
             ~spi'.excused => ~spi.excused /\ Delivers(s, spi'.heard) /\ s.selected = slave.selected
      PROVE  FaithInv'
  BY <1>1 DEF SlaveStep, FaithInv, Asserted
<1>2. ASSUME NEW s \in SlaveState, SlaveStep(s), spi'.written = spi.written,
             spi'.queued = spi.queued, spi'.heard = spi.heard,
             s.tx = slave.tx, s.rx = slave.rx, s.selected = slave.selected,
             s.awaiting = slave.awaiting, s.reading = slave.reading,
             s.current = slave.current, s.dialogues = slave.dialogues,
             ~spi'.excused => ~spi.excused /\ "RXE" \in s.cr /\ s.overrun = slave.overrun
      PROVE  FaithInv'
  <2>1. Replies(s, exchanges, spi'.queued)
    BY <1>2 DEF FaithInv, Replies
  <2>2. ~spi'.excused => Delivers(s, spi'.heard)
    BY <1>2 DEF FaithInv, Delivers, Ongoing
  <2> QED BY <1>1, <1>2, <2>1, <2>2
<1>3. ASSUME NEW n
      PROVE  LET h == [spi EXCEPT !.setups = n]
             IN  /\ h.queued = spi.queued /\ h.heard = spi.heard
                 /\ h.excused = spi.excused /\ h.written = spi.written
  BY <1>0 DEF History
<1>4. CASE SlaveReads
  <2> DEFINE heard == IF slave.rx = <<>> THEN spi.heard ELSE Append(spi.heard, Head(slave.rx))
             s == ReadDr(slave)
  <2>1. spi' = [spi EXCEPT !.heard = heard] /\ SlaveStep(s)
    BY <1>4 DEF SlaveReads
  <2>2. CASE slave.rx = <<>>
    <3>1. s = slave /\ heard = spi.heard
      BY <2>2 DEF ReadDr
    <3>2. spi' = spi
      BY <1>0, <2>1, <3>1 DEF History
    <3> QED BY <1>0, <1>1, <2>1, <3>1, <3>2 DEF FaithInv
  <2>3. CASE slave.rx # <<>>
    <3> DEFINE first == Head(slave.rx)
               rest  == Tail(slave.rx)
               u == [slave EXCEPT !.rx = rest]
    <3>1. /\ first \in OctetType /\ rest \in Seq(OctetType) /\ slave.rx = <<first>> \o rest
      BY <1>0, <2>3, HeadTailProperties
    <3>2. s = UpdateInterrupts(u) /\ heard = Append(spi.heard, first)
      BY <2>3 DEF ReadDr
    <3> HIDE DEF first, rest, heard, s
    <3>3. /\ u \in SlaveState /\ u.rx = rest /\ u.cr = slave.cr /\ u.tx = slave.tx
          /\ u.overrun = slave.overrun /\ u.selected = slave.selected
          /\ u.awaiting = slave.awaiting /\ u.reading = slave.reading
          /\ u.current = slave.current /\ u.dialogues = slave.dialogues
      BY <1>0, <3>1 DEF SlaveState
    <3> HIDE DEF u
    <3>4. /\ s.rx = rest /\ s.cr = slave.cr /\ s.tx = slave.tx
          /\ s.overrun = slave.overrun /\ s.selected = slave.selected
          /\ s.awaiting = slave.awaiting /\ s.reading = slave.reading
          /\ s.current = slave.current /\ s.dialogues = slave.dialogues
      BY <3>2, <3>3, InterruptsLeave
    <3>5. /\ spi'.queued = spi.queued /\ spi'.heard = heard
          /\ spi'.excused = spi.excused /\ spi'.written = spi.written
      BY <1>0, <2>1 DEF History
    <3>6. heard \o rest = spi.heard \o slave.rx
      <4>1. Append(spi.heard, Head(slave.rx)) \o Tail(slave.rx) = spi.heard \o slave.rx
        BY <1>0, <2>3, ConcatMoves
      <4> QED BY <3>2, <4>1 DEF first, rest
    <3>7. Replies(s, exchanges, spi'.queued)
      BY <3>4, <3>5 DEF FaithInv, Replies
    <3>8. ~spi.excused => Delivers(s, heard)
      <4> SUFFICES ASSUME ~spi.excused PROVE Delivers(s, heard)
        OBVIOUS
      <4>1. Delivers(slave, spi.heard)
        BY DEF FaithInv
      <4>2. Ongoing(s) = Ongoing(slave)
        BY <3>4 DEF Ongoing
      <4> QED BY <3>4, <3>6, <4>1, <4>2 DEF Delivers
    <3> QED BY <1>1, <2>1, <3>4, <3>5, <3>7, <3>8
  <2> QED BY <2>2, <2>3
<1>5. CASE SlaveWrites
  <2> DEFINE answer == Len(spi.queued) + 1
             full   == "TXFF" \in Flags(slave)
             queued == IF full THEN spi.queued ELSE Append(spi.queued, answer)
             tx == IF Len(slave.tx) < FifoDepth THEN Append(slave.tx, answer) ELSE slave.tx
             u  == [slave EXCEPT !.tx = tx]
             s  == UpdateInterrupts(u)
  <2>1. spi' = [spi EXCEPT !.queued = queued] /\ SlaveStep(s)
    BY <1>5 DEF SlaveWrites, WriteDr
  <2>2. answer \in Nat \ {Idle} /\ answer \in Nat
    BY <1>0 DEF Idle
  <2>3. full <=> ~(Len(slave.tx) < FifoDepth)
    BY <1>0, SlaveAssumption DEF Flags
  <2> HIDE DEF answer, full
  <2>4. tx \in Seq(Nat)
    BY <1>0, <2>2
  <2>5. /\ tx \in Seq(Nat \ {Idle}) /\ OctetsDriven(exchanges) \o tx = queued
    <3>1. /\ slave.tx \in Seq(Nat \ {Idle}) /\ exchanges \in Seq(OctetType \X Nat)
          /\ OctetsDriven(exchanges) \o slave.tx = spi.queued
      BY DEF FaithInv, Replies
    <3>2. CASE full
      <4>1. tx = slave.tx /\ queued = spi.queued
        BY <2>3, <3>2
      <4> QED BY <3>1, <4>1, Zenon
    <3>3. CASE ~full
      <4>1. tx = Append(slave.tx, answer) /\ queued = Append(spi.queued, answer)
        BY <2>3, <3>3
      <4>2. tx \in Seq(Nat \ {Idle})
        BY <2>2, <3>1, <4>1
      <4>3. OctetsDriven(exchanges) \in Seq(Nat)
        <5>1. PICK o : o \in OctetType
          <6>1. [to |-> Home, read |-> TRUE, n |-> 0, frame |-> 0] \in OctetType
            BY DEF OctetType
          <6> QED BY <6>1
        <5> QED BY <3>1, <5>1, DrivenAppends, 0 \in Nat
      <4>4. OctetsDriven(exchanges) \o Append(slave.tx, answer)
              = Append(OctetsDriven(exchanges) \o slave.tx, answer)
        BY <1>0, <2>2, <4>3, ConcatAppend
      <4> HIDE DEF tx, queued
      <4> QED BY <3>1, <4>1, <4>2, <4>4, Zenon
    <3> QED BY <3>2, <3>3
  <2> HIDE DEF tx, queued
  <2>6. /\ u \in SlaveState /\ u.rx = slave.rx /\ u.cr = slave.cr /\ u.tx = tx
        /\ u.overrun = slave.overrun /\ u.selected = slave.selected
        /\ u.awaiting = slave.awaiting /\ u.reading = slave.reading
        /\ u.current = slave.current /\ u.dialogues = slave.dialogues
    BY <1>0, <2>4 DEF SlaveState
  <2> HIDE DEF u
  <2>7. /\ s.rx = slave.rx /\ s.cr = slave.cr /\ s.tx = tx
        /\ s.overrun = slave.overrun /\ s.selected = slave.selected
        /\ s.awaiting = slave.awaiting /\ s.reading = slave.reading
        /\ s.current = slave.current /\ s.dialogues = slave.dialogues
    BY <2>6, InterruptsLeave
  <2> HIDE DEF s
  <2>8. /\ spi'.queued = queued /\ spi'.heard = spi.heard
        /\ spi'.excused = spi.excused /\ spi'.written = spi.written
    BY <1>0, <2>1 DEF History
  <2>9. Replies(s, exchanges, spi'.queued)
    BY <2>5, <2>7, <2>8, Zenon DEF FaithInv, Replies
  <2>10. ~spi.excused => Delivers(s, spi.heard)
    BY <2>7 DEF FaithInv, Delivers, Ongoing
  <2> QED BY <1>1, <2>1, <2>7, <2>8, <2>9, <2>10
<1>6. CASE SlaveForgives
  <2> DEFINE u == [slave EXCEPT !.overrun = FALSE]
             s == UpdateInterrupts(u)
  <2>1. spi' = [spi EXCEPT !.excused = TRUE] /\ SlaveStep(s)
    BY <1>6 DEF SlaveForgives, ClearOverrun
  <2>2. /\ spi'.queued = spi.queued /\ spi'.heard = spi.heard /\ spi'.excused = TRUE
        /\ spi'.written = spi.written
    BY <1>0, <2>1 DEF History
  <2>3. u \in SlaveState /\ u.tx = slave.tx
    BY <1>0 DEF SlaveState
  <2> HIDE DEF u
  <2>4. s.tx = slave.tx
    BY <2>3, InterruptsLeave
  <2> HIDE DEF s
  <2>5. Replies(s, exchanges, spi'.queued)
    BY <2>2, <2>4 DEF FaithInv, Replies
  <2> QED BY <1>1, <2>1, <2>2, <2>5
<1>7. ASSUME NEW bits \in Controls, NEW brk \in BOOLEAN, SlaveControl(bits, brk)
      PROVE  FaithInv'
  <2> DEFINE excused == spi.excused \/ "RXE" \notin bits
             setups == spi.setups + 1
             u == [slave EXCEPT !.cr = bits]
             v == [u EXCEPT !.rx = u.rx, !.tx = u.tx]
             s == UpdateInterrupts(v)
  <2>1. spi' = [spi EXCEPT !.excused = excused, !.setups = setups]
    BY <1>7 DEF SlaveControl
  <2>2. SlaveStep(s)
    <3>1. WriteCr(slave, bits, brk) = UpdateInterrupts([slave EXCEPT !.cr = bits,
                                        !.rx = slave.rx, !.tx = slave.tx])
      BY DEF WriteCr
    <3>2. [slave EXCEPT !.cr = bits, !.rx = slave.rx, !.tx = slave.tx] = v
      BY <1>0 DEF SlaveState
    <3> HIDE DEF v
    <3> QED BY <1>7, <3>1, <3>2 DEF SlaveControl
  <2> HIDE DEF excused, setups
  <2>3. /\ spi'.queued = spi.queued /\ spi'.heard = spi.heard /\ spi'.excused = excused
        /\ spi'.written = spi.written
    BY <1>0, <2>1 DEF History
  <2>4. bits \in SUBSET (Enabling \cup {"TXE", "RXE"})
    BY DEF Controls, Everything, Off
  <2>5. /\ u \in SlaveState /\ u.rx = slave.rx /\ u.cr = bits /\ u.tx = slave.tx
        /\ u.overrun = slave.overrun /\ u.selected = slave.selected
        /\ u.awaiting = slave.awaiting /\ u.reading = slave.reading
        /\ u.current = slave.current /\ u.dialogues = slave.dialogues
    BY <1>0, <2>4 DEF SlaveState
  <2> HIDE DEF u
  <2>6. v = u
    BY <2>5 DEF SlaveState
  <2> HIDE DEF v
  <2>7. /\ s \in SlaveState /\ s.rx = slave.rx /\ s.cr = bits /\ s.tx = slave.tx
        /\ s.overrun = slave.overrun /\ s.selected = slave.selected
        /\ s.awaiting = slave.awaiting /\ s.reading = slave.reading
        /\ s.current = slave.current /\ s.dialogues = slave.dialogues
    BY <2>5, <2>6, InterruptsLeave
  <2> HIDE DEF s
  <2>8. ~excused => ~spi.excused /\ "RXE" \in bits
    BY DEF excused
  <2> QED BY <1>2, <2>2, <2>3, <2>7, <2>8
<1>8. ASSUME NEW address \in Addresses, SlaveAddress(address)
      PROVE  FaithInv'
  <2> DEFINE s == [slave EXCEPT !.slv = address]
  <2>1. spi' = [spi EXCEPT !.setups = spi.setups + 1] /\ SlaveStep(s)
    BY <1>8 DEF SlaveAddress, WriteSlv
  <2>2. /\ s \in SlaveState /\ s.rx = slave.rx /\ s.cr = slave.cr /\ s.tx = slave.tx
        /\ s.overrun = slave.overrun /\ s.selected = slave.selected
        /\ s.awaiting = slave.awaiting /\ s.reading = slave.reading
        /\ s.current = slave.current /\ s.dialogues = slave.dialogues
    BY <1>0 DEF SlaveState
  <2> HIDE DEF s
  <2>3. ~spi.excused => "RXE" \in slave.cr
    BY DEF FaithInv, Delivers
  <2> QED BY <1>2, <1>3, <2>1, <2>2, <2>3
<1>9. ASSUME NEW bits \in Masks, SlaveMask(bits)
      PROVE  FaithInv'
  <2> DEFINE u == [slave EXCEPT !.imsc = bits]
             s == UpdateInterrupts(u)
  <2>1. spi' = [spi EXCEPT !.setups = spi.setups + 1] /\ SlaveStep(s)
    BY <1>9 DEF SlaveMask, WriteImsc
  <2>2. /\ u \in SlaveState /\ u.rx = slave.rx /\ u.cr = slave.cr /\ u.tx = slave.tx
        /\ u.overrun = slave.overrun /\ u.selected = slave.selected
        /\ u.awaiting = slave.awaiting /\ u.reading = slave.reading
        /\ u.current = slave.current /\ u.dialogues = slave.dialogues
    BY <1>0 DEF SlaveState, Masks
  <2> HIDE DEF u
  <2>3. /\ s \in SlaveState /\ s.rx = slave.rx /\ s.cr = slave.cr /\ s.tx = slave.tx
        /\ s.overrun = slave.overrun /\ s.selected = slave.selected
        /\ s.awaiting = slave.awaiting /\ s.reading = slave.reading
        /\ s.current = slave.current /\ s.dialogues = slave.dialogues
    BY <2>2, InterruptsLeave
  <2> HIDE DEF s
  <2>4. ~spi.excused => "RXE" \in slave.cr
    BY DEF FaithInv, Delivers
  <2> QED BY <1>2, <1>3, <2>1, <2>3, <2>4
<1> QED
  BY <1>4, <1>5, <1>6, <1>7, <1>8, <1>9 DEF Slave

LEMMA LinkStarts ==
  ASSUME SerialInit
  PROVE  LinkTypeOK /\ FrameInv
<1>1. SlaveAtReset \in SlaveState /\ SlaveAtReset.current = <<>> /\ SlaveAtReset.dialogues = <<>>
  BY DEF SlaveAtReset, SlaveState, Home
<1>2. PICK bits \in {Everything, Off} :
        slave = WriteImsc(WriteCr(WriteSlv(SlaveAtReset, Home), bits, FALSE), {"RX"})
  BY DEF SerialInit
<1> DEFINE one == WriteSlv(SlaveAtReset, Home)
           two == WriteCr(one, bits, FALSE)
<1>3. one \in SlaveState /\ one.current = <<>> /\ one.dialogues = <<>>
  BY <1>1, FirmwareKeeps
<1> HIDE DEF one
<1>4. two \in SlaveState /\ two.current = <<>> /\ two.dialogues = <<>>
  BY <1>3, FirmwareKeeps DEF Controls
<1> HIDE DEF two
<1>5. slave \in SlaveState /\ slave.current = <<>> /\ slave.dialogues = <<>>
  BY <1>2, <1>4, FirmwareKeeps DEF Masks, one, two
<1>6. bcm \in BcmMaster
  <2> DEFINE m == [Bcm0 EXCEPT !.ints = {"INTR", "INTD"}]
  <2>1. Bcm0 \in BcmMaster
    BY DEF Bcm0, BcmMaster, Lines
  <2>2. m \in BcmMaster
    BY <2>1 DEF BcmMaster
  <2> HIDE DEF m
  <2>3. bcm = BcmInterrupt(m)
    BY DEF SerialInit, m
  <2> QED BY <2>2, <2>3, BcmInterruptKeeps
<1>7. tegra \in TegraMaster /\ tegra.soft = FALSE /\ tegra.selected = FALSE /\ Len(tegra.transmitted) = 0
  BY DEF SerialInit, Tegra0, TegraMaster, Lines
<1>8. spi \in History /\ spi.frame = 0 /\ spi.written = 0
  BY DEF SerialInit, History
<1>9. wiring \in AllWirings
  BY LinkAssumption DEF SerialInit
<1>10. ASSUME NEW f \in Nat
       PROVE  Framed(slave, f)
  BY <1>5 DEF Framed
<1> QED
  BY <1>5, <1>6, <1>7, <1>8, <1>9, <1>10 DEF LinkTypeOK, FrameInv

\* The state of the link stays of its type, whoever's firmware does what.
THEOREM LinkTypeCorrect == SerialSpec => []LinkTypeOK
<1>1. LinkTypeOK /\ [SerialNext]_serialVars => LinkTypeOK'
  <2>1. ASSUME LinkTypeOK, UNCHANGED serialVars
        PROVE  LinkTypeOK'
    BY <2>1 DEF serialVars, LinkTypeOK
  <2> QED BY <2>1, MasterKeeps, SlaveKeeps DEF SerialNext
<1> QED
  BY <1>1, LinkStarts, PTL DEF SerialSpec

\* A dialogue the slave takes part in lies within one assertion of chip select by the
\* master, for FIFOs of any depth, either master, and any firmware that leaves the line
\* to the Tegra controller (_update_chip_select, _start_transfer, select, deselect).
THEOREM DialoguesInFrames ==
  ASSUME SoftwareCs = FALSE
  PROVE  SerialSpec => []DialoguesAreFrames
<1>1. LinkTypeOK /\ FrameInv /\ [SerialNext]_serialVars => FrameInv'
  <2>1. ASSUME FrameInv, UNCHANGED serialVars
        PROVE  FrameInv'
    BY <2>1 DEF serialVars, FrameInv
  <2> QED BY <2>1, MasterKeeps, SlaveKeeps DEF SerialNext
<1>2. LinkTypeOK /\ FrameInv => DialoguesAreFrames
  <2> SUFFICES ASSUME LinkTypeOK, FrameInv PROVE DialoguesAreFrames
    OBVIOUS
  <2>1. PICK f \in Nat : Framed(slave, f)
    <3>1. spi.frame \in Nat /\ Len(tegra.transmitted) + 1 \in Nat
      BY DEF LinkTypeOK, History, TegraMaster
    <3> QED BY <3>1 DEF LinkTypeOK, AllWirings, FrameInv
  <2> QED BY <2>1 DEF Framed, OfOneFrame, Apart, DialoguesAreFrames
<1> QED
  BY <1>1, <1>2, LinkStarts, LinkTypeCorrect, PTL DEF SerialSpec

LEMMA LinkStartsFaithful ==
  ASSUME SerialInit
  PROVE  FaithInv
<1> DEFINE one == WriteSlv(SlaveAtReset, Home)
           two(bits) == [one EXCEPT !.cr = bits]
           three(bits) == UpdateInterrupts(two(bits))
           four(bits)  == [three(bits) EXCEPT !.imsc = {"RX"}]
           Fresh(s) ==
             /\ s \in SlaveState /\ s.rx = <<>> /\ s.tx = <<>> /\ s.dialogues = <<>>
             /\ s.current = <<>> /\ s.selected = FALSE /\ s.awaiting = TRUE /\ s.reading = FALSE
<1>1. Fresh(one)
  <2>1. Fresh(SlaveAtReset)
    BY DEF SlaveAtReset, SlaveState, Home
  <2> QED BY <2>1 DEF WriteSlv, SlaveState
<1>2. PICK bits \in {Everything, Off} :
        slave = WriteImsc(WriteCr(one, bits, FALSE), {"RX"})
  BY DEF SerialInit
<1>3. slave = UpdateInterrupts(four(bits))
  <2>1. WriteCr(one, bits, FALSE)
          = UpdateInterrupts([one EXCEPT !.cr = bits, !.rx = one.rx, !.tx = one.tx])
    BY DEF WriteCr
  <2>2. [one EXCEPT !.cr = bits, !.rx = one.rx, !.tx = one.tx] = two(bits)
    <3> HIDE DEF one
    <3> QED BY <1>1 DEF SlaveState
  <2> QED BY <1>2, <2>1, <2>2 DEF WriteImsc
<1> HIDE DEF one
<1>4. Fresh(two(bits)) /\ "RXE" \in two(bits).cr
  BY <1>1 DEF SlaveState, Everything, Off
<1> HIDE DEF two
<1>5. Fresh(three(bits)) /\ "RXE" \in three(bits).cr
  BY <1>4, InterruptsLeave
<1> HIDE DEF three
<1>6. Fresh(four(bits)) /\ "RXE" \in four(bits).cr
  BY <1>5 DEF SlaveState
<1> HIDE DEF four
<1>7. Fresh(slave) /\ "RXE" \in slave.cr
  BY <1>3, <1>6, InterruptsLeave
<1>8. OctetsDriven(<<>>) = <<>> /\ OctetsWritten(<<>>) = <<>>
  <2>1. FlattenSeq([k \in DOMAIN <<>> |-> OnMiso(<<>>[k])]) = FlattenSeq(<<>>)
    <3>1. [k \in DOMAIN <<>> |-> OnMiso(<<>>[k])] = <<>>
      OBVIOUS
    <3> QED BY <3>1, Zenon
  <2>2. FlattenSeq([k \in DOMAIN <<>> |-> Delivered(<<>>[k])]) = FlattenSeq(<<>>)
    <3>1. [k \in DOMAIN <<>> |-> Delivered(<<>>[k])] = <<>>
      OBVIOUS
    <3> QED BY <3>1, Zenon
  <2> QED BY <2>1, <2>2, FlattenEmpty DEF OctetsDriven, OctetsWritten
<1>9. <<>> \o <<>> = <<>>
  OBVIOUS
<1>10. spi.queued = <<>> /\ spi.heard = <<>> /\ spi.written = 0 /\ exchanges = <<>>
  BY DEF SerialInit
<1>11. Replies(slave, exchanges, spi.queued)
  <2>1. exchanges \in Seq(OctetType \X Nat) /\ slave.tx \in Seq(Nat \ {Idle})
    BY <1>7, <1>10
  <2>2. OctetsDriven(exchanges) \o slave.tx = spi.queued
    BY <1>7, <1>8, <1>9, <1>10, Zenon
  <2> QED BY <2>1, <2>2 DEF Replies
<1>12. Delivers(slave, spi.heard)
  <2>1. Ongoing(slave) = <<>>
    BY <1>7 DEF Ongoing
  <2>2. spi.heard \o slave.rx = OctetsWritten(slave.dialogues) \o Ongoing(slave)
    BY <1>7, <1>8, <1>9, <1>10, <2>1, Zenon
  <2> QED BY <1>7, <2>2 DEF Delivers
<1>13. tegra.transmitted = <<>> /\ tegra.tx = <<>>
  BY DEF SerialInit, Tegra0
<1>14. bcm.transmitted = <<>> /\ bcm.ta = FALSE
  BY DEF SerialInit, BcmInterrupt, Bcm0
<1>15. slave.selected <=> wiring = "bcm" /\ Asserted(bcm)
  BY <1>7, <1>14 DEF Asserted
<1> QED
  BY <1>10, <1>11, <1>12, <1>13, <1>14, <1>15, OrderStarts DEF FaithInv

\* The link loses, repeats and invents nothing, in either direction and whoever's
\* firmware does what, for FIFOs of any depth: what the slave's firmware hears is what
\* was written, what it queued is what was driven on MISO, and the words of a master
\* leave in order (transfer, read_register, write_register, _exchange, _start_transfer).
\* Firmware leaves chip select to the Tegra controller, and BRK leaves the FIFOs alone,
\* as in the code.
THEOREM FaithfulLink ==
  ASSUME SoftwareCs = FALSE, BrkClearsFifos = FALSE
  PROVE  SerialSpec => []LinkIsFaithful
<1> DEFINE Inv == LinkTypeOK /\ FrameInv /\ FaithInv
<1>1. SerialInit => Inv
  BY LinkStarts, LinkStartsFaithful
<1>2. Inv /\ [SerialNext]_serialVars => Inv'
  <2> SUFFICES ASSUME Inv, [SerialNext]_serialVars PROVE Inv'
    OBVIOUS
  <2>1. CASE UNCHANGED serialVars
    BY <2>1 DEF serialVars, LinkTypeOK, FrameInv, FaithInv, Asserted
  <2>2. CASE Master
    BY <2>2, MasterKeeps, MasterIsFaithful
  <2>3. CASE Slave
    BY <2>3, SlaveKeeps, SlaveIsFaithful
  <2> QED BY <2>1, <2>2, <2>3 DEF SerialNext
<1>3. Inv => LinkIsFaithful
  <2> SUFFICES ASSUME LinkTypeOK, FaithInv PROVE LinkIsFaithful
    OBVIOUS
  <2>1. HeardIsWritten
    BY DEF HeardIsWritten, FaithInv, Delivers
  <2>2. QueuedIsAnswered
    BY DEF QueuedIsAnswered, FaithInv, Replies
  <2>3. Increasing(tegra.transmitted \o tegra.tx)
    BY LinkFields, OrderJoins DEF FaithInv
  <2>4. Increasing(bcm.transmitted)
    BY DEF FaithInv, InOrder
  <2> QED BY <2>1, <2>2, <2>3, <2>4 DEF LinkIsFaithful, WordsLeaveInOrder
<1> QED
  BY <1>1, <1>2, <1>3, PTL DEF SerialSpec

\* What a poll of the flag register told the slave's firmware still holds when it acts
\* on it, software chip select included: no step of the master fills the TX FIFO or
\* empties the RX FIFO (transfer, select, deselect).
THEOREM PollsStayTrue == SerialSpec => PollsHold
<1> DEFINE Polled == /\ "TXFF" \notin Flags(slave) => "TXFF" \notin Flags(slave')
                     /\ "RXFE" \notin Flags(slave) => "RXFE" \notin Flags(slave')
<1>1. LinkTypeOK /\ [SerialNext]_serialVars => [Master => Polled]_serialVars
  <2> SUFFICES ASSUME LinkTypeOK, Master PROVE Polled
    OBVIOUS
  <2>1. slave \in SlaveState /\ slave' \in SlaveState /\ Served(slave, slave')
    BY MasterKeeps DEF LinkTypeOK
  <2>2. ASSUME NEW s \in SlaveState
        PROVE  /\ "TXFF" \in Flags(s) <=> Len(s.tx) >= FifoDepth
               /\ "RXFE" \in Flags(s) <=> s.rx = <<>>
    BY DEF Flags
  <2>3. Len(slave.tx) \in Nat /\ Len(slave'.tx) \in Nat /\ FifoDepth \in Nat
    BY <2>1, SlaveAssumption DEF SlaveState
  <2> QED BY <2>1, <2>2, <2>3 DEF Served
<1> QED
  BY <1>1, LinkTypeCorrect, PTL DEF SerialSpec, PollsHold
=============================================================================
