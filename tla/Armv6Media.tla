----------------------------- MODULE Armv6Media -----------------------------
(***************************************************************************)
(* The multiplications, the saturating operations, the operations on the   *)
(* lanes of a word in parallel and the extensions of bytes and halves.     *)
(***************************************************************************)
EXTENDS Armv6DataProcessing

DoubleBits == 2 * WordBits

Signed(s, n) == ToSigned(Get(s, n), WordBits)
HalfIn(s, n, high) == ToSigned(HalfOf(Get(s, n), Flag(high)), HalfBits)

-----------------------------------------------------------------------------
(* Multiplication *)

Mla(i, s) ==
  LET result == ToUnsigned(Signed(s, i.n) * Signed(s, i.m) + Signed(s, i.a), WordBits)
      t == Set(s, i.d, result)
  IN  IfPassed(i, s, IF i.setflags THEN FlagsNz(t, result) ELSE t)

Mls(i, s) ==
  IfPassed(i, s, Set(s, i.d, ToUnsigned(Signed(s, i.a) - Signed(s, i.m) * Signed(s, i.n), WordBits)))

\* Z tells whether the whole product is zero, not the word kept of it.
Mul(i, s) ==
  LET product == Signed(s, i.n) * Signed(s, i.m)
      t == Set(s, i.d, ToUnsigned(product, WordBits))
  IN  IfPassed(i, s, IF i.setflags
                     THEN [FlagsNz(t, ToUnsigned(product, WordBits)) EXCEPT !.psr.z = Flag(product = 0)]
                     ELSE t)

\* A result of two words, and N and Z for it.
SetPair(i, s, result) ==
  Set(Set(s, i.d_hi, Substring(result, DoubleBits - 1, WordBits)), i.d_lo, LowerChunk(result, WordBits))
LongResult(i, s, result) ==
  LET t == SetPair(i, s, result)
  IN  IF i.setflags THEN [t EXCEPT !.psr.n = BitAt(result, DoubleBits - 1), !.psr.z = Flag(result = 0)] ELSE t

Pair(i, s) == Chain(Get(s, i.d_hi), Get(s, i.d_lo), WordBits)
SignedPair(i, s) == ToSigned(Pair(i, s), DoubleBits)

Smull(i, s) == IfPassed(i, s, LongResult(i, s, ToUnsigned(Signed(s, i.n) * Signed(s, i.m), DoubleBits)))
Smlal(i, s) ==
  IfPassed(i, s, LongResult(i, s, ToUnsigned(Signed(s, i.n) * Signed(s, i.m) + SignedPair(i, s), DoubleBits)))
Umull(i, s) == IfPassed(i, s, LongResult(i, s, Get(s, i.n) * Get(s, i.m)))

\* The flags are those of the sum before it is cut to two words.
Umlal(i, s) == IfPassed(i, s, LongResult(i, s, Get(s, i.n) * Get(s, i.m) + Pair(i, s)))
Umaal(i, s) ==
  IfPassed(i, s, SetPair(i, s, Get(s, i.n) * Get(s, i.m) + Get(s, i.d_hi) + Get(s, i.d_lo)))

\* Q is set, and never cleared, by a result that does not fit.
Saturated(s, overflowed) == IF overflowed THEN [s EXCEPT !.psr.q = 1] ELSE s
Fitted(i, s, result) ==
  LET output == ToUnsigned(result, WordBits)
  IN  Saturated(Set(s, i.d, output), result # ToSigned(output, WordBits))

Smla(i, s) ==
  IfPassed(i, s, Fitted(i, s, HalfIn(s, i.n, i.n_high) * HalfIn(s, i.m, i.m_high) + Signed(s, i.a)))
Smul(i, s) ==
  IfPassed(i, s, Set(s, i.d, ToUnsigned(HalfIn(s, i.n, i.n_high) * HalfIn(s, i.m, i.m_high), WordBits)))
Smlalxy(i, s) ==
  LET product == HalfIn(s, i.n, i.n_high) * HalfIn(s, i.m, i.m_high)
  IN  IfPassed(i, s, SetPair(i, s, ToUnsigned(product + SignedPair(i, s), DoubleBits)))

\* A word times a half: the low half of the product is dropped.
Smlaw(i, s) ==
  LET result == Signed(s, i.n) * HalfIn(s, i.m, i.m_high) + Signed(s, i.a) * 2^HalfBits
  IN  IfPassed(i, s, Fitted(i, s, result \div 2^HalfBits))
Smulw(i, s) ==
  LET result == Signed(s, i.n) * HalfIn(s, i.m, i.m_high)
  IN  IfPassed(i, s, Set(s, i.d, ToUnsigned(result \div 2^HalfBits, WordBits)))

\* The products of the halves, low and high, with the halves of Rm swapped or not.
Products(i, s) ==
  LET operand2 == IF i.m_swap THEN RorC(Get(s, i.m), WordBits, HalfBits).value ELSE Get(s, i.m)
  IN  [half \in 0..1 |-> HalfIn(s, i.n, half = 1) * ToSigned(HalfOf(operand2, half), HalfBits)]

Smlad(i, s) == IfPassed(i, s, Fitted(i, s, Products(i, s)[0] + Products(i, s)[1] + Signed(s, i.a)))
Smlsd(i, s) == IfPassed(i, s, Fitted(i, s, Products(i, s)[0] - Products(i, s)[1] + Signed(s, i.a)))
Smuad(i, s) == IfPassed(i, s, Fitted(i, s, Products(i, s)[0] + Products(i, s)[1]))
Smusd(i, s) == IfPassed(i, s, Set(s, i.d, ToUnsigned(Products(i, s)[0] - Products(i, s)[1], WordBits)))
Smlald(i, s) ==
  IfPassed(i, s, SetPair(i, s, ToUnsigned(Products(i, s)[0] + Products(i, s)[1] + SignedPair(i, s), DoubleBits)))
Smlsld(i, s) ==
  IfPassed(i, s, SetPair(i, s, ToUnsigned(Products(i, s)[0] - Products(i, s)[1] + SignedPair(i, s), DoubleBits)))

\* The most significant word of a result of two, rounded or truncated.
MostSignificant(i, s, result) ==
  LET rounded == result + (IF i.round THEN 2^(WordBits - 1) ELSE 0)
  IN  Set(s, i.d, ToUnsigned(rounded \div 2^WordBits, WordBits))

Smmul(i, s) == IfPassed(i, s, MostSignificant(i, s, Signed(s, i.n) * Signed(s, i.m)))
Smmla(i, s) ==
  IfPassed(i, s, MostSignificant(i, s, Signed(s, i.a) * 2^WordBits + Signed(s, i.n) * Signed(s, i.m)))
Smmls(i, s) ==
  IfPassed(i, s, MostSignificant(i, s, Signed(s, i.a) * 2^WordBits - Signed(s, i.n) * Signed(s, i.m)))

\* Division truncates toward zero; by zero it gives zero, as traps are for the R profile.
Quotient(x, y) ==
  LET magnitude(z) == IF z < 0 THEN -z ELSE z
      truncated == magnitude(x) \div magnitude(y)
  IN  IF y = 0 THEN 0 ELSE IF (x < 0) = (y < 0) THEN truncated ELSE -truncated

Sdiv(i, s) == IfPassed(i, s, Set(s, i.d, ToUnsigned(Quotient(Signed(s, i.n), Signed(s, i.m)), WordBits)))
Udiv(i, s) == IfPassed(i, s, Set(s, i.d, Quotient(Get(s, i.n), Get(s, i.m))))

-----------------------------------------------------------------------------
(* Saturation *)

Clamped(i, s, result) ==
  Saturated(Set(s, i.d, SignedSat(result, WordBits)), SignedSatQ(result, WordBits).saturated)

\* Twice Rn, saturated by itself before it is added.
DoubleIn(i, s) == SignedSatQ(2 * Signed(s, i.n), WordBits)
ClampedDouble(i, s, result) ==
  Saturated(Clamped(i, s, result), DoubleIn(i, s).saturated)

Qadd(i, s) == IfPassed(i, s, Clamped(i, s, Signed(s, i.m) + Signed(s, i.n)))
Qsub(i, s) == IfPassed(i, s, Clamped(i, s, Signed(s, i.m) - Signed(s, i.n)))
Qdadd(i, s) ==
  IfPassed(i, s, ClampedDouble(i, s, Signed(s, i.m) + ToSigned(DoubleIn(i, s).value, WordBits)))
Qdsub(i, s) ==
  IfPassed(i, s, ClampedDouble(i, s, Signed(s, i.m) - ToSigned(DoubleIn(i, s).value, WordBits)))

ShiftedN(i, s) == ToSigned(Shift(Get(s, i.n), WordBits, i.shift.type, i.shift.n, s.psr.c), WordBits)

\* The value is cut to the bits it is saturated to: a negative one is not extended
\* to a word.
Ssat(i, s) ==
  LET r == SignedSatQ(ShiftedN(i, s), i.saturate_to)
  IN  IfPassed(i, s, Saturated(Set(s, i.d, r.value), r.saturated))
Usat(i, s) ==
  LET r == UnsignedSatQ(ShiftedN(i, s), i.saturate_to)
  IN  IfPassed(i, s, Saturated(Set(s, i.d, r.value), r.saturated))

Ssat16(i, s) ==
  LET r == [half \in 0..1 |-> SignedSatQ(HalfIn(s, i.n, half = 1), i.saturate_to)]
  IN  IfPassed(i, s, Saturated(Set(s, i.d, FromHalves(r[1].value, r[0].value)),
                               r[0].saturated \/ r[1].saturated))
Usat16(i, s) ==
  LET r == [half \in 0..1 |-> UnsignedSatQ(HalfIn(s, i.n, half = 1), i.saturate_to)]
  IN  IfPassed(i, s, Saturated(Set(s, i.d, FromHalves(r[1].value, r[0].value)),
                               r[0].saturated \/ r[1].saturated))

-----------------------------------------------------------------------------
(* Lanes in parallel: bytes or halves, by their width in bits *)

ULane(x, lane, bits) == Substring(x, (lane + 1) * bits - 1, lane * bits)
SLane(x, lane, bits) == ToSigned(ULane(x, lane, bits), bits)

Sums(L(_, _, _), i, s, bits) ==
  [lane \in 0..(WordBits \div bits - 1) |-> L(Get(s, i.n), lane, bits) + L(Get(s, i.m), lane, bits)]
Differences(L(_, _, _), i, s, bits) ==
  [lane \in 0..(WordBits \div bits - 1) |-> L(Get(s, i.n), lane, bits) - L(Get(s, i.m), lane, bits)]

\* With the halves of Rm exchanged: a sum in one half and a difference in the other.
Asx(L(_, _, _), i, s) ==
  [half \in 0..1 |-> IF half = 0 THEN L(Get(s, i.n), 0, HalfBits) - L(Get(s, i.m), 1, HalfBits)
                     ELSE L(Get(s, i.n), 1, HalfBits) + L(Get(s, i.m), 0, HalfBits)]

Sax(L(_, _, _), i, s) ==
  [half \in 0..1 |-> IF half = 0 THEN L(Get(s, i.n), 0, HalfBits) + L(Get(s, i.m), 1, HalfBits)
                     ELSE L(Get(s, i.n), 1, HalfBits) - L(Get(s, i.m), 0, HalfBits)]

\* What is kept of each lane.
Halved(x, bits) == ToUnsigned(x, bits + 1) \div 2
Parallel(i, s, r, bits, Keep(_, _)) ==
  IfPassed(i, s, Set(s, i.d, FromLanes([lane \in DOMAIN r |-> Keep(r[lane], bits)], bits)))

\* The forms that set GE: the flags of a lane tell whether it reached a least value.
ParallelGe(i, s, r, bits, least) ==
  LET t == Parallel(i, s, r, bits, ToUnsigned)
      laneOf(byte) == byte \div (bits \div ByteBits)
  IN  IfPassed(i, s, [t EXCEPT !.psr.ge = {byte \in Lanes : r[laneOf(byte)] >= least[laneOf(byte)]}])

NotNegative == [lane \in Lanes |-> 0]
CarryOut(bits) == [lane \in Lanes |-> 2^bits]

Sadd16(i, s) == ParallelGe(i, s, Sums(SLane, i, s, HalfBits), HalfBits, NotNegative)
Sadd8(i, s) == ParallelGe(i, s, Sums(SLane, i, s, ByteBits), ByteBits, NotNegative)
Ssub16(i, s) == ParallelGe(i, s, Differences(SLane, i, s, HalfBits), HalfBits, NotNegative)
Ssub8(i, s) == ParallelGe(i, s, Differences(SLane, i, s, ByteBits), ByteBits, NotNegative)
Sasx(i, s) == ParallelGe(i, s, Asx(SLane, i, s), HalfBits, NotNegative)
Ssax(i, s) == ParallelGe(i, s, Sax(SLane, i, s), HalfBits, NotNegative)

Uadd16(i, s) == ParallelGe(i, s, Sums(ULane, i, s, HalfBits), HalfBits, CarryOut(HalfBits))
Uadd8(i, s) == ParallelGe(i, s, Sums(ULane, i, s, ByteBits), ByteBits, CarryOut(ByteBits))
Usub16(i, s) == ParallelGe(i, s, Differences(ULane, i, s, HalfBits), HalfBits, NotNegative)
Usub8(i, s) == ParallelGe(i, s, Differences(ULane, i, s, ByteBits), ByteBits, NotNegative)
Uasx(i, s) == ParallelGe(i, s, Asx(ULane, i, s), HalfBits, [half \in 0..1 |-> IF half = 0 THEN 0 ELSE 2^HalfBits])
Usax(i, s) == ParallelGe(i, s, Sax(ULane, i, s), HalfBits, [half \in 0..1 |-> IF half = 0 THEN 2^HalfBits ELSE 0])

Shadd16(i, s) == Parallel(i, s, Sums(SLane, i, s, HalfBits), HalfBits, Halved)
Shadd8(i, s) == Parallel(i, s, Sums(SLane, i, s, ByteBits), ByteBits, Halved)
Shsub16(i, s) == Parallel(i, s, Differences(SLane, i, s, HalfBits), HalfBits, Halved)
Shsub8(i, s) == Parallel(i, s, Differences(SLane, i, s, ByteBits), ByteBits, Halved)
Shasx(i, s) == Parallel(i, s, Asx(SLane, i, s), HalfBits, Halved)
Shsax(i, s) == Parallel(i, s, Sax(SLane, i, s), HalfBits, Halved)

Uhadd16(i, s) == Parallel(i, s, Sums(ULane, i, s, HalfBits), HalfBits, Halved)
Uhadd8(i, s) == Parallel(i, s, Sums(ULane, i, s, ByteBits), ByteBits, Halved)
Uhsub16(i, s) == Parallel(i, s, Differences(ULane, i, s, HalfBits), HalfBits, Halved)
Uhsub8(i, s) == Parallel(i, s, Differences(ULane, i, s, ByteBits), ByteBits, Halved)
Uhasx(i, s) == Parallel(i, s, Asx(ULane, i, s), HalfBits, Halved)
Uhsax(i, s) == Parallel(i, s, Sax(ULane, i, s), HalfBits, Halved)

Qadd16(i, s) == Parallel(i, s, Sums(SLane, i, s, HalfBits), HalfBits, SignedSat)
Qadd8(i, s) == Parallel(i, s, Sums(SLane, i, s, ByteBits), ByteBits, SignedSat)
Qsub16(i, s) == Parallel(i, s, Differences(SLane, i, s, HalfBits), HalfBits, SignedSat)
Qsub8(i, s) == Parallel(i, s, Differences(SLane, i, s, ByteBits), ByteBits, SignedSat)
Qasx(i, s) == Parallel(i, s, Asx(SLane, i, s), HalfBits, SignedSat)
Qsax(i, s) == Parallel(i, s, Sax(SLane, i, s), HalfBits, SignedSat)

Uqadd16(i, s) == Parallel(i, s, Sums(ULane, i, s, HalfBits), HalfBits, UnsignedSat)
Uqadd8(i, s) == Parallel(i, s, Sums(ULane, i, s, ByteBits), ByteBits, UnsignedSat)
Uqsub16(i, s) == Parallel(i, s, Differences(ULane, i, s, HalfBits), HalfBits, UnsignedSat)
Uqsub8(i, s) == Parallel(i, s, Differences(ULane, i, s, ByteBits), ByteBits, UnsignedSat)
Uqasx(i, s) == Parallel(i, s, Asx(ULane, i, s), HalfBits, UnsignedSat)
Uqsax(i, s) == Parallel(i, s, Sax(ULane, i, s), HalfBits, UnsignedSat)

\* The sum of the distances of the bytes.
AbsoluteDifferences(i, s) ==
  LET distance(x, y) == IF x < y THEN y - x ELSE x - y
  IN  MapThenSumSet(LAMBDA lane : distance(ByteOf(Get(s, i.n), lane), ByteOf(Get(s, i.m), lane)), Lanes)

Usad8(i, s) == IfPassed(i, s, Set(s, i.d, LowerChunk(AbsoluteDifferences(i, s), WordBits)))
Usada8(i, s) == IfPassed(i, s, Set(s, i.d, Add(Get(s, i.a), AbsoluteDifferences(i, s))))

-----------------------------------------------------------------------------
(* Extension, after a rotation by whole bytes *)

Rotated(i, s) == IF i.rotation = 0 THEN Get(s, i.m) ELSE RorC(Get(s, i.m), WordBits, i.rotation).value
Half16(base, extended) == ToUnsigned(base + extended, HalfBits)

SignedByte(i, s) == SignExtend(ByteOf(Rotated(i, s), 0), ByteBits, WordBits)
SignedHalf(i, s) == SignExtend(HalfOf(Rotated(i, s), 0), HalfBits, WordBits)

\* Bytes 0 and 2 as the two halves.
SignedBytes(i, s) == [half \in 0..1 |-> SignExtend(ByteOf(Rotated(i, s), 2 * half), ByteBits, HalfBits)]
UnsignedBytes(i, s) == [half \in 0..1 |-> ByteOf(Rotated(i, s), 2 * half)]
AddedBytes(i, s, bytes) ==
  FromHalves(Half16(HalfOf(Get(s, i.n), 1), bytes[1]), Half16(HalfOf(Get(s, i.n), 0), bytes[0]))

Sxtb(i, s) == IfPassed(i, s, Set(s, i.d, SignedByte(i, s)))
Sxth(i, s) == IfPassed(i, s, Set(s, i.d, SignedHalf(i, s)))
Sxtb16(i, s) == IfPassed(i, s, Set(s, i.d, FromHalves(SignedBytes(i, s)[1], SignedBytes(i, s)[0])))
Sxtab(i, s) == IfPassed(i, s, Set(s, i.d, Add(Get(s, i.n), SignedByte(i, s))))
Sxtah(i, s) == IfPassed(i, s, Set(s, i.d, Add(Get(s, i.n), SignedHalf(i, s))))
Sxtab16(i, s) == IfPassed(i, s, Set(s, i.d, AddedBytes(i, s, SignedBytes(i, s))))
Uxtb(i, s) == IfPassed(i, s, Set(s, i.d, ByteOf(Rotated(i, s), 0)))
Uxth(i, s) == IfPassed(i, s, Set(s, i.d, HalfOf(Rotated(i, s), 0)))
Uxtb16(i, s) == IfPassed(i, s, Set(s, i.d, FromHalves(UnsignedBytes(i, s)[1], UnsignedBytes(i, s)[0])))
Uxtab(i, s) == IfPassed(i, s, Set(s, i.d, Add(Get(s, i.n), ByteOf(Rotated(i, s), 0))))
Uxtah(i, s) == IfPassed(i, s, Set(s, i.d, Add(Get(s, i.n), HalfOf(Rotated(i, s), 0))))
Uxtab16(i, s) == IfPassed(i, s, Set(s, i.d, AddedBytes(i, s, UnsignedBytes(i, s))))
=============================================================================
