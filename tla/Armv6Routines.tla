--------------------------- MODULE Armv6Routines ---------------------------
(***************************************************************************)
(* More programs that must agree with what they are for: products, bit     *)
(* fields and saturation, what is stored and loaded back, calls and        *)
(* returns in both instruction sets, and instructions that are skipped.    *)
(* The specification runs every job of this module and of Armv6Programs.   *)
(***************************************************************************)
EXTENDS Armv6Programs

-----------------------------------------------------------------------------
(* Products: an opcode, and other opcodes that compute the same *)

Accumulate(i) == [i EXCEPT !.d_hi = 4, !.d_lo = 3]
Halves(i, high1, high2) == [i EXCEPT !.n_high = high1, !.m_high = high2]
Ror(d, m, k) == By(Do("RorImmediate", d, 0, m), "ROR", k)
Asr(d, m, k) == By(Do("AsrImmediate", d, 0, m), "ASR", k)
Lsr(d, m, k) == By(Do("LsrImmediate", d, 0, m), "LSR", k)
Lsl(d, m, k) == By(Do("LslImmediate", d, 0, m), "LSL", k)
Orr(d, n, m) == Do("OrrRegister", d, n, m)
Adds(d, n, m) == Flags(Do("AddRegisterArm", d, n, m))
Adc(d, n, m) == Do("AdcRegister", d, n, m)
Subtract(d, n, m) == Do("SubRegister", d, n, m)
HalfWord(d, m, high) == [Do("Sxth", d, 0, m) EXCEPT !.rotation = IF high THEN HalfBits ELSE 0]
Long(op, hi, lo) == [Do(op, 0, 1, 2) EXCEPT !.d_hi = hi, !.d_lo = lo]

\* r6 and r5 as the signed extension of r5, added to r4 and r3.
AddExtended == <<Asr(6, 5, WordBits - 1), Adds(3, 3, 5), Adc(4, 4, 6)>>
AddPair == <<Adds(3, 3, 5), Adc(4, 4, 6)>>

\* Each product: the opcode, the others, the registers that hold the result, and
\* whether Q tells what V does at the end of the others.
Product(name, swap, high) ==
  LET Is(left, right, results, q) == [left |-> left, right |-> right, results |-> results, q |-> q]
      swapped(op) == [Do(op, 5, 1, 2) EXCEPT !.m_swap = swap]
      rounded(op) == [Do(op, 5, 1, 2) EXCEPT !.round = swap]
      nearest(lo, hi) == IF swap THEN <<Adds(lo, lo, 8), Adc(hi, hi, 0)>> ELSE <<>>
      half == <<Flags(Move(8, 2^(WordBits - 1)))>>
      low == Halves(Do("Smul", 5, 1, 2), FALSE, swap)
      top == Halves(Do("Smul", 6, 1, 2), TRUE, ~swap)
  IN  CASE name = "mla" -> Is(<<Do("Mla", 5, 1, 2)>>, <<Do("Mul", 5, 1, 2), Adds(5, 5, 3)>>, {5}, FALSE)
        [] name = "mls" -> Is(<<Do("Mls", 5, 1, 2)>>, <<Do("Mul", 5, 1, 2), Subtract(5, 3, 5)>>, {5}, FALSE)
        [] name = "smull" ->
             Is(<<Long("Smull", 6, 5)>>,
                <<Long("Umull", 6, 5), Asr(7, 1, WordBits - 1), Do("AndRegister", 7, 7, 2), Subtract(6, 6, 7),
                  Asr(7, 2, WordBits - 1), Do("AndRegister", 7, 7, 1), Subtract(6, 6, 7)>>, {5, 6}, FALSE)
        [] name = "smlal" -> Is(<<Accumulate(Do("Smlal", 0, 1, 2))>>, <<Long("Smull", 6, 5)>> \o AddPair, {3, 4}, FALSE)
        [] name = "umlal" -> Is(<<Accumulate(Do("Umlal", 0, 1, 2))>>, <<Long("Umull", 6, 5)>> \o AddPair, {3, 4}, FALSE)
        [] name = "umaal" ->
             Is(<<Accumulate(Do("Umaal", 0, 1, 2))>>,
                <<Long("Umull", 6, 5), Adds(5, 5, 3), Adc(6, 6, 0), Adds(3, 5, 4), Adc(4, 6, 0)>>, {3, 4}, FALSE)
        [] name = "smmul" -> Is(<<rounded("Smmul")>>, half \o <<Long("Smull", 5, 7)>> \o nearest(7, 5), {5}, FALSE)
        [] name = "smmla" ->
             Is(<<rounded("Smmla")>>,
                half \o <<[Do("Smlal", 0, 1, 2) EXCEPT !.d_hi = 3, !.d_lo = 7]>> \o nearest(7, 3)
                  \o <<MoveRegister(0, 5, 3)>>, {5}, FALSE)
        [] name = "smmls" ->
             Is(<<rounded("Smmls")>>,
                half \o <<Long("Smull", 6, 7), Flags(Subtract(7, 0, 7)), Do("SbcRegister", 5, 3, 6)>> \o nearest(7, 5),
                {5}, FALSE)
        [] name = "smul" -> Is(<<Halves(Do("Smul", 5, 1, 2), swap, high)>>,
                               <<HalfWord(7, 1, swap), HalfWord(8, 2, high), Do("Mul", 5, 7, 8)>>, {5}, FALSE)
        [] name = "smla" -> Is(<<Halves(Do("Smla", 5, 1, 2), swap, high)>>,
                               <<Halves(Do("Smul", 5, 1, 2), swap, high), Adds(5, 5, 3)>>, {5}, TRUE)
        [] name = "smlalxy" -> Is(<<Accumulate(Halves(Do("Smlalxy", 0, 1, 2), swap, high))>>,
                                  <<Halves(Do("Smul", 5, 1, 2), swap, high)>> \o AddExtended, {3, 4}, FALSE)
        [] name = "smulw" ->
             Is(<<Halves(Do("Smulw", 5, 1, 2), FALSE, high)>>,
                <<HalfWord(2, 2, high), Long("Smull", 6, 5), Lsr(5, 5, HalfBits), Lsl(6, 6, HalfBits), Orr(5, 5, 6)>>,
                {5}, FALSE)
        [] name = "smlaw" -> Is(<<Halves(Do("Smlaw", 5, 1, 2), FALSE, high)>>,
                                <<Halves(Do("Smulw", 5, 1, 2), FALSE, high), Adds(5, 5, 3)>>, {5}, TRUE)
        [] name = "smuad" -> Is(<<swapped("Smuad")>>, <<low, top, Adds(5, 5, 6)>>, {5}, TRUE)
        [] name = "smusd" -> Is(<<swapped("Smusd")>>, <<low, top, Subtract(5, 5, 6)>>, {5}, FALSE)
        [] name = "smlad" -> Is(<<swapped("Smlad")>>, <<low, top, Adds(5, 5, 6), Adds(5, 5, 3)>>, {5}, FALSE)
        [] name = "smlsd" -> Is(<<swapped("Smlsd")>>, <<low, top, Subtract(5, 5, 6), Adds(5, 5, 3)>>, {5}, FALSE)
        [] name = "smlald" -> Is(<<Accumulate(swapped("Smlald"))>>,
                                 <<low>> \o AddExtended \o <<top, MoveRegister(0, 5, 6)>> \o AddExtended, {3, 4}, FALSE)
        [] name = "smlsld" ->
             Is(<<Accumulate(swapped("Smlsld"))>>,
                <<low>> \o AddExtended
                  \o <<top, Asr(5, 6, WordBits - 1), Flags(Subtract(3, 3, 6)), Do("SbcRegister", 4, 4, 5)>>, {3, 4}, FALSE)

ProductNames ==
  {"mla", "mls", "smull", "smlal", "umlal", "umaal", "smmul", "smmla", "smmls", "smul", "smla", "smlalxy", "smulw",
   "smlaw", "smuad", "smusd", "smlad", "smlsd", "smlald", "smlsld"}

\* j.way selects the halves, the exchange of halves, or the rounding.
ProductJob(t) ==
  \E name \in ProductNames, x \in Operands, y \in Operands, z0 \in Few, z1 \in {0, 2^WordBits - 1},
     way \in {"plain", "swap", "high"} :
    /\ way # "plain" => name \notin {"mla", "mls", "smull", "smlal", "umlal", "umaal"}
    /\ way = "high" => name \in {"smul", "smla", "smlalxy", "smulw", "smlaw"}
    /\ z1 # 0 => name \in {"smlal", "umlal", "umaal", "smlalxy", "smlald", "smlsld"}
    /\ Assign([Job("product", name, t, <<x, y, z0, z1>>) EXCEPT !.way = way])

ProductOf(j) == Product(j.name, j.way = "swap", j.way = "high")
ProductMeans(of, product, others) ==
  /\ \A n \in of.results : product.R[<<n, "usr">>] = R(others, n)
  /\ of.q => product.psr.q = others.psr.v

\* The quotient and what is left of the dividend.
DivisionJob(t) ==
  \E name \in {"Sdiv", "Udiv"}, x \in Operands, y \in Operands : Assign(Job("division", name, t, <<x, y, 0, 0>>))
DivisionProgram(j) == <<Do(j.name, 5, 1, 2), [Do("Mls", 6, 5, 2) EXCEPT !.a = 1]>>
DivisionMeans(j, s) ==
  LET of(word) == IF j.name = "Sdiv" THEN ToSigned(word, WordBits) ELSE word
      size(z) == IF z < 0 THEN -z ELSE z
      x == of(j.operands[1])
      y == of(j.operands[2])
      left == of(R(s, 6))
  IN  IF y = 0 THEN R(s, 5) = 0
      ELSE size(left) < size(y) /\ (left # 0 => (left < 0) = (x < 0))

-----------------------------------------------------------------------------
(* Bit fields, bytes and extension *)

Extend(op, rotation) == [Do(op, 5, 1, 2) EXCEPT !.rotation = rotation]
Turned(d, m, k) == IF k = 0 THEN MoveRegister(0, d, m) ELSE Ror(d, m, k)
Field(op, d, lsbit, width) == [Do(op, d, 2, 0) EXCEPT !.lsbit = lsbit, !.widthminus1 = width - 1]

\* SXTB and SXTH by two shifts, UXTB and UXTH likewise.
Extended(name, d, k) ==
  LET bits == IF name \in {"Sxtb", "Uxtb"} THEN WordBits - ByteBits ELSE WordBits - HalfBits
  IN  <<Turned(d, 2, k), Lsl(d, d, bits),
        IF name \in {"Sxtb", "Sxth"} THEN Asr(d, d, bits) ELSE Lsr(d, d, bits)>>

\* Bytes 0 and 2 of the turned r2, extended to halves.
TwoBytes(name, k) ==
  LET one == IF name = "Sxtb16" THEN "Sxtb" ELSE "Uxtb"
      half == [Do("Uxth", 5, 0, 5) EXCEPT !.rotation = 0]
  IN  Extended(one, 5, k) \o <<half>> \o Extended(one, 6, (k + HalfBits) % WordBits) \o <<By(Orr(5, 5, 6), "LSL", HalfBits)>>

\* The field of r2 in place, as r6.
InPlace(lsbit, width) == <<Field("Ubfx", 6, lsbit, width), Lsl(6, 6, lsbit)>>
Difference8 == <<Do("Uqsub8", 5, 1, 2), Do("Uqsub8", 6, 2, 1), Orr(5, 5, 6),
                 [Do("Uxtb16", 6, 0, 5) EXCEPT !.rotation = 0], [Do("Uxtb16", 7, 0, 5) EXCEPT !.rotation = ByteBits],
                 Adds(6, 6, 7), By(Adds(5, 6, 6), "LSR", HalfBits), [Do("Uxth", 5, 0, 5) EXCEPT !.rotation = 0]>>

Bits(name, k, width) ==
  LET Is(left, right) == [left |-> left, right |-> right]
      copy == MoveRegister(0, 5, 2)
      msbit(i) == [i EXCEPT !.lsbit = k, !.msbit = k + width - 1]
      packed(tb) == [By(Do("Pkh", 5, 1, 2), IF tb THEN "ASR" ELSE "LSL", width) EXCEPT !.tb_form = tb]
      shifted == IF width = 0 THEN MoveRegister(0, 6, 2) ELSE Lsl(6, 2, width)
  IN  CASE name \in {"Sxtb", "Sxth", "Uxtb", "Uxth"} -> Is(<<Extend(name, k)>>, Extended(name, 5, k))
        [] name = "Sxtab" -> Is(<<Extend("Sxtab", k)>>, <<Extend("Sxtb", k), Adds(5, 1, 5)>>)
        [] name = "Sxtah" -> Is(<<Extend("Sxtah", k)>>, <<Extend("Sxth", k), Adds(5, 1, 5)>>)
        [] name = "Uxtab" -> Is(<<Extend("Uxtab", k)>>, <<Extend("Uxtb", k), Adds(5, 1, 5)>>)
        [] name = "Uxtah" -> Is(<<Extend("Uxtah", k)>>, <<Extend("Uxth", k), Adds(5, 1, 5)>>)
        [] name \in {"Sxtb16", "Uxtb16"} -> Is(<<Extend(name, k)>>, TwoBytes(name, k))
        [] name = "Sxtab16" -> Is(<<Extend("Sxtab16", k)>>, <<Extend("Sxtb16", k), Do("Sadd16", 5, 1, 5)>>)
        [] name = "Uxtab16" -> Is(<<Extend("Uxtab16", k)>>, <<Extend("Uxtb16", k), Do("Uadd16", 5, 1, 5)>>)
        [] name = "Ubfx" -> Is(<<Field("Ubfx", 5, k, width)>>, <<Lsl(5, 2, WordBits - k - width), Lsr(5, 5, WordBits - width)>>)
        [] name = "Sbfx" -> Is(<<Field("Sbfx", 5, k, width)>>, <<Lsl(5, 2, WordBits - k - width), Asr(5, 5, WordBits - width)>>)
        [] name = "Bfc" -> Is(<<copy, msbit(Do("Bfc", 5, 0, 0))>>, InPlace(k, width) \o <<Do("EorRegister", 5, 2, 6)>>)
        [] name = "Bfi" -> Is(<<copy, [Do("Bfi", 5, 1, 0) EXCEPT !.lsbit = 0, !.msbit = width - 1]>>,
                              InPlace(0, width) \o <<Do("EorRegister", 5, 2, 6),
                              [Field("Ubfx", 6, 0, width) EXCEPT !.n = 1], Orr(5, 5, 6)>>)
        [] name = "Rbit" -> Is(<<Do("Rbit", 5, 0, 2), Do("Rbit", 5, 0, 5)>>, <<copy>>)
        [] name = "Clz" -> Is(<<Do("Rbit", 5, 0, 2), Do("Clz", 5, 0, 5)>>,   \* trailing zeros
                              <<Do("RsbImmediate", 5, 2, 0), Do("AndRegister", 5, 5, 2), Do("Clz", 5, 0, 5),
                                With(Do("RsbImmediate", 5, 5, 0), WordBits - 1)>>)
        [] name = "Rev" -> Is(<<Do("Rev", 5, 0, 2)>>, <<Do("Rev16", 5, 0, 2), Ror(5, 5, HalfBits)>>)
        [] name = "Revsh" -> Is(<<Do("Revsh", 5, 0, 2)>>, <<Do("Rev16", 5, 0, 2), HalfWord(5, 5, FALSE)>>)
        [] name = "Movt" -> Is(<<copy, [Do("Movt", 5, 0, 0) EXCEPT !.imm16 = 2^HalfBits - 2]>>,
                               <<[Do("Uxth", 5, 0, 2) EXCEPT !.rotation = 0], Move(6, 2^HalfBits - 2),
                                 By(Orr(5, 5, 6), "LSL", HalfBits)>>)
        [] name = "Pkhbt" -> Is(<<packed(FALSE)>>, <<[Do("Uxth", 5, 0, 1) EXCEPT !.rotation = 0], shifted,
                                                     Lsr(6, 6, HalfBits), By(Orr(5, 5, 6), "LSL", HalfBits)>>)
        [] name = "Pkhtb" -> Is(<<packed(TRUE)>>, <<Asr(6, 2, width), [Do("Uxth", 6, 0, 6) EXCEPT !.rotation = 0],
                                                    Lsr(5, 1, HalfBits), By(Orr(5, 6, 5), "LSL", HalfBits)>>)
        [] name = "Usad8" -> Is(<<Do("Usad8", 5, 1, 2)>>, Difference8)
        [] name = "Usada8" -> Is(<<Do("Usada8", 5, 1, 2)>>, Difference8 \o <<Adds(5, 5, 3)>>)

Rotations == {0, ByteBits, 2 * ByteBits, 3 * ByteBits}
ExtendNames ==
  {"Sxtb", "Sxth", "Uxtb", "Uxth", "Sxtab", "Sxtah", "Uxtab", "Uxtah", "Sxtb16", "Uxtb16", "Sxtab16", "Uxtab16"}
FieldNames == {"Ubfx", "Sbfx", "Bfc", "Bfi", "Pkhbt", "Pkhtb"}
BitJob(t) ==
  \E x \in Few, y \in Operands :
    \/ \E name \in ExtendNames, k \in Rotations : Assign([Job("bits", name, t, <<x, y, 1, 0>>) EXCEPT !.k = k])
    \/ \E name \in FieldNames, k \in {1, 3}, width \in {1, 4} :
         Assign([Job("bits", name, t, <<x, y, 1, 0>>) EXCEPT !.k = k, !.width = width])
    \/ \E name \in {"Rbit", "Rev", "Revsh", "Movt", "Usad8", "Usada8", "Clz"} :
         (name = "Clz" => y # 0) /\ Assign(Job("bits", name, t, <<x, y, 1, 0>>))

BitMeans(opcode, others) == opcode.R[<<5, "usr">>] = R(others, 5)

-----------------------------------------------------------------------------
(* Saturation: the nearest value that fits, and Q for as long as nobody clears it *)

SaturationJob(t) ==
  \E x \in Operands :
    \/ \E name \in {"Qadd", "Qsub", "Qdadd", "Qdsub"}, y \in Operands : Assign(Job("saturate", name, t, <<x, y, 0, 0>>))
    \/ \E name \in {"Ssat", "Usat", "Ssat16", "Usat16"}, k \in {0, 1}, width \in {1, 3} :
         Assign([Job("saturate", name, t, <<x, 0, 0, 0>>) EXCEPT !.k = k, !.width = width])

\* The second instruction saturates nothing.
SaturationProgram(j) ==
  LET first == By(Do(j.name, 5, 1, 2), "LSL", j.k)
  IN  <<[first EXCEPT !.saturate_to = j.width], Do("Qadd", 6, 0, 0)>>

Nearest(x, least, most) == Max({least, Min({x, most})})

\* (SSAT leaves the bits above the width clear.)
SaturationMeans(j, s) ==
  LET most(bits) == 2^(bits - 1) - 1
      signed(x, bits) == Nearest(x, -(2^(bits - 1)), most(bits))
      unsigned(x, bits) == Nearest(x, 0, 2^bits - 1)
      n == ToSigned(j.operands[1], WordBits)
      m == ToSigned(j.operands[2], WordBits)
      shifted == ToSigned(ToUnsigned(n * 2^j.k, WordBits), WordBits)
      half(h) == ToSigned(HalfOf(j.operands[1], h), HalfBits)
      twice == signed(2 * n, WordBits)
      Whole(exact, doubled) == /\ R(s, 5) = ToUnsigned(signed(exact, WordBits), WordBits)
                               /\ s.psr.q = Flag(signed(exact, WordBits) # exact \/ (doubled /\ twice # 2 * n))
      Fits(x, Nearby(_, _)) == Nearby(x, j.width) = x
  IN  CASE j.name = "Qadd" -> Whole(m + n, FALSE)
        [] j.name = "Qsub" -> Whole(m - n, FALSE)
        [] j.name = "Qdadd" -> Whole(m + twice, TRUE)
        [] j.name = "Qdsub" -> Whole(m - twice, TRUE)
        [] j.name = "Ssat" -> /\ R(s, 5) % 2^j.width = ToUnsigned(signed(shifted, j.width), j.width)
                              /\ s.psr.q = Flag(~Fits(shifted, signed))
        [] j.name = "Usat" -> R(s, 5) = unsigned(shifted, j.width) /\ s.psr.q = Flag(~Fits(shifted, unsigned))
        [] j.name = "Ssat16" -> /\ \A h \in 0..1 : HalfOf(R(s, 5), h) % 2^j.width = ToUnsigned(signed(half(h), j.width), j.width)
                                /\ s.psr.q = Flag(\E h \in 0..1 : ~Fits(half(h), signed))
        [] j.name = "Usat16" -> /\ \A h \in 0..1 : HalfOf(R(s, 5), h) = unsigned(half(h), j.width)
                                /\ s.psr.q = Flag(\E h \in 0..1 : ~Fits(half(h), unsigned))

-----------------------------------------------------------------------------
(* What is stored is what is loaded back.  r1 is the address, r2 and r3 the    *)
(* values, r4 the offset.                                                      *)

\* A store, a load of as many bytes, how many, and whether the load extends the sign.
Transfers(t) ==
  {<<InSet(t, "StrImmediateArm", "StrImmediateThumb"), InSet(t, "LdrImmediateArm", "LdrImmediateThumb"), 4, FALSE>>,
   <<"StrRegister", InSet(t, "LdrRegisterArm", "LdrRegisterThumb"), 4, FALSE>>,
   <<InSet(t, "StrbImmediateArm", "StrbImmediateThumb"), InSet(t, "LdrbImmediateArm", "LdrbImmediateThumb"), 1, FALSE>>,
   <<"StrbRegister", "LdrbRegister", 1, FALSE>>,
   <<InSet(t, "StrhImmediateArm", "StrhImmediateThumb"), InSet(t, "LdrhImmediateArm", "LdrhImmediateThumb"), 2, FALSE>>,
   <<"StrhRegister", "LdrhRegister", 2, FALSE>>, <<"StrbRegister", "LdrsbRegister", 1, TRUE>>,
   <<"StrhRegister", "LdrshRegister", 2, TRUE>>,
   <<InSet(t, "StrbImmediateArm", "StrbImmediateThumb"), "LdrsbImmediate", 1, TRUE>>,
   <<InSet(t, "StrhImmediateArm", "StrhImmediateThumb"), "LdrshImmediate", 2, TRUE>>}
UnprivTransfers ==
  {<<"Strt", "Ldrt", 4, FALSE>>, <<"Strbt", "Ldrbt", 1, FALSE>>, <<"Strht", "Ldrht", 2, FALSE>>,
   <<"Strbt", "Ldrsbt", 1, TRUE>>, <<"Strht", "Ldrsht", 2, TRUE>>}
DualTransfers == {<<"StrdImmediate", "LdrdImmediate", 8, FALSE>>, <<"StrdRegister", "LdrdRegister", 8, FALSE>>}
LiteralTransfers ==
  {<<"StrImmediateArm", "LdrLiteral", 4, FALSE>>, <<"StrbImmediateArm", "LdrbLiteral", 1, FALSE>>,
   <<"StrhImmediateArm", "LdrhLiteral", 2, FALSE>>, <<"StrbImmediateArm", "LdrsbLiteral", 1, TRUE>>,
   <<"StrhImmediateArm", "LdrshLiteral", 2, TRUE>>, <<"StrdImmediate", "LdrdLiteral", 8, FALSE>>}
ExclusiveTransfers ==
  {<<"StrImmediateArm", "Ldrex", 4, FALSE>>, <<"StrbImmediateArm", "Ldrexb", 1, FALSE>>,
   <<"StrhImmediateArm", "Ldrexh", 2, FALSE>>}

\* A word lies in the data, at a misaligned address too where SCTLR.U allows it, or
\* where the literals are.
TransferJob(t) ==
  \E x \in Few, e \in Bit :
    LET Is(pair, base, y, way) == Assign([Job("transfer", "none", t, <<base, x, y, 4>>) EXCEPT !.pair = pair, !.way = way, !.e = e])
    IN  \/ \E pair \in Transfers(t), base \in {8, 13}, way \in {"offset", "down", "pre", "post"} :
             (pair[2] = "LdrRegisterThumb" => way = "offset") /\ Is(pair, base, 0, way)
        \/ \E pair \in UnprivTransfers, base \in {8, 13}, way \in {"unprivileged", "post"} : Is(pair, base, 0, way)
        \/ \E pair \in DualTransfers, y \in Few, way \in {"offset", "pre", "post"} : Is(pair, 8, y, way)
        \/ \E pair \in LiteralTransfers, y \in Few : Is(pair, 8, y, "literal")
        \/ \E pair \in ExclusiveTransfers : Is(pair, 8, 0, "exclusive")

\* The access of r1, with the offset of 4 in r4 or in the instruction.
Transfer(j, op, t, t2) ==
  LET plain == [Do(op, t, 1, 4) EXCEPT !.t = t, !.t2 = t2, !.imm32 = 4, !.register_form = FALSE]
  IN  CASE j.way \in {"offset", "unprivileged"} -> plain
        [] j.way = "down" -> [plain EXCEPT !.add = FALSE]
        [] j.way = "pre"  -> [plain EXCEPT !.wback = TRUE]
        [] j.way = "post" -> [plain EXCEPT !.index = FALSE, !.wback = TRUE, !.post_index = TRUE]
        [] j.way = "exclusive" -> [plain EXCEPT !.imm32 = 0]

\* The literal is 8 past what its load is relative to.
TransferProgram(j) ==
  LET store == [Transfer([j EXCEPT !.way = "exclusive"], j.pair[1], 2, 3) EXCEPT !.n = 7]
  IN  IF j.way = "literal"
      THEN <<Move(7, Origin + 8 + (IF j.t = 1 THEN 4 ELSE 8) + 8), store, [Do(j.pair[2], 5, 15, 4) EXCEPT !.imm32 = 8]>>
      ELSE <<MoveRegister(j.t, 7, 1), Transfer(j, j.pair[1], 2, 3), MoveRegister(j.t, 1, 7), Transfer(j, j.pair[2], 5, 6)>>

Kept_(j, value) ==
  LET bits == ByteBits * j.pair[3]
  IN  CASE j.pair[3] \in {4, 8} -> value
        [] j.pair[3] < 4 -> IF j.pair[4] THEN SignExtend(LowerChunk(value, bits), bits, WordBits) ELSE LowerChunk(value, bits)

\* The value comes back, the base has moved where it was to move, and no byte
\* outside the ones stored has changed.
TransferMeans(j, s) ==
  LET base == j.operands[1]
      address == CASE j.way \in {"post", "exclusive"} -> base
                   [] j.way = "down" -> base - 4
                   [] j.way = "literal" -> Origin + 8 + (IF j.t = 1 THEN 4 ELSE 8) + 8
                   [] OTHER -> base + 4
      ByteNow(a) == ByteOf(s.mem[a \div 4], a % 4)
  IN  /\ R(s, 5) = Kept_(j, j.operands[2])
      /\ j.pair[3] = 8 => R(s, 6) = j.operands[3]
      /\ R(s, 1) = IF j.way \in {"pre", "post"} THEN base + 4 ELSE base
      /\ \A a \in 0..(4 * MemWords - 1) : a \notin address..(address + j.pair[3] - 1) => ByteNow(a) = 0

-----------------------------------------------------------------------------
(* Lists of registers, and the opposite list that loads them back *)

ListPairs(t) ==
  {<<"Stmdb", InSet(t, "LdmArm", "LdmThumb")>>, <<"Stm", "Ldmdb">>, <<"Stmib", "Ldmda">>, <<"Stmda", "Ldmib">>,
   <<"Push", InSet(t, "PopArm", "PopThumb")>>}
ListJob(t) ==
  \E pair \in ListPairs(t), x \in Few, y \in Few, z \in {1, 2^WordBits - 2}, e \in Bit :
    Assign([Job("list", "none", t, <<16, x, y, z>>) EXCEPT !.pair = pair, !.e = e])

ListProgram(j) ==
  LET list(op) == [Do(op, 0, 1, 0) EXCEPT !.registers = {2, 3, 4}, !.wback = TRUE]
  IN  <<MoveRegister(j.t, 13, 1), list(j.pair[1]), Move(2, 0), Move(3, 0), Move(4, 0), list(j.pair[2])>>

ListMeans(j, s) == \A n \in 1..4 : R(s, n) = j.operands[n] /\ R(s, 13) = j.operands[1]

-----------------------------------------------------------------------------
(* Calls: in either instruction set of a function in either, which returns     *)

CallJob(t) ==
  \/ \E name \in {"BlBlxImmediate", "BlxRegister"}, k \in Bit, back \in {"bx", "pop", "list"} :
       Assign([Job("call", name, t, <<0, 0, 0, 2>>) EXCEPT !.k = k, !.way = back])
  \/ \E entry \in {0, 2}, index \in {0, 1}, k \in Bit :
       t = 1 /\ Assign([Job("table", "TbbTbh", t, <<0, entry, 0, index>>) EXCEPT !.k = k])

Return(back, set) ==
  LET list(op) == [Do(op, 0, 13, 0) EXCEPT !.registers = {4, 15}, !.wback = TRUE]
  IN  CASE back = "bx" -> Do("Bx", 0, 0, 14)
        [] back = "pop" -> list(InSet(set, "PopArm", "PopThumb"))
        [] back = "list" -> list(InSet(set, "LdmArm", "LdmThumb"))
Enter(back) ==
  LET list(op) == [Do(op, 0, 13, 0) EXCEPT !.registers = {4, 14}, !.wback = TRUE]
  IN  CASE back = "bx" -> Blank [] back = "pop" -> list("Push") [] back = "list" -> list("Stmdb")

\* The function is the sixth instruction; j.k is its instruction set.
CallProgram(j) ==
  LET function == Origin + 20
      ahead(index) == Origin + 4 * index + (IF j.t = 1 THEN 4 ELSE 8)
      near == [With([Blank EXCEPT !.op = "BlBlxImmediate"], function - ahead(2)) EXCEPT !.target = j.k]
      far == [Do("BlxRegister", 0, 0, 7) EXCEPT !.length = IF j.t = 1 THEN 2 ELSE 4]
  IN  <<Move(13, 16), Move(7, function + j.k), IF j.name = "BlBlxImmediate" THEN near ELSE far, Move(6, 3),
        With([Blank EXCEPT !.op = "B"], Origin + 40 - ahead(4)),
        Enter(j.way), Move(5, 9), IF j.way = "bx" THEN Blank ELSE Move(4, 7), Return(j.way, j.k), Blank>>

\* The caller goes on where it was, in its own instruction set, with its stack and
\* the registers it relies on.
CallMeans(j, s) ==
  R(s, 5) = 9 /\ R(s, 6) = 3 /\ s.psr.t = j.t /\ R(s, 13) = 16 /\ R(s, 4) = j.operands[4]

\* The entry of r2 is put in the table at 8, and taken by its index in r4.
TableProgram(j) ==
  LET put == [By(Do(IF j.k = 1 THEN "StrhRegister" ELSE "StrbRegister", 0, 7, 4), "LSL", j.k) EXCEPT !.t = 2]
  IN  <<Move(7, 8), Move(5, 1), put, [Do("TbbTbh", 0, 7, 4) EXCEPT !.is_tbh = (j.k = 1)], Move(5, 2), Move(6, 3)>>
TableMeans(j, s) == R(s, 5) = (IF j.operands[2] = 2 THEN 1 ELSE 2) /\ R(s, 6) = 3

-----------------------------------------------------------------------------
(* Instructions whose condition fails *)

\* Those that have none, and those that do not look at it.
Unconditional ==
  {"CpsArm", "CpsThumb", "Setend", "It", "Cbz", "Nop", "Clrex", "Bkpt", "LdrshRegister", "AsrRegister",
   "LslRegister", "LsrRegister", "RorRegister"} \cup {Twofold[name][2] : name \in DOMAIN Twofold \ {"orn"}}
SkipJob(t) == \E op \in Opcodes \ Unconditional : Assign(Job("skip", op, t, <<4, 1, 2, 3>>))

\* EQ, with Z clear.
SkipProgram(j) ==
  LET skipped == Flags([Blank EXCEPT !.op = j.name, !.cond = IF j.t = 1 THEN NoCond ELSE 0])
  IN  IF j.t = 0 THEN <<skipped>> ELSE <<[Blank EXCEPT !.op = "It", !.firstcond = 0, !.mask = 8], skipped>>
SkipMeans(j, s) ==
  LET unmoved == Started(j) IN s = [unmoved EXCEPT !.pc = s.pc]

-----------------------------------------------------------------------------
FirstProgram(j) ==
  CASE j.family = "wide"      -> WideProgram(j)
    [] j.family = "compare"   -> CompareProgram(j)
    [] j.family = "lanes"     -> LaneProgram(j)
    [] j.family = "fused"     -> FusedProgram(j)
    [] j.family = "immediate" -> ImmediateProgram(j)
    [] j.family = "product"   -> ProductOf(j).left
    [] j.family = "division"  -> DivisionProgram(j)
    [] j.family = "bits"      -> Bits(j.name, j.k, j.width).left
    [] j.family = "saturate"  -> SaturationProgram(j)
    [] j.family = "transfer"  -> TransferProgram(j)
    [] j.family = "list"      -> ListProgram(j)
    [] j.family = "call"      -> CallProgram(j)
    [] j.family = "table"     -> TableProgram(j)
    [] j.family = "skip"      -> SkipProgram(j)
SecondProgram(j) ==
  CASE j.family = "fused"     -> ApartProgram(j)
    [] j.family = "immediate" -> RegisterProgram(j)
    [] j.family = "product"   -> ProductOf(j).right
    [] j.family = "bits"      -> Bits(j.name, j.k, j.width).right
Program(j) == IF j.first = <<>> THEN FirstProgram(j) ELSE SecondProgram(j)

Families ==
  {"wide", "compare", "lanes", "fused", "immediate", "product", "division", "bits", "saturate", "transfer", "list", "call", "skip"}

routineVars == <<job, cpu>>

Finished == Chosen /\ cpu.pc = Origin + 4 * Len(Program(job))
Halfway == Finished /\ job.family \in Twins /\ job.first = <<>>
Ended == Chosen /\ Finished /\ ~Halfway

\* Those whose opcodes are the same in both instruction sets are run in one.
RoutineInit ==
  /\ \E t \in Bit, family \in Families :
       /\ family \in {"lanes", "product", "division"} => t = 0
       /\ job = [t |-> t, family |-> family]
  /\ cpu = [pc |-> Origin, raised |-> "none"]

Instruction == At(Program(job), Origin, cpu.pc)

Run ==
  /\ Chosen /\ ~Finished /\ cpu.raised = "none"
  /\ cpu' = EmulateCycle(Instruction, Opcode, cpu)
  /\ UNCHANGED job

End == Ended /\ UNCHANGED routineVars

RoutineNext ==
  \/ Open("wide") /\ Wide(job.t)
  \/ Open("compare") /\ Compare(job.t)
  \/ Open("lanes") /\ LaneJob(job.t)
  \/ Open("fused") /\ Fused(job.t)
  \/ Open("immediate") /\ ImmediateJob(job.t)
  \/ Open("product") /\ ProductJob(job.t)
  \/ Open("division") /\ DivisionJob(job.t)
  \/ Open("bits") /\ BitJob(job.t)
  \/ Open("saturate") /\ SaturationJob(job.t)
  \/ Open("transfer") /\ TransferJob(job.t)
  \/ Open("list") /\ ListJob(job.t)
  \/ Open("call") /\ CallJob(job.t)
  \/ Open("skip") /\ SkipJob(job.t)
  \/ Run \/ (Halfway /\ Again) \/ End
RoutineSpec == RoutineInit /\ [][RoutineNext]_routineVars

\* Arithmetic through flags comes out right whatever the operands: carries chain
\* over words, after a comparison each condition is its relation of the integers
\* for a branch, a conditional instruction and an IT block, each lane of a parallel
\* operation is the operation on the lanes alone, and saturated results are the
\* nearest that fit, with Q remembering that one was.
ResultsAreRight ==
  Ended =>
    /\ job.family = "wide" => WideMeans(job, cpu)
    /\ job.family = "compare" => CompareMeans(job, cpu)
    /\ job.family = "lanes" => LaneMeans(job, cpu)
    /\ job.family = "saturate" => SaturationMeans(job, cpu)

\* Different opcodes agree on what they have in common: the forms of one operation,
\* products and bit fields with what other opcodes make of them, division with its
\* remainder, and loads with the stores before them, in either byte order and at
\* misaligned addresses, nothing else in memory being touched.
OpcodesAgree ==
  Ended =>
    /\ job.family = "fused" => FusedMeans(job.first[1], cpu)
    /\ job.family = "immediate" => ImmediateMeans(job, job.first[1], cpu)
    /\ job.family = "product" => ProductMeans(ProductOf(job), job.first[1], cpu)
    /\ job.family = "division" => DivisionMeans(job, cpu)
    /\ job.family = "bits" => BitMeans(job.first[1], cpu)
    /\ job.family = "transfer" => TransferMeans(job, cpu)
    /\ job.family = "list" => ListMeans(job, cpu)

\* Calls and table branches return to their caller, in its instruction set, and an
\* instruction whose condition fails moves nothing but PC.
CallsReturn ==
  Ended =>
    /\ job.family = "call" => CallMeans(job, cpu)
    /\ job.family = "table" => TableMeans(job, cpu)
    /\ job.family = "skip" => SkipMeans(job, cpu)
=============================================================================
