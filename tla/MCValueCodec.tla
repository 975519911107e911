---------------------------- MODULE MCValueCodec ----------------------------
(* Model-checking instance of ValueCodec.                                  *)
EXTENDS ValueCodec

\* Every text of up to four of the bytes - 0 1 8 _ b x: signs, base
\* prefixes, leading zeros, digits too large for octal and underscores.
AllNumTexts == BoundedSeq({45, 48, 49, 56, 95, 98, 120}, 4)

\* Canonical decimal texts, as the text protocol carries them.
DecimalTexts == {Decimal(n) : n \in -12..12}

\* Up to two bytes of: every escaped byte, a letter, and '%'.
AllRawTexts == BoundedSeq({0, 8, 9, 10, 13, 26, 34, 39, 92, 97, 37}, 2)

\* Byte strings of three to five bytes, with high bits set: a complete
\* base64 group and each remainder after one.
LongRawTexts == {<<97, 255, 128>>, <<0, 39, 92, 200>>, <<1, 2, 254, 4, 5>>}
MCRawTexts == AllRawTexts \cup LongRawTexts

\* Each integral constructor at the int64 or uint64 bounds (Int8 and the
\* rest share IntBits) and at 0 and 1.
MCCtorArgs ==
    {[typ |-> t, n |-> n] : t \in Signed, n \in {MinInt, -1, 0, 1, MaxInt}}
    \cup {[typ |-> t, n |-> n] : t \in Unsigned, n \in {0, 1, MaxInt + 1, MaxUint}}

\* The decimal texts on either side of the int64 and uint64 bounds.
BoundaryTexts == {Decimal(n) : n \in {MinInt - 1, MinInt, MaxInt, MaxInt + 1, MaxUint, MaxUint + 1}}
AllIntTexts == AllNumTexts \cup BoundaryTexts

\* nil, []byte, int64, uint64, string and an unsupported Go type.
MCGoVals ==
    {[kind |-> "nil", n |-> 0, s |-> <<>>], [kind |-> "other", n |-> 0, s |-> <<>>]}
    \cup {[kind |-> k, n |-> 0, s |-> t] : k \in {"bytes", "string"}, t \in {<<>>, <<39>>, <<92, 97>>}}
    \cup {[kind |-> "int64", n |-> n, s |-> <<>>] : n \in {-7, 0, 1}}
    \cup {[kind |-> "uint64", n |-> n, s |-> <<>>] : n \in {0, 1, 12}}

MCTypes == {"Int64", "Uint64", "VarChar", "VarBinary", "Bit", "Null", "Expression"}

\* JSON texts by first byte: null and a bad literal; numbers around 0 and
\* the int64/uint64 bounds, with a leading zero and an exponent; strings of
\* canonical, non-canonical, unpadded and empty base64, unterminated; empty.
MCJsonTexts ==
    {<<110, 117, 108, 108>>, <<110, 117, 108>>,
     <<45, 48>>, <<45, 49>>, <<45, 48, 49>>, Decimal(MinInt - 1), Decimal(MinInt),
     <<48>>, <<48, 49>>, <<49, 101, 50>>, Decimal(MaxInt + 1), Decimal(MaxUint), Decimal(MaxUint + 1),
     <<34, 89, 81, 61, 61, 34>>, <<34, 89, 82, 61, 61, 34>>, <<34, 89, 81, 34>>, <<34, 34>>,
     <<34, 89, 87, 74, 106, 34>>, <<34, 89, 81, 61, 61>>, <<>>}
=============================================================================
