------------------------------ MODULE ValueCodec ------------------------------
(***************************************************************************)
(* The typed Value of src/mysql/types/value.go: its constructors           *)
(* (NewValue, NewIntegral, MakeTrusted), its conversions (ToInt64,         *)
(* ToUint64, ToBool) and its SQL encoding (EncodeSQL, encodeBytesSQL,      *)
(* encodeBytesSQLBits with SQLEncodeMap built from encodeRef).             *)
(*                                                                         *)
(* Text is a sequence of byte codes.  Go's strconv.ParseInt/ParseUint     *)
(* (bases 0 and 10, sign, 0b/0o/0x and leading-0 prefixes, underscores)    *)
(* and the type classes IsSigned, IsUnsigned, IsQuoted are not in the      *)
(* repository; they are written from Go's and the MySQL type's rules.      *)
(* The state is one Value and the result of the last operation on it.      *)
(*                                                                         *)
(* Every parse in value.go has bitSize 64.  The width is the constant      *)
(* IntBits: the range checks depend on it only through 2^IntBits, so TLC   *)
(* checks them at a width its 32-bit integers hold.                        *)
(***************************************************************************)
EXTENDS Integers, Sequences, SequencesExt

CONSTANTS
    NumTexts,    \* texts given to NewValue for integral types
    IntTexts,    \* texts given to NewIntegral
    RawTexts,    \* byte strings given to NewValue for quoted types and Bit
    Types,       \* the types NewValue is called with
    CtorArgs,    \* [typ, n]: the integral constructors' arguments, in range
    GoVals,      \* [kind, n, s]: the Go values given to InterfaceToValue
    JsonTexts,   \* the texts given to UnmarshalJSON
    IntBits      \* the bitSize of every ParseInt/ParseUint (64 in the code)

Signed == {"Int64", "Int8", "Int32"}
Unsigned == {"Uint64", "Uint32"}
Quoted == {"VarChar", "VarBinary"}
Integral == Signed \cup Unsigned

NULL == [typ |-> "Null", raw |-> <<>>]

\* The int64 and uint64 ranges at width IntBits.
MaxUint == 2 ^ IntBits - 1
MaxInt == 2 ^ (IntBits - 1) - 1
MinInt == -(2 ^ (IntBits - 1))

-----------------------------------------------------------------------------
(* strconv.ParseUint / ParseInt (Go): the syntax, the digits, and the      *)
(* range check of the bitSize.                                             *)

Lower(c) == IF c \in 65..90 THEN c + 32 ELSE c
\* The value of digit byte c, 36 for a non-digit (always >= base).
DigitVal(c) ==
    CASE c \in 48..57            -> c - 48
      [] Lower(c) \in 97..122    -> Lower(c) - 97 + 10
      [] OTHER                   -> 36

Drop(s, k) == SubSeq(s, k + 1, Len(s))

\* underscoreOK: underscores only between digits (or after a base prefix).
RECURSIVE UnderscoreScan(_, _, _)
UnderscoreScan(s, saw, hex) ==
    IF s = <<>> THEN saw # "_"
    ELSE LET c == Head(s)
         IN IF c \in 48..57 \/ (hex /\ Lower(c) \in 97..102)
            THEN UnderscoreScan(Tail(s), "0", hex)
            ELSE IF c = 95
            THEN saw = "0" /\ UnderscoreScan(Tail(s), "_", hex)
            ELSE saw # "_" /\ UnderscoreScan(Tail(s), "!", hex)

UnderscoreOK(s0) ==
    LET s == IF s0 # <<>> /\ Head(s0) \in {43, 45} THEN Tail(s0) ELSE s0
        pre == Len(s) >= 2 /\ s[1] = 48 /\ Lower(s[2]) \in {98, 111, 120}
    IN IF pre THEN UnderscoreScan(Drop(s, 2), "0", Lower(s[2]) = 120)
       ELSE UnderscoreScan(s, "^", FALSE)

Err == [ok |-> FALSE, n |-> 0]

\* The number s denotes in ParseUint's syntax (the base-0 prefix, then the
\* digit loop), whatever its size.
UintDigits(s, base0) ==
    LET b  == IF ~base0 \/ s = <<>> \/ s[1] # 48 THEN 10
              ELSE IF Len(s) >= 3 /\ Lower(s[2]) = 98  THEN 2
              ELSE IF Len(s) >= 3 /\ Lower(s[2]) = 111 THEN 8
              ELSE IF Len(s) >= 3 /\ Lower(s[2]) = 120 THEN 16
              ELSE 8
        ds == IF ~base0 \/ s = <<>> \/ s[1] # 48 THEN s
              ELSE IF b = 8 /\ ~(Len(s) >= 3 /\ Lower(s[2]) = 111) THEN Drop(s, 1)
              ELSE Drop(s, 2)
        digits == SelectSeq(ds, LAMBDA c : ~(base0 /\ c = 95))
        unders == Len(digits) < Len(ds)
    IN IF s = <<>> \/ (\E i \in DOMAIN digits : DigitVal(digits[i]) >= b)
          \/ (unders /\ ~UnderscoreOK(s))
       THEN Err
       ELSE [ok |-> TRUE, n |-> FoldLeft(LAMBDA acc, c : acc * b + DigitVal(c), 0, digits)]

\* ParseUint(s, base, 64): the digits; a value above maxVal is ErrRange
\* (the loop's cutoff and n1 > maxVal checks).
ParseUint(s, base0) ==
    LET u == UintDigits(s, base0)
    IN IF u.ok /\ u.n > MaxUint THEN Err ELSE u

\* The number s denotes in ParseInt's syntax (an optional sign), whatever
\* its size.
IntDigits(s, base0) ==
    LET neg == s # <<>> /\ Head(s) = 45
        u   == UintDigits(IF s # <<>> /\ Head(s) \in {43, 45} THEN Tail(s) ELSE s, base0)
    IN IF s = <<>> THEN Err
       ELSE IF u.ok THEN [ok |-> TRUE, n |-> IF neg THEN -u.n ELSE u.n] ELSE Err

\* ParseInt(s, base, 64): ParseUint of the unsigned part (its ErrRange
\* goes on), then the cutoff 1 << (bitSize-1): !neg && un >= cutoff or
\* neg && un > cutoff is ErrRange.
ParseInt(s, base0) ==
    LET i == IntDigits(s, base0)
    IN IF i.ok /\ (i.n > MaxInt \/ i.n < MinInt) THEN Err ELSE i

\* strconv.AppendInt(nil, n, 10): the canonical decimal text.
RECURSIVE Decimal(_)
Decimal(n) ==
    IF n < 0 THEN <<45>> \o Decimal(-n)
    ELSE IF n < 10 THEN <<48 + n>> ELSE Decimal(n \div 10) \o <<48 + (n % 10)>>

-----------------------------------------------------------------------------
(* The code of value.go.                                                   *)

\* Mutant: encodeRef without the backslash entry.
EncodeRefNoBackslash ==
    [c \in {0, 39, 34, 8, 10, 13, 9, 26} |->
        CASE c = 0 -> 48 [] c = 39 -> 39 [] c = 34 -> 34 [] c = 8 -> 98
          [] c = 10 -> 110 [] c = 13 -> 114 [] c = 9 -> 116 [] c = 26 -> 90]

\* encodeRef: the bytes escaped with '\' and the letter that follows it.
EncodeRef ==
    [c \in {0, 39, 34, 8, 10, 13, 9, 92, 26} |->
        CASE c = 0 -> 48 [] c = 39 -> 39 [] c = 34 -> 34 [] c = 8 -> 98
          [] c = 10 -> 110 [] c = 13 -> 114 [] c = 9 -> 116 [] c = 26 -> 90
          [] c = 92 -> 92]

DontEscape == 255

\* SQLEncodeMap as init() fills it: DontEscape except encodeRef's keys.
SQLEncodeMap(c) == IF c \in DOMAIN EncodeRef THEN EncodeRef[c] ELSE DontEscape

\* encodeBytesSQL: quote, each byte as is or '\' and its escape, quote.
EncodeBytesSQL(val) ==
    <<39>> \o FlattenSeq([i \in DOMAIN val |->
                 IF SQLEncodeMap(val[i]) = DontEscape THEN <<val[i]>>
                 ELSE <<92, SQLEncodeMap(val[i])>>]) \o <<39>>

\* fmt.Fprintf(b, "%08b", ch): eight binary digits, high bit first.
Bits8(ch) == [i \in 1..8 |-> 48 + ((ch \div (2 ^ (8 - i))) % 2)]

\* encodeBytesSQLBits: b'<bits of every byte>'.
EncodeBytesSQLBits(val) ==
    <<98, 39>> \o FlattenSeq([i \in DOMAIN val |-> Bits8(val[i])]) \o <<39>>

\* base64.StdEncoding (Go): the letter of a 6-bit group.
Sextet(k) ==
    CASE k < 26 -> 65 + k [] k < 52 -> 97 + k - 26 [] k < 62 -> 48 + k - 52
      [] k = 62 -> 43 [] OTHER -> 47

\* The four letters of three bytes.
Quad(b1, b2, b3) ==
    LET n == (b1 * 256 + b2) * 256 + b3
    IN [i \in 1..4 |-> Sextet((n \div (2 ^ (6 * (4 - i)))) % 64)]

\* encoder.Write: every complete group of three bytes; the rest is buffered.
B64Write(val) ==
    FlattenSeq([g \in 1..(Len(val) \div 3) |-> Quad(val[3 * g - 2], val[3 * g - 1], val[3 * g])])

\* encoder.Close: the buffered one or two bytes, padded with '='.
B64Close(val) ==
    LET r == Len(val) % 3
        l == Len(val)
    IN CASE r = 1 -> SubSeq(Quad(val[l], 0, 0), 1, 2) \o <<61, 61>>
         [] r = 2 -> SubSeq(Quad(val[l - 1], val[l], 0), 1, 3) \o <<61>>
         [] OTHER -> <<>>

\* The binary digits of x, w of them, high bit first.
BitsOf(x, w) == [i \in 1..w |-> (x \div (2 ^ (w - i))) % 2]

\* RFC 4648's base64 alphabet, in order.
B64Alphabet ==
    [i \in 1..26 |-> 64 + i] \o [i \in 1..26 |-> 96 + i] \o [i \in 1..10 |-> 47 + i] \o <<43, 47>>

\* Base64 text without its padding: whether every letter is in the
\* alphabet, the bit string of the letters, and the whole bytes in it.
B64Bits(chars) ==
    LET bits == FlattenSeq([i \in DOMAIN chars |->
                    BitsOf(CHOOSE k \in 0..63 : B64Alphabet[k + 1] = chars[i], 6)])
        k    == Len(bits) \div 8
    IN [ok    |-> \A i \in DOMAIN chars : chars[i] \in Range(B64Alphabet),
        bits  |-> bits,
        bytes |-> [j \in 1..k |->
                     FoldLeft(LAMBDA a, b : 2 * a + b, 0, SubSeq(bits, 8 * j - 7, 8 * j))]]

\* base64.StdEncoding.Decode: groups of four letters, '=' only at the end
\* and completing the last group; the unused bits of the last letter are
\* not checked (the encoding is not Strict).
B64Decode(body) ==
    LET pads  == Len(SelectSeq(body, LAMBDA c : c = 61))
        chars == SubSeq(body, 1, Len(body) - pads)
        d     == B64Bits(chars)
    IN IF Len(body) % 4 = 0 /\ pads <= 2 /\ d.ok
       THEN [ok |-> TRUE, bytes |-> d.bytes] ELSE [ok |-> FALSE, bytes |-> <<>>]

\* Mutant: encodeBytesASCII without encoder.Close().
EncodeBytesASCIINoClose(val) == <<39>> \o B64Write(val) \o <<39>>

\* encodeBytesASCII: quote, the base64 of the bytes, quote.
EncodeBytesASCII(val) == <<39>> \o B64Write(val) \o B64Close(val) \o <<39>>

\* MakeTrusted: Null collapses to NULL.
MakeTrusted(typ, val) == IF typ = "Null" THEN NULL ELSE [typ |-> typ, raw |-> val]

\* NewValue: integral texts must parse in base 0; quoted, Bit and Null take
\* any bytes; every other type is invalid.  (Floats are not modelled.)
NewValueOf(typ, val) ==
    CASE typ \in Signed   -> IF ParseInt(val, TRUE).ok
                             THEN [ok |-> TRUE, v |-> MakeTrusted(typ, val)]
                             ELSE [ok |-> FALSE, v |-> NULL]
      [] typ \in Unsigned -> IF ParseUint(val, TRUE).ok
                             THEN [ok |-> TRUE, v |-> MakeTrusted(typ, val)]
                             ELSE [ok |-> FALSE, v |-> NULL]
      [] typ \in Quoted \cup {"Bit", "Null"} -> [ok |-> TRUE, v |-> MakeTrusted(typ, val)]
      [] OTHER -> [ok |-> FALSE, v |-> NULL]

\* Mutant: the text is kept as given instead of its decimal form.
NewIntegralRaw(val) ==
    IF ParseInt(val, TRUE).ok THEN [ok |-> TRUE, v |-> MakeTrusted("Int64", val)]
    ELSE IF ParseUint(val, TRUE).ok THEN [ok |-> TRUE, v |-> MakeTrusted("Uint64", val)]
    ELSE [ok |-> FALSE, v |-> NULL]

\* Mutant: the Uint64 fallback formatted with AppendInt(int64(unsigned)).
NewIntegralWrap(val) ==
    IF ParseInt(val, TRUE).ok
    THEN [ok |-> TRUE, v |-> MakeTrusted("Int64", Decimal(ParseInt(val, TRUE).n))]
    ELSE IF ParseUint(val, TRUE).ok
    THEN [ok |-> TRUE, v |-> MakeTrusted("Uint64",
             Decimal(LET u == ParseUint(val, TRUE).n
                     IN IF u > MaxInt THEN u - 2 ^ IntBits ELSE u))]
    ELSE [ok |-> FALSE, v |-> NULL]

\* NewIntegral: Int64 when ParseInt succeeds, else Uint64, stored in
\* canonical decimal (AppendInt / AppendUint, base 10).
NewIntegral(val) ==
    IF ParseInt(val, TRUE).ok
    THEN [ok |-> TRUE, v |-> MakeTrusted("Int64", Decimal(ParseInt(val, TRUE).n))]
    ELSE IF ParseUint(val, TRUE).ok
    THEN [ok |-> TRUE, v |-> MakeTrusted("Uint64", Decimal(ParseUint(val, TRUE).n))]
    ELSE [ok |-> FALSE, v |-> NULL]

\* NewInt64, NewInt8, NewInt32 (strconv.AppendInt) and NewUint64,
\* NewUint32 (strconv.AppendUint): the decimal text under the type.
NewTyped(typ, n) == MakeTrusted(typ, Decimal(n))

\* NewVarChar and NewVarBinary: the string's bytes.
NewString(typ, s) == MakeTrusted(typ, s)

\* InterfaceToValue: by the Go value's dynamic type; float64 is not
\* modelled, and an unsupported type is an error.
InterfaceToValue(g) ==
    CASE g.kind = "nil"    -> [ok |-> TRUE, v |-> NULL]
      [] g.kind = "bytes"  -> [ok |-> TRUE, v |-> MakeTrusted("VarBinary", g.s)]
      [] g.kind = "int64"  -> [ok |-> TRUE, v |-> NewTyped("Int64", g.n)]
      [] g.kind = "uint64" -> [ok |-> TRUE, v |-> NewTyped("Uint64", g.n)]
      [] g.kind = "string" -> [ok |-> TRUE, v |-> NewString("VarChar", g.s)]
      [] OTHER             -> [ok |-> FALSE, v |-> NULL]

\* json.Unmarshal of a JSON number into int64 (signed) or uint64: the
\* JSON grammar -?(0|[1-9][0-9]*) (a fraction or exponent does not fit an
\* integer), then ParseInt / ParseUint in base 10.
JsonInt(b, signed) ==
    LET ds == IF b # <<>> /\ Head(b) = 45 THEN Tail(b) ELSE b
    IN IF /\ ds # <<>> /\ \A i \in DOMAIN ds : ds[i] \in 48..57
          /\ (ds[1] = 48 => Len(ds) = 1)
       THEN IF signed THEN ParseInt(b, FALSE) ELSE ParseUint(b, FALSE)
       ELSE Err

\* json.Unmarshal of a JSON string into []byte: the base64 of a string
\* without escapes or control bytes (the texts checked have none).
JsonBytes(b) ==
    LET body == SubSeq(b, 2, Len(b) - 1)
    IN IF Len(b) >= 2 /\ b[Len(b)] = 34 /\ \A i \in DOMAIN body : body[i] \notin 0..31 \cup {34, 92}
       THEN B64Decode(body) ELSE [ok |-> FALSE, bytes |-> <<>>]

\* UnmarshalJSON: by the first byte, an int64, a []byte, null or a uint64,
\* then InterfaceToValue; on any error it returns before assigning *v.
UnmarshalJSON(b) ==
    LET i == JsonInt(b, TRUE)
        u == JsonInt(b, FALSE)
        y == JsonBytes(b)
    IN CASE b = <<>>  -> [ok |-> FALSE]
         [] b[1] = 45  -> IF i.ok THEN [ok |-> TRUE, v |-> NewTyped("Int64", i.n), num |-> i] ELSE [ok |-> FALSE]
         [] b[1] = 34  -> IF y.ok THEN [ok |-> TRUE, v |-> MakeTrusted("VarBinary", y.bytes), num |-> Err]
                          ELSE [ok |-> FALSE]
         [] b[1] = 110 -> IF b = <<110, 117, 108, 108>> THEN [ok |-> TRUE, v |-> NULL, num |-> Err]
                          ELSE [ok |-> FALSE]
         [] OTHER      -> IF u.ok THEN [ok |-> TRUE, v |-> NewTyped("Uint64", u.n), num |-> u] ELSE [ok |-> FALSE]

\* Value.ToString (TLC takes the name).
AsString(v) == IF v.typ = "Expression" THEN <<>> ELSE v.raw

\* Value.IsIntegral and Value.IsQuoted: the type predicates on the Value.
ValueIsIntegral(v) == v.typ \in Integral
ValueIsQuoted(v) == v.typ \in Quoted

\* ToInt64 / ToUint64: integral types only, then a base-10 parse.
ToInt64(v) == IF ~ValueIsIntegral(v) THEN Err ELSE ParseInt(AsString(v), FALSE)
ToUint64(v) == IF ~ValueIsIntegral(v) THEN Err ELSE ParseUint(AsString(v), FALSE)

\* ToBool: ToInt64, and only 0 or 1.
ToBool(v) ==
    LET i == ToInt64(v)
    IN IF i.ok /\ i.n \in {0, 1} THEN [ok |-> TRUE, n |-> i.n] ELSE Err

\* EncodeSQL: null, a quoted literal, a bit literal, or the raw bytes.
EncodeSQL(v) ==
    CASE v.typ = "Null"   -> <<110, 117, 108, 108>>
      [] ValueIsQuoted(v) -> EncodeBytesSQL(v.raw)
      [] v.typ = "Bit"    -> EncodeBytesSQLBits(v.raw)
      [] OTHER            -> v.raw

\* EncodeASCII: null, base64 of a quoted or Bit value, or the raw bytes.
EncodeASCII(v) ==
    CASE v.typ = "Null"                   -> <<110, 117, 108, 108>>
      [] ValueIsQuoted(v) \/ v.typ = "Bit" -> EncodeBytesASCII(v.raw)
      [] OTHER                             -> v.raw

-----------------------------------------------------------------------------
(* One Value: built by a constructor, then converted or encoded.           *)

VARIABLES
    val,    \* the current Value
    made,   \* the number the constructor's validation parsed, if any
    arg,    \* the number NewIntegral's text denotes, whatever its size
    out     \* the result of the last operation

vars == <<val, made, arg, out>>

NoNum == [has |-> FALSE, n |-> 0]
NoOut == [op |-> "none", ok |-> TRUE, n |-> 0, bytes |-> <<>>]

Init == val = NULL /\ made = NoNum /\ arg = NoNum /\ out = NoOut

\* A constructor returned r after validating the number num.
Built(r, num) ==
    /\ val' = r.v
    /\ made' = IF r.ok /\ num.ok THEN [has |-> TRUE, n |-> num.n] ELSE NoNum
    /\ out' = [NoOut EXCEPT !.op = "new", !.ok = r.ok]

DoNewValue ==
    \E typ \in Types :
      \E text \in (IF typ \in Integral THEN NumTexts ELSE RawTexts) :
        /\ Built(NewValueOf(typ, text),
                 IF typ \in Signed THEN ParseInt(text, TRUE)
                 ELSE IF typ \in Unsigned THEN ParseUint(text, TRUE) ELSE Err)
        /\ arg' = NoNum

DoNewIntegral ==
    \E text \in IntTexts :
        /\ Built(NewIntegral(text),
                 IF ParseInt(text, TRUE).ok THEN ParseInt(text, TRUE)
                 ELSE ParseUint(text, TRUE))
        /\ arg' = LET i == IntDigits(text, TRUE)
                  IN IF i.ok THEN [has |-> TRUE, n |-> i.n] ELSE NoNum

DoNewTyped ==
    \E a \in CtorArgs :
        Built([ok |-> TRUE, v |-> NewTyped(a.typ, a.n)], [ok |-> TRUE, n |-> a.n])
        /\ arg' = NoNum

DoNewString ==
    \E typ \in {"VarChar", "VarBinary"}, text \in RawTexts :
        Built([ok |-> TRUE, v |-> NewString(typ, text)], Err) /\ arg' = NoNum

DoInterfaceToValue ==
    \E g \in GoVals :
        Built(InterfaceToValue(g),
              IF g.kind \in {"int64", "uint64"} THEN [ok |-> TRUE, n |-> g.n] ELSE Err)
        /\ arg' = NoNum

\* Mutant: *v assigned from the branch's zero value before the error check.
DoUnmarshalJSONEager ==
    \E b \in JsonTexts :
        LET r == UnmarshalJSON(b)
            z == CASE b[1] = 45  -> NewTyped("Int64", 0)
                   [] b[1] = 34  -> MakeTrusted("VarBinary", <<>>)
                   [] b[1] = 110 -> NULL
                   [] OTHER      -> NewTyped("Uint64", 0)
        IN IF r.ok
           THEN Built([ok |-> TRUE, v |-> r.v], r.num) /\ arg' = NoNum
           ELSE /\ out' = [NoOut EXCEPT !.op = "new", !.ok = FALSE]
                /\ val' = IF b = <<>> THEN val ELSE z
                /\ UNCHANGED <<made, arg>>

\* UnmarshalJSON into the current Value: replaced on success, left as it
\* was on error.
DoUnmarshalJSON ==
    \E b \in JsonTexts :
        LET r == UnmarshalJSON(b)
        IN IF r.ok
           THEN Built([ok |-> TRUE, v |-> r.v], r.num) /\ arg' = NoNum
           ELSE /\ out' = [NoOut EXCEPT !.op = "new", !.ok = FALSE]
                /\ UNCHANGED <<val, made, arg>>

Converted(op, r) ==
    /\ out' = [op |-> op, ok |-> r.ok, n |-> r.n, bytes |-> <<>>]
    /\ UNCHANGED <<val, made, arg>>

DoToInt64 == out.op = "new" /\ Converted("ToInt64", ToInt64(val))
DoToUint64 == out.op = "new" /\ Converted("ToUint64", ToUint64(val))
DoToBool == out.op = "new" /\ Converted("ToBool", ToBool(val))

DoEncodeSQL ==
    /\ out.op = "new"
    /\ out' = [op |-> "EncodeSQL", ok |-> TRUE, n |-> 0, bytes |-> EncodeSQL(val)]
    /\ UNCHANGED <<val, made, arg>>

DoEncodeASCII ==
    /\ out.op = "new"
    /\ out' = [op |-> "EncodeASCII", ok |-> TRUE, n |-> 0, bytes |-> EncodeASCII(val)]
    /\ UNCHANGED <<val, made, arg>>

Next ==
    \/ DoNewValue \/ DoNewIntegral \/ DoNewTyped \/ DoNewString \/ DoInterfaceToValue
    \/ DoUnmarshalJSON
    \/ DoToInt64 \/ DoToUint64 \/ DoToBool \/ DoEncodeSQL \/ DoEncodeASCII

Spec == Init /\ [][Next]_vars

-----------------------------------------------------------------------------
(* Reference readers of MySQL literals (the server's lexer).               *)

\* The byte a backslash escape stands for in a MySQL string literal.
Unescape(c) ==
    CASE c = 48 -> 0 [] c = 98 -> 8 [] c = 110 -> 10 [] c = 114 -> 13
      [] c = 116 -> 9 [] c = 90 -> 26 [] OTHER -> c

\* The body of a '...' literal: the bytes it stands for, and whether it
\* ends with its closing quote as the literal's last byte.
RECURSIVE LexBody(_, _)
LexBody(s, acc) ==
    CASE s = <<>>                    -> [ok |-> FALSE, bytes |-> acc]
      [] Head(s) = 39                -> [ok |-> Tail(s) = <<>>, bytes |-> acc]
      [] Head(s) = 92 /\ Len(s) >= 2 -> LexBody(Drop(s, 2), Append(acc, Unescape(s[2])))
      [] Head(s) = 92                -> [ok |-> FALSE, bytes |-> acc]
      [] OTHER                       -> LexBody(Tail(s), Append(acc, Head(s)))

LexQuoted(s) ==
    IF s # <<>> /\ Head(s) = 39 THEN LexBody(Tail(s), <<>>)
    ELSE [ok |-> FALSE, bytes |-> <<>>]

\* A b'...' literal: groups of eight binary digits, high bit first.
LexBits(s) ==
    LET body == SubSeq(s, 3, Len(s) - 1)
        k    == Len(body) \div 8
    IN IF Len(s) >= 3 /\ s[1] = 98 /\ s[2] = 39 /\ s[Len(s)] = 39
          /\ Len(body) % 8 = 0 /\ \A i \in DOMAIN body : body[i] \in {48, 49}
       THEN [ok |-> TRUE,
             bytes |-> [j \in 1..k |->
                 FoldLeft(LAMBDA a, d : 2 * a + (d - 48), 0,
                          SubSeq(body, 8 * (j - 1) + 1, 8 * j))]]
       ELSE [ok |-> FALSE, bytes |-> <<>>]

\* A number literal: an optional '-' and decimal digits.
LexInt(s) ==
    LET neg == s # <<>> /\ Head(s) = 45
        ds  == IF neg THEN Tail(s) ELSE s
        n   == FoldLeft(LAMBDA a, d : 10 * a + (d - 48), 0, ds)
    IN IF ds # <<>> /\ \A i \in DOMAIN ds : ds[i] \in 48..57
       THEN [ok |-> TRUE, n |-> IF neg THEN -n ELSE n]
       ELSE [ok |-> FALSE, n |-> 0]

\* A quoted base64 text: the bit string of its letters cut into bytes; the
\* padding completes the last group of four and the unused bits are 0.
LexBase64(s) ==
    LET body  == SubSeq(s, 2, Len(s) - 1)
        pads  == Len(SelectSeq(body, LAMBDA c : c = 61))
        d     == B64Bits(SubSeq(body, 1, Len(body) - pads))
    IN IF /\ Len(s) >= 2 /\ s[1] = 39 /\ s[Len(s)] = 39
          /\ Len(body) % 4 = 0 /\ pads <= 2 /\ d.ok
          /\ \A i \in (8 * Len(d.bytes) + 1)..Len(d.bits) : d.bits[i] = 0
       THEN [ok |-> TRUE, bytes |-> d.bytes]
       ELSE [ok |-> FALSE, bytes |-> <<>>]

-----------------------------------------------------------------------------
\* A value the constructor validated as the number n converts back to n:
\* ToInt64 and ToUint64 parse the stored text as the same number the
\* constructor's base-0 check read, and fail only when n is outside the
\* target's range (spec 3: integral values carry their canonical decimal
\* text).
ConvertsWhatWasValidated ==
    made.has =>
        /\ out.op = "ToInt64" =>
               /\ out.ok = (made.n \in MinInt..MaxInt)
               /\ out.ok => out.n = made.n
        /\ out.op = "ToUint64" =>
               /\ out.ok = (made.n \in 0..MaxUint)
               /\ out.ok => out.n = made.n

\* NewIntegral keeps the number its text denotes: as Int64 when it fits an
\* int64, as Uint64 when it fits only a uint64 (the fallback after
\* ParseInt's range error), refused beyond; the stored text is a number
\* literal that reads as that number.
IntegralKeepsNumber ==
    arg.has =>
        IF arg.n \in MinInt..MaxUint
        THEN /\ val.typ = (IF arg.n <= MaxInt THEN "Int64" ELSE "Uint64")
             /\ LexInt(val.raw) = [ok |-> TRUE, n |-> arg.n]
        ELSE val = NULL

\* EncodeSQL of a quoted value is a single MySQL string literal that reads
\* back to exactly its bytes, of a Bit value a bit literal that reads
\* back to its bytes (no byte can end the literal early or vanish), and
\* of an integral value built from the number n a number literal that
\* MySQL reads as n.
LiteralReadsBack ==
    out.op = "EncodeSQL" =>
        /\ val.typ \in Quoted => LexQuoted(out.bytes) = [ok |-> TRUE, bytes |-> val.raw]
        /\ val.typ = "Bit" => LexBits(out.bytes) = [ok |-> TRUE, bytes |-> val.raw]
        /\ val.typ \in Integral /\ made.has => LexInt(out.bytes) = [ok |-> TRUE, n |-> made.n]

\* EncodeASCII writes only 7-bit bytes, and for a quoted or Bit value a
\* quoted base64 text that decodes to exactly its bytes: encoder.Close()
\* flushes the last one or two bytes with their padding.
ASCIIReadsBack ==
    out.op = "EncodeASCII" =>
        /\ \A i \in DOMAIN out.bytes : out.bytes[i] < 128
        /\ val.typ \in Quoted \cup {"Bit"} =>
               LexBase64(out.bytes) = [ok |-> TRUE, bytes |-> val.raw]

=============================================================================
