------------------------------ MODULE Handshake ------------------------------
(***************************************************************************)
(* The server's parse of the client's handshake response                   *)
(* (src/unnamed/part_000: readHandshakeResponse, readAuthData,             *)
(* readPluginName), one step per field, over the packet's bytes.           *)
(*                                                                         *)
(* Positions are 0-based as in the code; Byte(d, p) is Go's d[p].  The     *)
(* client that builds the packet is the environment: Encode writes the     *)
(* fields the way spec 3 ("Client handshake response") describes, and the  *)
(* packets a client may send are its encodings, their truncations and the  *)
(* length-encoded NULL auth (0xFB) the code's comment says is rejected.    *)
(* The mysql package's readers are not under src/ and are modelled from    *)
(* the MySQL wire format (ReadUint32, ReadByte, ReadNullString,            *)
(* ReadLenEncStringAsBytes).                                               *)
(***************************************************************************)
EXTENDS Integers, Sequences, FiniteSetsExt

CONSTANTS
    CapSets,     \* the sets of capability flags clients send
    Users,       \* user names (byte sequences without 0)
    Auths,       \* auth responses (byte sequences)
    Dbs,         \* database names (byte sequences without 0)
    Plugins,     \* plugin names (byte sequences without 0)
    NativeName,  \* the bytes of mysql.AUTH_NATIVE_PASSWORD
    Truncate,    \* whether clients may send a cut-off packet
    NullAuth     \* whether clients may send a NULL length-encoded auth

\* The capability bits of the MySQL protocol that the parser tests.
FlagBit == [ConnectWithDB |-> 8, Protocol41 |-> 512,
            SecureConnection |-> 32768, PluginAuth |-> 524288,
            PluginAuthLenenc |-> 2097152]
Flags == DOMAIN FlagBit

Has(cap, f) == (cap \div FlagBit[f]) % 2 = 1           \* cap & f != 0
CapValue(fs) == SumSet({FlagBit[f] : f \in fs})
LE(n, k) == [i \in 1..k |-> (n \div (2 ^ (8 * (i - 1)))) % 256]
Zeros(k) == [i \in 1..k |-> 0]
Collation == 33
StaleByte == 256      \* a byte of the read buffer past the packet's end

-----------------------------------------------------------------------------
(* The client's encoding (environment).                                    *)

Fields == [caps : CapSets, user : Users, auth : Auths, db : Dbs,
           plugin : Plugins]

EncodeAuth(f) ==
    IF "PluginAuthLenenc" \in f.caps THEN <<Len(f.auth)>> \o f.auth
    ELSE IF "SecureConnection" \in f.caps THEN <<Len(f.auth)>> \o f.auth
    ELSE f.auth \o <<0>>

EncodeFrom(f, auth) ==
    LE(CapValue(f.caps), 4) \o LE(16777216, 4) \o <<Collation>> \o Zeros(23)
    \o f.user \o <<0>> \o auth
    \o (IF "ConnectWithDB" \in f.caps THEN f.db \o <<0>> ELSE <<>>)
    \o (IF "PluginAuth" \in f.caps THEN f.plugin \o <<0>> ELSE <<>>)

Encode(f) == EncodeFrom(f, EncodeAuth(f))

\* A client can only NUL-terminate an auth response without a 0 byte.
Sendable(f) ==
    \/ f.caps \cap {"PluginAuthLenenc", "SecureConnection"} # {}
    \/ \A i \in DOMAIN f.auth : f.auth[i] # 0

\* What a correct parse of Encode(f) returns.
Expected(f) ==
    [user |-> f.user, auth |-> f.auth,
     db |-> IF "ConnectWithDB" \in f.caps THEN f.db ELSE <<>>,
     plugin |-> IF "PluginAuth" \in f.caps THEN f.plugin ELSE NativeName]

-----------------------------------------------------------------------------
(* The mysql package's readers (MySQL wire format).                        *)

Byte(d, p) == d[p + 1]
Slice(d, lo, hi) == SubSeq(d, lo + 1, hi)        \* d[lo:hi] within len(d)

\* bytes.IndexByte(d[p:], 0): offset of the first 0 at or after p, or -1.
IndexZero(d, p) ==
    LET at == {i \in 0..(Len(d) - p - 1) : Byte(d, p + i) = 0}
    IN IF at = {} THEN -1 ELSE Min(at)

LEValue(d, p, k) == SumSet({Byte(d, p + i) * 2 ^ (8 * i) : i \in 0..(k - 1)})

ReadUint32(d, p) ==
    IF p + 4 <= Len(d) THEN [v |-> LEValue(d, p, 4), pos |-> p + 4, ok |-> TRUE]
    ELSE [v |-> 0, pos |-> 0, ok |-> FALSE]

ReadNullString(d, p) ==
    IF p >= Len(d) \/ IndexZero(d, p) = -1
    THEN [s |-> <<>>, pos |-> 0, ok |-> FALSE]
    ELSE [s |-> Slice(d, p, p + IndexZero(d, p)),
          pos |-> p + IndexZero(d, p) + 1, ok |-> TRUE]

\* A length-encoded string: <251 one-byte length, 0xFB NULL, 0xFC..0xFE a
\* 2, 3 or 8 byte length, 0xFF invalid.
ReadLenEncStringAsBytes(d, p) ==
    LET b   == Byte(d, p)
        w   == CASE b = 252 -> 2 [] b = 253 -> 3 [] OTHER -> 8
        n   == IF b < 251 THEN b ELSE LEValue(d, p + 1, w)
        beg == IF b < 251 THEN p + 1 ELSE p + 1 + w
        bad == [s |-> <<>>, pos |-> 0, null |-> FALSE, ok |-> FALSE]
    IN CASE p >= Len(d)                          -> bad
         [] b = 251                              -> [bad EXCEPT !.pos = p + 1,
                                                       !.null = TRUE, !.ok = TRUE]
         [] b = 255                              -> bad
         [] b > 251 /\ p + w >= Len(d)           -> bad
         [] beg + n > Len(d)                     -> bad
         [] OTHER -> [s |-> Slice(d, beg, beg + n), pos |-> beg + n,
                      null |-> FALSE, ok |-> TRUE]

-----------------------------------------------------------------------------
(* readAuthData and readPluginName.  A Go slice d[lo:hi] past len(d) but   *)
(* within the read buffer's capacity yields stale bytes, past it panics;   *)
(* the capacity of the pooled buffer is not fixed, so both can happen.     *)
(* An index d[p] past len(d), and d[lo:hi] with hi < lo, always panic.     *)

\* An outcome: the bytes read, or a panic.
Read(bs) == [panic |-> FALSE, s |-> bs]
PanicOut == [panic |-> TRUE, s |-> <<>>]

SliceOut(d, lo, hi) ==
    IF hi <= Len(d) THEN {Read(Slice(d, lo, hi))}
    ELSE {PanicOut,
          Read(Slice(d, lo, Len(d)) \o [i \in 1..(hi - Len(d)) |-> StaleByte])}

AuthResult(outs, pos, ok) ==
    {[panic |-> o.panic, auth |-> o.s, pos |-> pos, ok |-> ok] : o \in outs}

\* Mutant: the one-byte auth length is not skipped (no pos++).
AuthSecureNoSkip(d, p) ==
    IF p >= Len(d) THEN AuthResult({PanicOut}, 0, FALSE)
    ELSE AuthResult(SliceOut(d, p, p + Byte(d, p)), p + Byte(d, p), TRUE)

\* Mutant: one byte more than the length byte says is taken as auth data.
AuthSecureLong(d, p) ==
    IF p >= Len(d) THEN AuthResult({PanicOut}, 0, FALSE)
    ELSE AuthResult(SliceOut(d, p + 1, p + 2 + Byte(d, p)), p + 2 + Byte(d, p), TRUE)

\* The CLIENT_SECURE_CONNECTION branch: authLen = int(data[pos]); pos++;
\* auth = data[pos : pos+authLen].
AuthSecure(d, p) ==
    IF p >= Len(d) THEN AuthResult({PanicOut}, 0, FALSE)
    ELSE AuthResult(SliceOut(d, p + 1, p + 1 + Byte(d, p)), p + 1 + Byte(d, p), TRUE)

\* readAuthData: the outcomes <<auth, pos, ok>>, or a panic.
ReadAuthData(d, p, cap) ==
    IF Has(cap, "PluginAuthLenenc")
    THEN LET r == ReadLenEncStringAsBytes(d, p)
         IN IF ~r.ok \/ r.null THEN AuthResult({Read(<<>>)}, 0, FALSE)
            ELSE AuthResult({Read(r.s)}, r.pos, TRUE)
    ELSE IF Has(cap, "SecureConnection") THEN AuthSecure(d, p)
    ELSE IF IndexZero(d, p) = -1 THEN AuthResult({PanicOut}, 0, FALSE)
    ELSE AuthResult({Read(Slice(d, p, p + IndexZero(d, p)))},
                    p + IndexZero(d, p) + 1, TRUE)

\* readPluginName: the name up to the next 0 (d[pos:end], which panics when
\* there is none: end = pos - 1), or the native plugin without PluginAuth.
ReadPluginName(d, p, cap) ==
    IF ~Has(cap, "PluginAuth") THEN Read(NativeName)
    ELSE IF p > Len(d) \/ IndexZero(d, p) = -1 THEN PanicOut
    ELSE Read(Slice(d, p, p + IndexZero(d, p)))

-----------------------------------------------------------------------------
VARIABLES
    data,        \* the packet read by ReadEphemeralPacketDirect
    sent,        \* the fields the client encoded (ghost)
    wellFormed,  \* data is the complete encoding of sent (ghost)
    pc,          \* the next field to read, or the outcome
    pos,         \* the read position
    cap,         \* the capability flags read
    info         \* HandshakeResponseInfo: user, auth, db, plugin

vars == <<data, sent, wellFormed, pc, pos, cap, info>>

Done == {"ok", "err", "panic"}

\* The full encoding, a cut-off prefix of it, or (with length-encoded auth)
\* the encoding with the auth replaced by a NULL (0xFB).
Init ==
    /\ \E f \in {g \in Fields : Sendable(g)} :
         /\ sent = f
         /\ \/ data = Encode(f) /\ wellFormed = TRUE
            \/ /\ Truncate /\ wellFormed = FALSE
               /\ \E k \in 0..(Len(Encode(f)) - 1) : data = SubSeq(Encode(f), 1, k)
            \/ /\ NullAuth /\ "PluginAuthLenenc" \in f.caps
               /\ data = EncodeFrom(f, <<251>>) /\ wellFormed = FALSE
    /\ pc = "flags"
    /\ pos = 0
    /\ cap = 0
    /\ info = [user |-> <<>>, auth |-> <<>>, db |-> <<>>, plugin |-> <<>>]

Fail == pc' = "err" /\ UNCHANGED <<pos, cap, info>>

\* Client flags; only protocol 4.1 is supported.
ReadFlags ==
    /\ pc = "flags"
    /\ LET r == ReadUint32(data, pos)
       IN IF ~r.ok \/ ~Has(r.v, "Protocol41") THEN Fail
          ELSE pc' = "maxpkt" /\ pos' = r.pos /\ cap' = r.v /\ UNCHANGED info
    /\ UNCHANGED <<data, sent, wellFormed>>

\* Max packet size, read and ignored.
ReadMaxPacket ==
    /\ pc = "maxpkt"
    /\ LET r == ReadUint32(data, pos)
       IN IF ~r.ok THEN Fail
          ELSE pc' = "charset" /\ pos' = r.pos /\ UNCHANGED <<cap, info>>
    /\ UNCHANGED <<data, sent, wellFormed>>

\* The collation byte, then pos += 23 over the reserved bytes, unchecked.
ReadCharset ==
    /\ pc = "charset"
    /\ IF pos >= Len(data) THEN Fail
       ELSE pc' = "user" /\ pos' = pos + 1 + 23 /\ UNCHANGED <<cap, info>>
    /\ UNCHANGED <<data, sent, wellFormed>>

ReadUser ==
    /\ pc = "user"
    /\ LET r == ReadNullString(data, pos)
       IN IF ~r.ok THEN Fail
          ELSE /\ pc' = "auth" /\ pos' = r.pos
               /\ info' = [info EXCEPT !.user = r.s] /\ UNCHANGED cap
    /\ UNCHANGED <<data, sent, wellFormed>>

\* info.AuthResponse, pos, ok = readAuthData(...): ok is never tested.
ReadAuth ==
    /\ pc = "auth"
    /\ \E o \in ReadAuthData(data, pos, cap) :
         IF o.panic THEN pc' = "panic" /\ UNCHANGED <<pos, info>>
         ELSE /\ pc' = "db" /\ pos' = o.pos
              /\ info' = [info EXCEPT !.auth = o.auth]
    /\ UNCHANGED <<data, sent, wellFormed, cap>>

ReadDb ==
    /\ pc = "db"
    /\ IF ~Has(cap, "ConnectWithDB")
       THEN pc' = "plugin" /\ UNCHANGED <<pos, cap, info>>
       ELSE LET r == ReadNullString(data, pos)
            IN IF ~r.ok THEN Fail
               ELSE /\ pc' = "plugin" /\ pos' = r.pos
                    /\ info' = [info EXCEPT !.db = r.s] /\ UNCHANGED cap
    /\ UNCHANGED <<data, sent, wellFormed>>

\* info.AuthPlugin, _ = readPluginName(...); return info, nil.
ReadPlugin ==
    /\ pc = "plugin"
    /\ LET n == ReadPluginName(data, pos, cap)
       IN IF n.panic THEN pc' = "panic" /\ UNCHANGED info
          ELSE pc' = "ok" /\ info' = [info EXCEPT !.plugin = n.s]
    /\ UNCHANGED <<data, sent, wellFormed, pos, cap>>

Finished == pc \in Done /\ UNCHANGED vars

Next ==
    \/ ReadFlags \/ ReadMaxPacket \/ ReadCharset \/ ReadUser
    \/ ReadAuth \/ ReadDb \/ ReadPlugin \/ Finished

Spec == Init /\ [][Next]_vars

-----------------------------------------------------------------------------
\* On a complete packet every read stays inside it: the position never
\* passes its end and no field holds a byte from beyond it (the slices
\* data[pos:pos+authLen] and data[pos:end] are bounded by the packet).
InPacket ==
    wellFormed =>
        /\ pos <= Len(data)
        /\ \A fld \in {info.user, info.auth, info.db, info.plugin} :
              \A i \in DOMAIN fld : fld[i] # StaleByte

\* A complete packet the client encoded parses back to the fields it
\* encoded, for every combination of the capability flags that choose how
\* auth, database and plugin are laid out (spec 3, handshake round-trip).
RoundTrip ==
    pc = "ok" /\ wellFormed => info = Expected(sent)

\* A packet that is not the complete encoding of what the client sent is
\* rejected with an error by readHandshakeResponse: it is neither accepted
\* (readAuthData's comment: a NULL auth is "considered invalid auth data,
\* and reject[ed]"; a cut-off packet is an error) nor does it make the
\* parse panic.
RejectsMalformed == ~wellFormed => pc \notin {"ok", "panic"}

=============================================================================
