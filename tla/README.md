# TLA+ models of go-sharding's core

This directory holds TLA+ models of the go-sharding proxy core in `src/`,
TLC configurations that check them, and `PROJECT.json`, which lists the
components, the runs, the mutants that show each property can fail, the map
from every model definition to the source lines it translates, the findings
and the hazards the properties are aimed at.

## 1. Inventory

The repository slice under `src/` has seven parts (spec.md names C1-C8; the
code present covers these):

| Part | Source | State | Operations | Interacts with |
|------|--------|-------|------------|----------------|
| SQL generation runtime (C7) | `src/gen/sql_gen.go` | per call: restored sharding values, a genRuntime cursor, the command list; in the explain: the call's bind variables (`SetVars`) | `GenerateSql`, `gen` loop (`runtime.Next`, `RestoreSql`, append) | reads the explain built by the rewriting engine; its commands go to the dispatcher |
| Rewriting engine (C5/C6 dispatch) | `src/rewriting/engine.go` | none of its own; decides per AST node whether a writer is bound | `RewriteTable`, `RewriteField`, `RewriteColumn`, `RewritePatterIn`, `RewriteBetween`, `RewriteLimit` | called by the explain walker; looks tables up in the sharding catalog; writers run later from `RestoreSql` |
| None sharding strategy (C4) | `src/mysql/types/value.go` (second file, lines 494-515) | none | `Shard` returns the candidates, supports no predicate shape | used by the strategy evaluator for broadcast tables |
| Client connection protocol (C2/C3) | `src/unnamed/part_000` lines 1-535 | salt, connection id, capability flags; per packet a write position | initial handshake (two writers), handshake-response parser (`readAuthData`, `readPluginName`), auth switch, auth more-data, OK/EOF/ERR, result-set writer, column definitions, prepare response | the client over the socket; the command loop (not in `src/`) |
| Session (C8) | `src/unnamed/part_000` lines 554-678 | transaction flags, shard/pre/post/lock sessions, variables, savepoints | `Clone` (deep copy) | plan caching and speculative execution hold clones |
| Value codec (C1) | `src/mysql/types/value.go` lines 1-475 | a (type, bytes) pair | `NewValue`, `MakeTrusted`, `NewIntegral`, `To*` conversions, `EncodeSQL` (escape map), `EncodeASCII`, JSON (test-only) | bind variables and result rows |
| Namespace administration (control plane) | `src/cc/service/service.go` | none in process; the coordinator store (etcd) and every proxy's namespace configuration | `ModifyNamespace` (store update, prepare phase, commit phase), `DelNamespace`, `QueryNamespace`, `ListNamespace`, `SQLFingerprint` and `ProxyConfigFingerprint` (goroutine fan-out/fan-in) | store, every registered proxy's admin API |

What is hard in this code, and what the models are for (the full list with
lines is `PROJECT.json` "hazards"):

* **Partial generation.** `gen` can fail in `RestoreSql` after some scatter
  commands were built; the call must return the error, never the partial
  command list.
* **Partial failure and multi-step control-plane operations.**
  `ModifyNamespace` writes the store, then prepares every proxy, then commits
  every proxy; any step may fail and the function simply returns. Concurrent
  admin calls on the same namespace are not serialised.
* **Goroutine fan-in.** The fingerprint queries wait for all goroutines before
  draining a channel whose buffer is exactly the number of senders.
* **Byte-level parsing.** The handshake-response parser drops an `ok` flag and
  slices with unchecked lengths; the prepare response returns early.
* **Numeric edges of the value codec.** Base-0 validation against base-10
  conversion, int64/uint64 boundaries, escape-map completeness, the base64
  encoder's final flush.

Properties that make each part correct:

* Generation: the commands are exactly the shard coordinates, each once, in
  lexicographic order; a failed call returns no commands; every command is
  rendered with its own call's variables; every call returns.
* Rewriting: a writer is bound exactly for nodes of sharded tables; the
  limit rewrite plus the proxy-side reducer returns the rows the global
  `LIMIT offset, count` would; unpushable shapes fall back to fan-out.
* Connection: the parser returns the fields the client sent or an error; the
  server's packet sequences are the ones the client protocol expects.
* Namespace administration: when no admin call is running, every proxy serves
  what the store holds; a successful modify has reached every proxy; the
  fan-in terminates and merges every response.
* Value codec: decoding an encoded literal gives back the bytes; a value that
  construction accepted converts; the integral type is chosen at the right
  boundary.
* Session: a clone shares no mutable state with its original (not
  checkable from this repository, section 4).

## 2. Plan

Modules, in order of importance (most important behaviour first):

1. `GenSql` (done): the generation runtime.
2. `NamespaceAdmin` (done): the store, the proxies, concurrent admin calls
   and failing RPCs. `Fingerprint` (done): the goroutine and channel fan-in.
3. `Handshake` (done): the handshake-response parser over bytes.
   `Responses` (done): the result-set and prepare-response packet
   sequences against a protocol client.
4. `ValueCodec` (done): the escape map and literal writers, and the
   integral constructors and conversions, checked against reference readers.
5. `RewriteEngine` (done): the engine's dispatch over a small AST
   vocabulary, and the limit rewrite composed with the per-shard LIMIT and
   the reducer.
6. `ScatterSpec` (done): the abstract promise of `GenerateSql`, with
   `GenSql` checked to implement it (INSTANCE ... WITH).
7. `Session`: not modelled (section 4).
8. `ValueCodec`'s typed constructors and `InterfaceToValue` (done); the
   64-bit range checks at a scaled width, `EncodeASCII` and
   `UnmarshalJSON` (done).
9. `ProxyConfigFingerprint` in `Fingerprint` (done).

Abstract specifications worth stating: the scatter of a statement as the set
of shard coordinates (GenSql refines "emit Coords(values) in order"); the
namespace reload as an atomic all-proxies switch, which the code does not
implement under failures (kept as violation runs, not a refinement).

## 3. Modules and runs

### GenSql (src/gen/sql_gen.go)

State: per caller `pc` (`idle`, `setvars`, `gen`), the call's bind
variables `binds`, the restored per-table shard sets `dest`, the runtime
`cursor`, the command list `cmds` and the call's `result`; per explain the
variables `explVars` stored by `SetVars`. Actions:

* `GenerateSql(c)` - lines 26-41: `RestoreShardingValues` fails (`values`
  fault), returns no sharding values (`UsageRaw`), or yields a shard set per
  sharded table; `NewRuntime` may fail (`runtime` fault).
* `SetVars(c)` - lines 42-45: the explain takes the call's variables, or the
  call fails (`vars` fault).
* `GenNext(c)` - lines 61-74: `runtime.Next()` is true; `RestoreSql` either
  fails (the call returns nil: `restore` fault) or the command for the
  current coordinate is appended, rendered with the explain's current vars.
* `GenEnd(c)` - lines 75-80: `runtime.Next()` is false; break and return a
  `UsageShard` result.

The runtime itself (`genRuntime.Next`) is not under `src/`; it is modelled
from spec 3 and 4.7 as an odometer over `<<ds, p_1, ..., p_T>>` (`Bump`,
`Seek`, `Advance`), skipping tuples that are not shards of every table.

Runs:

* `gen_single` (pass): one caller, two executions of the same explain, bind
  sets `{b1, b2}`, 2 data sources x 2 physical tables, 2 sharded tables
  (every one of the 225 per-table shard-set maps), every fault enabled.
  Checks `TypeOK` and the refinement `ImplementsScatter` (below): a
  `RestoreSql` failure after some commands were built returns the error
  and not a partial shard result, and every call returns. Two tables on
  two data sources make maps whose tables share no data source (zero
  coordinates) occur. The order of the commands and the end of the loop
  come from the odometer, which is modelled from the spec, so they check
  the loop control of `gen` around it, not `genRuntime` itself.

Concurrent calls on one explain are not modelled: nothing under `src/`
shares an explain between connections, spec 5 keeps prepared statements
per connection and serialises its commands, and a serial re-execution
(the second execution in `gen_single`) renders with its own variables.

Refinement. `ScatterSpec` states what a caller of `GenerateSql` may rely
on, with no cursor, loop or explain: a call returns at once (`err` or
`raw`), or starts and later returns `err` or one command per coordinate of
its sharding values in lexicographic order, each with the call's bind
variables; a started call eventually returns (weak fairness). Its
coordinates and their order are constant operators, given GenSql's
`Coords` and `LexLess`. `GenSql` maps onto it with `busy` = the caller is
not idle and `ret` = `Returned(c)` (pending while running, else the
result and, for a shard result, the command list); `SetVars` and every
`GenNext` that does not fail are stuttering steps of the abstract spec.
`ImplementsScatter == Abs!Spec` is checked as a PROPERTY of `gen_single`.
It holds; with a carry that overflows a digit one value early
(`BumpShortRadix`) TLC finds a shard result that is not the abstract one.
It assumes `RestoreSql` (not in the repository) renders from the
variables `SetVars` stored in the explain.

Fairness: weak fairness on each caller's in-progress steps; a goroutine that
is runnable is eventually scheduled and nothing in the generation pipeline
blocks (spec 5, "nothing inside the explain/rewrite pipeline suspends").
Starting a new call is not fair: a client need not send another command.
`Finished` is the stuttering step once every caller has made its bounded
calls, so deadlock checking stays on.

### NamespaceAdmin (src/cc/service/service.go, ModifyNamespace, DelNamespace)

State: the namespace the coordinator `store` holds (abstracted to the
number of the store write that produced it, `0` = none), per proxy the
served (`active`) and prepared (`standby`) namespace, and per admin the
step `apc`, the loop index `idx`, the calls made and the last result.

Actions: `ModifyNamespace` (Verify/Encrypt, lines 63-71), `UpdateNamespace`
(73-81), `ListProxies` (83-88, and 113-118 of DelNamespace),
`PrepareConfig` (90-96), `CommitConfig` (98-106), `DelNamespace` (110-112),
`DelProxy` (120-134). Each loop iteration is `ProxyCall`: the RPC fails
before taking effect (`rpc`), takes effect but the reply is lost (`lost`),
is rejected by the proxy, or succeeds; every error returns at once, as the
code does. The proxies' admin API is external, so its behaviour is an
assumption (module header): prepare loads the store's namespace into a
standby slot, commit installs and consumes it, delete clears it.

Runs:

* `admin_retry` (pass): one admin, proxies `<<p1, p2>>`, three calls of
  either kind, every fault. `SuccessRepairs`: a call that returned nil
  leaves every proxy serving what the store holds, whatever earlier
  failures left behind.
* `admin_concurrent` (violation of `QuietAgreement`: when no call runs,
  every proxy serves what the store holds): two admins, no faults at all; A commits
  p1 with B's prepared namespace and p2 with its own, then B's commit fails
  on the consumed slot: proxies disagree with the store and each other.

`QuietAgreement` also cannot hold once an RPC may fail, since nothing
rolls back a prepared or committed proxy; `admin_retry` therefore checks
the weaker `SuccessRepairs`, and `admin_concurrent` shows that even
without faults two concurrent calls leave the proxies out of step.

No fairness: an admin need not call again, and nothing here is a liveness
question. `Finished` stutters once every admin has made its calls.

### Fingerprint (src/cc/service/service.go, SQLFingerprint, ProxyConfigFingerprint)

State: the caller's step `mpc`, the started goroutines, the WaitGroup
counter `wg`, each goroutine's step `gpc` and `reply` (a set of fingerprint
keys, or `Nil` when the query failed), the channel buffer `respC`, whether
it is `closed`, and the merged `slowSQLs`. Actions follow the code line by
line: `ListProxies` (144-148), `Spawn` (`wg.Add(1); go`, 153-156), `Query`
(158-161), `Send` (blocks while `Len(respC) = BufCap`, 162), the deferred
`GoDone` (157), `WaitAndClose` (165-166), `Drain` and `DrainEnd` (the range,
168-180). `ProxyConfigFingerprint` (182-222) has the same control flow;
`fn`, chosen in `Init`, says which function runs, and `ReplyOf` gives the
goroutine's reply: for `ProxyConfigFingerprint` it is `{host: md5}`, with
md5 `""` (`NoMd5`) when the query failed (199-208), never nil, and the
merge `r[k] = v` is the union of these pairs.

Run `fingerprint_fanin` (pass): both functions, three proxies, keys
`{k1, k2}`, config md5s `{"m1", "m2"}`, every
interleaving of the goroutines and every mix of failed and successful
replies. `FingerprintReturns`: the call returns (the buffer of
`len(proxies)` is what lets every goroutine send before `wg.Wait()`
returns; one slot fewer deadlocks). `MergedEveryReply`: on return the
merged keys are the union of every successful reply, and the merged
config map has an entry for every proxy, failed ones included. Three proxies are
enough for the buffer to be full while a sender still waits in the mutant.

Fairness: weak fairness of `Next`; every runnable goroutine is eventually
scheduled by the Go runtime. `CHECK_DEADLOCK FALSE` because the function
really stops: after it returns and every goroutine has exited no step is
possible, and the liveness property is what rules out a stuck state before.

### Handshake (src/unnamed/part_000, readHandshakeResponse)

The parse of the client's handshake response, one action per field read in
the order of the code (lines 221-282): `ReadFlags` (with the protocol 4.1
check), `ReadMaxPacket`, `ReadCharset` (then `pos += 23`, unchecked),
`ReadUser`, `ReadAuth` (`readAuthData`, lines 177-204, whose `ok` the code
never tests), `ReadDb` (only with `CLIENT_CONNECT_WITH_DB`), `ReadPlugin`
(`readPluginName`, 206-219). Each early `return info, err` is `Fail`.
The packet is a real byte sequence: `data` is the capability bytes
(little-endian, computed from the flag bits), max packet size, collation,
23 zeros, then the NUL-terminated user, the auth response in the layout
the flags choose, the database and the plugin name. Positions are 0-based
as in Go. The mysql package's readers are not in the repository; they are
written from the MySQL wire format (`ReadUint32`, `ReadNullString`,
`ReadLenEncStringAsBytes`) and marked spec-modelled in the map. Go slicing
is modelled by what it does: `d[p]` past the end and `d[lo:hi]` with
`hi < lo` panic; `d[lo:hi]` past `len(d)` reads stale bytes of the pooled
buffer or panics, as its capacity allows (`SliceOut`).

The packets are produced by the client's encoder `Encode` (spec 3):
capability sets with protocol 4.1 and every combination of
`CONNECT_WITH_DB`, `SECURE_CONNECTION`, `PLUGIN_AUTH`,
`PLUGIN_AUTH_LENENC_CLIENT_DATA`, plus one without 4.1; users of length
0 and 1, auth responses of length 0, 1 and 2 (one with a 0 byte, which
only length-prefixed layouts can carry), databases of length 0 and 1.

Runs:

* `handshake_wellformed` (pass, 188 packets): `RoundTrip`, the parse of
  a complete packet returns exactly the encoded fields, and `InPacket`, no
  read leaves the packet.
* `handshake_malformed` (violation): every prefix of every packet and
  every packet with a length-encoded NULL auth; `RejectsMalformed` says
  each is rejected with an error, neither accepted nor a panic. TLC's
  shortest counterexample is a packet ending after the user name's NUL,
  which panics in readAuthData (5 steps). The same cfg with
  `Truncate = FALSE` gives the second defect (8 steps): a NULL auth, which
  the comment in readAuthData says must reject the connection, is
  accepted, and with `CONNECT_WITH_DB` the database is read from
  position 0.

### Responses (src/unnamed/part_000, response writers)

Two actors share a FIFO `wire`. The server writes a response packet by
packet: `Begin` is the first packet of `writeOKResult` (an OK when there
is no result set), of `writeResultset` (the column count) or of
`writePrepareResponse` (the header with the column and parameter counts);
`FieldDef` is `writeFieldList`'s loop and EOF; `Row` is `writeResultset`'s
row loop and closing EOF; `Flush` is `cc.Flush()`; `ParamDef` and `ColDef`
are the two blocks of `writePrepareResponse`, where the parameter block ends
in `return err`. Every write (`Write`) may fail; the writer then returns
the error and, as the connection handler is not in the repository, the
connection is assumed to close. The client reads by the MySQL protocol
(spec 3): from a response's first packet it derives the packets that must
follow (`AfterHeader`), reads rows until EOF, and sends its next command
only when the response is complete. Packets are their kind and counts.

Runs:

* `responses_served` (pass): `<<Query(2,2), Exec, Prepare(2,0),
  Prepare(0,2), Query(0,1)>>` with write failures. `ClientInSync`: every
  packet read is one the client expects; `EveryResponseRead`: every
  response is read or the connection is closed. Counts of 0, 1 and 2 hit
  both the empty and the looping case of each block.
* `responses_prepare_both` (violation): `Prepare(1,1)` then a query. The
  header announces one column, the server writes only the parameter
  block, and the client waits for a column definition forever.

Fairness: weak fairness of `Next`; the server and the client run while
they can, and a client with commands to send sends them.
`CHECK_DEADLOCK FALSE` only in the violation run, whose client stops.

### ValueCodec (src/mysql/types/value.go)

One `Value` (`val`, a type and its bytes) is built by `DoNewValue`
(`NewValue`, with `MakeTrusted`), `DoNewIntegral` (`NewIntegral`),
`DoNewTyped` (`NewInt64`, `NewInt8`, `NewInt32`, `NewUint64`, `NewUint32`:
the decimal text of the argument), `DoNewString` (`NewVarChar`,
`NewVarBinary`), `DoInterfaceToValue` (`InterfaceToValue` on nil, a byte
slice, int64, uint64, a string and an unsupported type) or
`DoUnmarshalJSON` (`UnmarshalJSON`: by the first byte an int64, a base64
`[]byte`, null or a uint64; on an error it returns before assigning, so
the Value is left as it was). It is then converted (`DoToInt64`,
`DoToUint64`, `DoToBool`) or encoded (`DoEncodeSQL`, `DoEncodeASCII`).
`made` keeps the number the constructor's validation parsed, `arg` the
number `NewIntegral`'s text denotes whatever its size, and `out` the last
result. Texts are byte sequences.

Library code is written from its documented rules and marked
spec-modelled: Go's `strconv.ParseInt`/`ParseUint` (sign; in base 0 the
`0b`, `0o`, `0x` and leading-`0` prefixes and `underscoreOK`; in base 10
none of these; the range check of the bit size), `encoding/base64`'s
encoder (`Write` emits whole groups of three bytes, `Close` the padded
rest) and non-strict decoder, and `encoding/json`'s integer and `[]byte`
decoding. Every parse in value.go has bit size 64; the model's is the
constant `IntBits`, checked at 8. The range checks depend on the width
only through `2^IntBits`, and the inputs include the texts on both sides
of each bound, so the int64/uint64 boundary cases of the code (2^63 - 1,
2^63, 2^64 - 1, 2^64, -2^63, -2^63 - 1) all occur at the smaller width.

The conversions and encoders test the type through `ValueIsIntegral` and
`ValueIsQuoted` (`Value.IsIntegral`, `Value.IsQuoted`), as the code does.
`EncodeRef` and `SQLEncodeMap` are `encodeRef` and the map `init()`
builds from it; `EncodeBytesSQL`, `EncodeBytesSQLBits` and
`EncodeBytesASCII` are the literal writers. The properties read the
encoded literal back with independent readers: a MySQL lexer
(`LexQuoted`, `LexBits`, `LexInt`) and a strict RFC 4648 decoder
(`LexBase64`).

Runs:

* `value_canonical` (pass): `NewIntegral` on every text of up to four of
  the bytes `- 0 1 8 _ b x` (2801 texts: signs, every base prefix, leading
  zeros, digits invalid in octal or binary, underscores in every position)
  and on the decimals on both sides of each bound; `NewValue` on canonical
  decimals and on every byte string of up to two bytes drawn from all
  escaped bytes, a letter and `%`, plus three strings of three to five
  bytes with high bits set, for seven types; each typed constructor at the
  bounds and 0, 1; every kind of Go value `InterfaceToValue` dispatches
  on; twenty JSON texts covering every branch of `UnmarshalJSON`.
  `ConvertsWhatWasValidated`: `ToInt64`/`ToUint64` return the number the
  constructor parsed, and fail only when it is outside their range. Since
  `made` survives a failed `UnmarshalJSON`, it also catches a receiver
  overwritten before the error check (mutant `DoUnmarshalJSONEager`,
  which assigns the branch's zero value as `*v, err = ...` placed first
  would).
  `IntegralKeepsNumber`: `NewIntegral` stores the number its text denotes,
  as Int64 when it fits and as Uint64 only above int64, and refuses it
  beyond uint64. `LiteralReadsBack`: the SQL literal reads back to the
  value's bytes, or for an integral value to its number.
  `ASCIIReadsBack`: `EncodeASCII` is 7-bit and decodes back to the bytes.
* `value_base0` (violation): `NewValue` on the same 2801 texts. It accepts
  base-0 syntax and stores the text as given, and the base-10 conversions
  reject it or read another number (`-0`, `0x1`, `0_1`, `010`).

### RewriteEngine (src/rewriting/engine.go)

The explain walker (spec 4.5, not in the repository) visits a statement's
nodes in order and calls one Engine method per node. One action per
method, `VisitTable` ... `VisitLimit`, each the method's outcomes given to
the walker (`Walk`): a binding is recorded in `ops`, an error fails the
explain. The methods translate lines 40-137: `RewriteTable` errors on a
source that is not a TableName (a subquery), `RewritePatterIn` and
`RewriteBetween` error when the left side is not a column name, and
every method then looks the table up (`Find`: found iff sharded, or a
lookup error) and builds its writer (`WriterErrs`), in the order of the
code's `if fe != nil` / `if ok` / `if err == nil` (`Resolved`).
`RewriteLimit` binds a LimitWriter only when the lookup has a limit and an
offset.

After a successful walk the statement runs on the sharded table's data
nodes. When no table was bound there are no sharding values and
`GenerateSql` returns `UsageRaw` (sql_gen.go:32-35, `UsageRaw`): the
statement goes to the default source as written, no writer runs, so it
keeps its own `LIMIT offset, count`, and its answer passes through.
Otherwise `Respond` is one shard answering with its rows (ORDER BY keys)
under the per-shard LIMIT: `LIMIT 0, offset+count` when the limit was
rewritten (the LimitWriter, spec 4.6), the statement's own limit
otherwise. `Merge` is the reducer of spec 4.5: merge in key order, drop
`offset` rows when the limit was rewritten, keep `count`. The reducer is
modelled on the sorted union of the answers, so the order in which the
shards answer does not matter by construction and is not a claim.

Line 129 binds a LimitWriter with no check that the explain has a sharded
table (spec 4.5 asks for one), so an unsharded statement with an offset
records a limit rewrite. On the raw path no writer runs and the answer
passes through, so this does not change the result; it would drop the
offset twice only if the caller (not in the repository) reduced raw
results, which spec 4.7 ("pass through") says it does not.

Run `engine_limit` (pass, 5712 states): five statement shapes (sharded
with field, IN and BETWEEN; sharded with a predicate column; unsharded;
unsharded with a non-column IN; a subquery source) times nine limits
(none; count 1..2 without offset; offset 0..2 with count 1..2) times
every placement of four rows on two shards, with lookup and writer
errors. `LimitMatchesGlobal`: the rows returned are the statement's
LIMIT over all rows, on the raw and the scatter path. With the guard inverted (`RewriteLimitInverted`)
TLC finds `LIMIT 1,1` over rows split across shards returning the wrong
row. Four rows and offsets up to 2 are enough for an offset to span
rows of both shards and for a shard to hold fewer rows than the offset.

Not checked by a run: the unconditional errors for a subquery source and
a non-column IN/BETWEEN left side (lines 42 and 90). Spec 4.5
says an unsupported predicate shape only contributes no pruning; the
code fails the statement. The model has these outcomes, and the
difference is plain from the code without a search.

## 4. Not modelled

* Formatting and logging (`Value.String`, log lines, `getCoordinatorRoot`'s
  string building): no property is about them.
* `Value.MarshalJSON`: its string branch is `json.Marshal` of arbitrary
  bytes (HTML escaping, UTF-8 validation and U+FFFD replacement), far more
  library than code; the comment limits it to tests. `UnmarshalJSON` is
  modelled.
* `Value.Equals` and `Value.Clone`: the model's values are immutable, so a
  deep copy and the original cannot be told apart; nothing in value.go
  writes into a Value's bytes.
* `ListNamespace`, `QueryNamespace`: reads of the store with no state
  change (QueryNamespace loads one name at a time and returns the names
  found so far, with a nil error, when one is missing).
* `Session.Clone`: straight-line field copying; how deep the copy is
  depends on `ExecuteOptions`, `DbSession.Clone`, `BindVariable.Clone`
  and `database.CopyMap`/`CopyArray`, none of which is in the repository.
* The SQL text the rewriting writers produce (`TableNameWriter` and its
  siblings are not in the repository): the engine model records which
  nodes get a writer, not what the writer prints.
* The initial handshake writers and the auth-switch and more-data packets:
  each is one packet of fixed layout, and the negotiation that orders them
  is in the connection handler, which is not in the repository.
* Float parsing (`NewValue`'s float branch, `NewFloat64`, `NewFloat32`,
  `ToFloat64`): it depends on Go's float formatting and parsing, and no
  property is about it.
* `IsDateTime`'s bit test: its meaning depends on type codes defined outside
  the repository.
