----------------------------- MODULE ScatterSpec -----------------------------
(***************************************************************************)
(* What GenerateSql promises its callers (spec 3 and 4.7), with no cursor, *)
(* no loop and no explain object: a call either returns at once (an error  *)
(* or the raw statement), or it runs and then returns an error or one      *)
(* scatter command per shard coordinate of its sharding values, in         *)
(* lexicographic order, each rendered with the call's bind variables.  A   *)
(* running call eventually returns.                                        *)
(*                                                                         *)
(* The coordinates and their order are parameters: GenSql supplies them.   *)
(***************************************************************************)
EXTENDS Naturals, Sequences, FiniteSets

CONSTANTS
    Callers, BindSets, NoVars, MaxExec,
    DestMaps,       \* the sharding values a restore may yield
    NoDest,         \* the sharding values before any restore
    Coords(_),      \* the shard coordinates of sharding values
    LexLess(_, _)   \* the order the coordinates are emitted in

VARIABLES
    busy,    \* [Callers -> BOOLEAN]: a call is running
    ret,     \* [Callers -> outcome]: what the last call returned
    execs,   \* calls started
    binds,   \* the bind variables of the last call
    dest     \* the sharding values of the last call

avars == <<busy, ret, execs, binds, dest>>

Outcome(k) == [kind |-> k, cmds |-> <<>>]

\* The elements of S in the order lt: the i-th has i - 1 elements below it.
Ordered(S, lt(_, _)) ==
    [i \in 1..Cardinality(S) |->
        CHOOSE x \in S : Cardinality({y \in S : lt(y, x)}) = i - 1]

\* The commands of a shard result: every coordinate once, in order.
Scatter(d, b) ==
    LET s == Ordered(Coords(d), LexLess)
    IN [kind |-> "shard",
        cmds |-> [i \in DOMAIN s |-> [coord |-> s[i], ds |-> s[i][1], sqlVars |-> b]]]

Init ==
    /\ busy = [c \in Callers |-> FALSE]
    /\ ret = [c \in Callers |-> Outcome("none")]
    /\ execs = [c \in Callers |-> 0]
    /\ binds = [c \in Callers |-> NoVars]
    /\ dest = [c \in Callers |-> NoDest]

Call(c) ==
    /\ ~busy[c] /\ execs[c] < MaxExec
    /\ execs' = [execs EXCEPT ![c] = @ + 1]
    /\ \E b \in BindSets : binds' = [binds EXCEPT ![c] = b]

\* A call that returns before it runs: an error or the raw statement,
\* with or without sharding values restored.
Immediate(c) ==
    /\ Call(c)
    /\ \E k \in {"err", "raw"} : ret' = [ret EXCEPT ![c] = Outcome(k)]
    /\ \E d \in DestMaps \cup {dest[c]} : dest' = [dest EXCEPT ![c] = d]
    /\ UNCHANGED busy

Start(c) ==
    /\ Call(c)
    /\ \E d \in DestMaps : dest' = [dest EXCEPT ![c] = d]
    /\ busy' = [busy EXCEPT ![c] = TRUE]
    /\ ret' = [ret EXCEPT ![c] = Outcome("pending")]

Fail(c) ==
    /\ busy[c]
    /\ busy' = [busy EXCEPT ![c] = FALSE]
    /\ ret' = [ret EXCEPT ![c] = Outcome("err")]
    /\ UNCHANGED <<execs, binds, dest>>

Return(c) ==
    /\ busy[c]
    /\ busy' = [busy EXCEPT ![c] = FALSE]
    /\ ret' = [ret EXCEPT ![c] = Scatter(dest[c], binds[c])]
    /\ UNCHANGED <<execs, binds, dest>>

Next == \E c \in Callers : Immediate(c) \/ Start(c) \/ Fail(c) \/ Return(c)

Spec == Init /\ [][Next]_avars /\ \A c \in Callers : WF_avars(Fail(c) \/ Return(c))

=============================================================================
