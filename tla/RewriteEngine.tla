---------------------------- MODULE RewriteEngine ----------------------------
(***************************************************************************)
(* The rewriting Engine (src/rewriting/engine.go) as the explain walk      *)
(* calls it, and what its plan does to a scattered query.                  *)
(*                                                                         *)
(* The explain walker (spec 4.5, not under src/) visits a statement's      *)
(* nodes in order and calls one Engine method per node: RewriteTable for   *)
(* a table source, RewriteField for a SELECT-list column, RewriteColumn    *)
(* for a predicate column, RewritePatterIn for `x IN (...)`,               *)
(* RewriteBetween for `x BETWEEN a AND b`, RewriteLimit for LIMIT.  A      *)
(* method returns no rewrite, a rewrite binding, or an error, which fails  *)
(* the statement.  The catalog lookups (FindShardingTable,                 *)
(* FindShardingTableByColumn) and the writer constructors are not under    *)
(* src/ and are modelled from spec 4.5 and 4.6: a lookup finds the table   *)
(* iff it is sharded, and either may fail (Faults).                        *)
(*                                                                         *)
(* The statement then runs on every shard of the table (spec 4.7): a row   *)
(* is a key of the ORDER BY column, each shard returns its rows in order   *)
(* under the per-shard LIMIT, and the proxy's reducer (spec 4.5) merges   *)
(* them, drops `offset` rows when the limit was rewritten and keeps       *)
(* `count`.  A statement with no sharded table is sent raw to the         *)
(* default data source (sql_gen.go:32-35) and its answer passes through.  *)
(***************************************************************************)
EXTENDS Integers, Sequences, SequencesExt, FiniteSetsExt

CONSTANTS
    Stmts,       \* the statements explained: [nodes : Seq(Node), lim : Limit]
    Sharded,     \* the tables the catalog shards
    Shards,      \* the sharded tables' data nodes
    Default,     \* the data source of an unsharded table
    Keys,        \* the rows of the queried table (ORDER BY keys)
    Faults       \* steps that may fail, a subset of {"lookup", "writer"}

\* A node of the AST: its kind, the table it names (a table source that
\* is a subquery names none) and, for IN and BETWEEN, whether the left
\* side is a column name.
NoTable == "subquery"

\* A statement's limit lookup: HasLimit, HasOffset, offset and count.
NoLimit == [has |-> FALSE, hasOff |-> FALSE, off |-> 0, cnt |-> 0]

VARIABLES
    stmt,      \* the statement being explained
    place,     \* [Keys -> Shards]: the shard each row of a sharded table is on
    at,        \* the next node the walker visits
    ops,       \* the rewrite bindings recorded: node index |-> table
    failed,    \* the explain returned an error
    resp,      \* [data source -> rows returned], the responses that arrived
    result     \* the reducer's output: done, and the rows returned

vars == <<stmt, place, at, ops, failed, resp, result>>

Node == stmt.nodes[at]
Lookup == stmt.lim

-----------------------------------------------------------------------------
(* The lookups and writer constructors (spec 4.5, 4.6).                    *)

\* FindShardingTable / FindShardingTableByColumn: (sd, ok, err).
Find(t) ==
    {[ok |-> t \in Sharded, err |-> FALSE]}
    \cup (IF "lookup" \in Faults THEN {[ok |-> FALSE, err |-> TRUE]} ELSE {})

\* NewTableNameWriter and its siblings: nil or an error.
WriterErrs == IF "writer" \in Faults THEN {FALSE, TRUE} ELSE {FALSE}

\* A method's outcome: no rewrite, a binding (ResultFromNode,
\* ResultFromExprNode, ResultFromLimit), or an error.
None == [kind |-> "none"]
Bound == [kind |-> "bound"]
Error == [kind |-> "err"]

\* `if ok { if writer, err := New...Writer(); err == nil {...} }` after a
\* lookup: the error of the lookup, then of the writer, or the binding.
Resolved(t) ==
    {IF f.err THEN Error ELSE IF ~f.ok THEN None ELSE IF we THEN Error ELSE Bound :
        f \in Find(t), we \in WriterErrs}

-----------------------------------------------------------------------------
(* The Engine.                                                             *)

\* RewriteTable: the source must be a TableName.
RewriteTable(n) == IF n.tbl = NoTable THEN {Error} ELSE Resolved(n.tbl)

\* RewriteField and RewriteColumn: the column's owning table.
RewriteField(n) == Resolved(n.tbl)
RewriteColumn(n) == Resolved(n.tbl)

\* RewritePatterIn and RewriteBetween: the left side must be a
\* ColumnNameExpr, whatever the tables are.
RewritePatterIn(n) == IF ~n.colLeft THEN {Error} ELSE Resolved(n.tbl)
RewriteBetween(n) == IF ~n.colLeft THEN {Error} ELSE Resolved(n.tbl)

\* Mutant: the rewrite taken when there is no offset instead of when there is.
RewriteLimitInverted(lk) ==
    IF lk.has /\ ~lk.hasOff THEN {IF we THEN Error ELSE Bound : we \in WriterErrs}
    ELSE {None}

\* RewriteLimit: a LimitWriter only when the lookup has a limit and an offset.
RewriteLimit(lk) ==
    IF lk.has /\ lk.hasOff THEN {IF we THEN Error ELSE Bound : we \in WriterErrs}
    ELSE {None}

-----------------------------------------------------------------------------
(* Per-shard SQL and the reducer.                                          *)

\* LIMIT o, c of a sorted sequence of rows.
Lim(s, o, c) == SubSeq(s, Min({o + 1, Len(s) + 1}), Min({o + c, Len(s)}))

Sorted(S) == SetToSortSeq(S, <)

LimitRewritten == \E i \in DOMAIN ops : stmt.nodes[i].kind = "limit"
ShardedPlan == \E i \in DOMAIN ops : stmt.nodes[i].kind = "table"

\* GenerateSql (sql_gen.go:32-35): with no sharded table bound there are
\* no sharding values, and the statement goes to the default data source
\* as written (UsageRaw): no writer runs, the LimitWriter included.
UsageRaw == ~ShardedPlan

\* The data sources the statement is sent to, and the rows each holds.
Targets == IF UsageRaw THEN {Default} ELSE Shards
RowsOn(s) == IF UsageRaw THEN Keys ELSE {k \in Keys : place[k] = s}

\* The statement's own LIMIT over sorted rows.
OwnLimit(rows) == IF Lookup.has THEN Lim(rows, Lookup.off, Lookup.cnt) ELSE rows

\* A raw statement keeps its LIMIT; a shard's statement carries the
\* LimitWriter's `LIMIT 0, offset+count` when the limit was rewritten.
ShardRows(s) ==
    IF LimitRewritten /\ ~UsageRaw
    THEN Lim(Sorted(RowsOn(s)), 0, Lookup.off + Lookup.cnt)
    ELSE OwnLimit(Sorted(RowsOn(s)))

\* The reducer of a scatter: merge the sorted streams, drop offset when
\* the limit was rewritten, keep count.  A raw result passes through.
Reduce(rs) ==
    LET merged == Sorted(UNION {Range(rs[s]) : s \in DOMAIN rs})
    IN CASE UsageRaw       -> rs[Default]
         [] LimitRewritten -> Lim(merged, Lookup.off, Lookup.cnt)
         [] Lookup.has     -> Lim(merged, 0, Lookup.cnt)
         [] OTHER          -> merged

-----------------------------------------------------------------------------
Init ==
    /\ stmt \in Stmts
    /\ place \in [Keys -> Shards]
    /\ at = 1
    /\ ops = <<>>
    /\ failed = FALSE
    /\ resp = <<>>
    /\ result = [done |-> FALSE, rows |-> <<>>]

\* The walker hands the node of kind k to an Engine method with outcomes
\* rs: a binding is recorded, an error fails the explain.
Walk(k, rs) ==
    /\ ~failed /\ at <= Len(stmt.nodes) /\ Node.kind = k
    /\ \E r \in rs :
         /\ failed' = (r = Error)
         /\ ops' = IF r = Bound THEN ops @@ (at :> Node.tbl) ELSE ops
         /\ at' = at + 1
    /\ UNCHANGED <<stmt, place, resp, result>>

VisitTable == Walk("table", RewriteTable(Node))
VisitField == Walk("field", RewriteField(Node))
VisitColumn == Walk("column", RewriteColumn(Node))
VisitPatternIn == Walk("in", RewritePatterIn(Node))
VisitBetween == Walk("between", RewriteBetween(Node))
VisitLimit == Walk("limit", RewriteLimit(Lookup))

\* A target data source answers its per-shard statement.
Respond ==
    /\ ~failed /\ at > Len(stmt.nodes) /\ ~result.done
    /\ \E s \in Targets \ DOMAIN resp : resp' = resp @@ (s :> ShardRows(s))
    /\ UNCHANGED <<stmt, place, at, ops, failed, result>>

\* Every target has answered: the reducer builds the result.
Merge ==
    /\ ~failed /\ ~result.done /\ at > Len(stmt.nodes) /\ DOMAIN resp = Targets
    /\ result' = [done |-> TRUE, rows |-> Reduce(resp)]
    /\ UNCHANGED <<stmt, place, at, ops, failed, resp>>

Finished ==
    /\ failed \/ result.done
    /\ UNCHANGED vars

Next ==
    \/ VisitTable \/ VisitField \/ VisitColumn \/ VisitPatternIn \/ VisitBetween
    \/ VisitLimit \/ Respond \/ Merge \/ Finished

Spec == Init /\ [][Next]_vars

-----------------------------------------------------------------------------
\* What the client receives for a statement the Engine explained is what
\* the statement's LIMIT returns over all the table's rows, whichever
\* shards hold them: the Engine's RewriteLimit decision (engine.go:129),
\* GenerateSql's raw or scatter usage, the per-shard LIMIT and the
\* reducer agree.
LimitMatchesGlobal ==
    result.done =>
        result.rows = IF Lookup.has THEN Lim(Sorted(Keys), Lookup.off, Lookup.cnt)
                       ELSE Sorted(Keys)

=============================================================================
