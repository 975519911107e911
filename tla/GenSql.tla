------------------------------- MODULE GenSql -------------------------------
(***************************************************************************)
(* SQL generation runtime: GenerateSql and gen (src/gen/sql_gen.go) and    *)
(* the genRuntime cursor they drive.                                       *)
(*                                                                         *)
(* A caller (the goroutine serving one client command) executes an         *)
(* explained statement with a list of bind variables.  GenerateSql         *)
(*   1. restores the sharding values (error | none | per-table shards),    *)
(*   2. builds the runtime, 3. stores the bind variables in the explain    *)
(*      (expl.SetVars), 4. loops: runtime.Next(); RestoreSql; append a     *)
(*      ScatterCommand, until Next() returns false.                        *)
(* The explain is an object that outlives one call: a prepared statement   *)
(* re-executes the same explain, and ExplainOf says which callers use      *)
(* which explain.  The rendered SQL is abstracted to the shard coordinate  *)
(* it was rendered for and the bind variables the explain held when the    *)
(* writers ran.                                                            *)
(*                                                                         *)
(* A shard coordinate is a tuple <<ds, p_1, ..., p_T>>: a data source and  *)
(* one physical table per sharded table, all on that data source.  The     *)
(* cursor (genRuntime.Next, not under src/; modelled from spec 3 and 4.7)  *)
(* advances over these tuples in lexicographic order, as an odometer.      *)
(***************************************************************************)
EXTENDS Naturals, Sequences, FiniteSets

CONSTANTS
    Callers,      \* goroutines that call GenerateSql
    Explains,     \* SqlExplain objects
    ExplainOf,    \* [Callers -> Explains]: the explain each caller executes
    BindSets,     \* the bind-variable lists a call may pass
    NoVars,       \* the vars of an explain SetVars was never called on
    NumDs,        \* data sources 1..NumDs
    NumPhys,      \* physical tables 1..NumPhys of each logical table
    NumTables,    \* sharded tables 1..NumTables of the statement
    MaxExec,      \* executions per caller (bound)
    Faults        \* steps that may return an error, a subset of FaultKinds

FaultKinds == {"values", "runtime", "vars", "restore"}

ASSUME /\ ExplainOf \in [Callers -> Explains]
       /\ NoVars \notin BindSets
       /\ NumDs >= 1 /\ NumPhys >= 1 /\ NumTables >= 1
       /\ Faults \subseteq FaultKinds

VARIABLES
    pc,        \* [Callers -> {"idle", "setvars", "gen"}]
    execs,     \* number of calls each caller has started
    binds,     \* bind variables of the caller's current call
    dest,      \* restored sharding values: per sharded table, its (ds, phys) shards
    cursor,    \* genRuntime cursor: NotStarted, a coordinate, or Exhausted
    cmds,      \* genResult.Commands built so far
    result,    \* outcome of the last call: "none", "raw", "shard", "err"
    explVars   \* [Explains -> BindSets \cup {NoVars}]: vars held by each explain

vars == <<pc, execs, binds, dest, cursor, cmds, result, explVars>>

Ds == 1..NumDs
Phys == 1..NumPhys
Digits == 1..(NumTables + 1)

\* Per-table shard sets a restore may yield: every table keeps >= 1 shard.
DestMaps == [1..NumTables -> (SUBSET (Ds \X Phys)) \ {{}}]

CoordSpace ==
    {v \in [Digits -> 1..(IF NumDs > NumPhys THEN NumDs ELSE NumPhys)] :
        v[1] \in Ds /\ \A i \in Digits \ {1} : v[i] \in Phys}

\* A coordinate names a shard of every table on the same data source.
Valid(v, d) == \A t \in 1..NumTables : <<v[1], v[t + 1]>> \in d[t]

Coords(d) == {v \in CoordSpace : Valid(v, d)}

LexLess(a, b) ==
    \E i \in Digits : a[i] < b[i] /\ \A j \in 1..(i - 1) : a[j] = b[j]

ScatterCommand == [coord : CoordSpace, ds : Ds, sqlVars : BindSets \cup {NoVars}]

-----------------------------------------------------------------------------
(* genRuntime.Next: the odometer.                                          *)

\* Cursor positions outside the coordinates: before the first Next() and
\* after the last.  Tuples, so that TLC can compare them with coordinates.
NotStarted == <<0>>
Exhausted == <<>>

Radix(i) == IF i = 1 THEN NumDs ELSE NumPhys

\* Mutant: a digit overflows one value early.
RECURSIVE BumpShortRadix(_, _)
BumpShortRadix(v, i) ==
    IF i = 0 THEN Exhausted
    ELSE IF v[i] < Radix(i) - 1 THEN [v EXCEPT ![i] = @ + 1]
    ELSE BumpShortRadix([v EXCEPT ![i] = 1], i - 1)

\* Increment digit i and carry leftwards; past the first digit the cursor ends.
RECURSIVE Bump(_, _)
Bump(v, i) ==
    IF i = 0 THEN Exhausted
    ELSE IF v[i] < Radix(i) THEN [v EXCEPT ![i] = @ + 1]
    ELSE Bump([v EXCEPT ![i] = 1], i - 1)

\* Skip tuples that are not coordinates of the restored sharding values.
RECURSIVE Seek(_, _)
Seek(v, d) == IF v = Exhausted THEN Exhausted
              ELSE IF Valid(v, d) THEN v
              ELSE Seek(Bump(v, NumTables + 1), d)

FirstTuple == [i \in Digits |-> 1]

Advance(cur, d) ==
    CASE cur = NotStarted -> Seek(FirstTuple, d)
      [] cur = Exhausted   -> Exhausted
      [] OTHER         -> Seek(Bump(cur, NumTables + 1), d)

-----------------------------------------------------------------------------
Init ==
    /\ pc = [c \in Callers |-> "idle"]
    /\ execs = [c \in Callers |-> 0]
    /\ binds = [c \in Callers |-> NoVars]
    /\ dest = [c \in Callers |-> [t \in 1..NumTables |-> {}]]
    /\ cursor = [c \in Callers |-> NotStarted]
    /\ cmds = [c \in Callers |-> <<>>]
    /\ result = [c \in Callers |-> "none"]
    /\ explVars = [e \in Explains |-> NoVars]

Return(c, r) ==
    /\ pc' = [pc EXCEPT ![c] = "idle"]
    /\ result' = [result EXCEPT ![c] = r]

\* GenerateSql up to SetVars: RestoreShardingValues, the raw early return,
\* and NewRuntime.  A failing step returns (nil, err).
GenerateSql(c) ==
    /\ pc[c] = "idle"
    /\ execs[c] < MaxExec
    /\ execs' = [execs EXCEPT ![c] = @ + 1]
    /\ cmds' = [cmds EXCEPT ![c] = <<>>]
    /\ \E b \in BindSets :
         binds' = [binds EXCEPT ![c] = b]
    /\ \/ /\ "values" \in Faults
          /\ Return(c, "err")
          /\ UNCHANGED <<dest, cursor>>
       \/ /\ Return(c, "raw")
          /\ UNCHANGED <<dest, cursor>>
       \/ /\ "runtime" \in Faults
          /\ \E d \in DestMaps : dest' = [dest EXCEPT ![c] = d]
          /\ Return(c, "err")
          /\ UNCHANGED cursor
       \/ /\ \E d \in DestMaps : dest' = [dest EXCEPT ![c] = d]
          /\ cursor' = [cursor EXCEPT ![c] = NotStarted]
          /\ pc' = [pc EXCEPT ![c] = "setvars"]
          /\ UNCHANGED result
    /\ UNCHANGED explVars

\* expl.SetVars(bindVariables): writes the call's vars into the explain.
SetVars(c) ==
    /\ pc[c] = "setvars"
    /\ \/ /\ "vars" \in Faults
          /\ Return(c, "err")
          /\ UNCHANGED explVars
       \/ /\ explVars' = [explVars EXCEPT ![ExplainOf[c]] = binds[c]]
          /\ pc' = [pc EXCEPT ![c] = "gen"]
          /\ UNCHANGED result
    /\ UNCHANGED <<execs, binds, dest, cursor, cmds>>

\* Mutant: the loop renders without testing runtime.Next()'s result.
GenNextUnchecked(c) ==
    /\ pc[c] = "gen"
    /\ LET nxt == Advance(cursor[c], dest[c]) IN
         /\ cursor' = [cursor EXCEPT ![c] = nxt]
         /\ cmds' = [cmds EXCEPT ![c] =
                Append(@, [coord |-> nxt, ds |-> 1,
                           sqlVars |-> explVars[ExplainOf[c]]])]
         /\ UNCHANGED <<pc, result>>
    /\ UNCHANGED <<execs, binds, dest, explVars>>

\* One iteration of gen's loop in which runtime.Next() returns true.
GenNext(c) ==
    /\ pc[c] = "gen"
    /\ LET nxt == Advance(cursor[c], dest[c]) IN
         /\ nxt # Exhausted
         /\ cursor' = [cursor EXCEPT ![c] = nxt]
         /\ \/ /\ "restore" \in Faults          \* RestoreSql fails: return nil
               /\ cmds' = [cmds EXCEPT ![c] = <<>>]
               /\ Return(c, "err")
            \/ /\ cmds' = [cmds EXCEPT ![c] =
                     Append(@, [coord |-> nxt, ds |-> nxt[1],
                                sqlVars |-> explVars[ExplainOf[c]]])]
               /\ UNCHANGED <<pc, result>>
    /\ UNCHANGED <<execs, binds, dest, explVars>>

\* Mutant: the loop's else branch without its break.
GenEndNoBreak(c) ==
    /\ pc[c] = "gen"
    /\ Advance(cursor[c], dest[c]) = Exhausted
    /\ cursor' = [cursor EXCEPT ![c] = Exhausted]
    /\ UNCHANGED <<pc, result, execs, binds, dest, cmds, explVars>>

\* runtime.Next() returns false: break, return the shard result.
GenEnd(c) ==
    /\ pc[c] = "gen"
    /\ Advance(cursor[c], dest[c]) = Exhausted
    /\ cursor' = [cursor EXCEPT ![c] = Exhausted]
    /\ Return(c, "shard")
    /\ UNCHANGED <<execs, binds, dest, cmds, explVars>>

\* Every caller has made its bounded number of calls.
Finished ==
    /\ \A c \in Callers : pc[c] = "idle" /\ execs[c] = MaxExec
    /\ UNCHANGED vars

Step(c) == GenerateSql(c) \/ SetVars(c) \/ GenNext(c) \/ GenEnd(c)

Next == (\E c \in Callers : Step(c)) \/ Finished

\* Go schedules every runnable goroutine; a call in progress keeps running.
Fairness == \A c \in Callers : WF_vars(SetVars(c) \/ GenNext(c) \/ GenEnd(c))

Spec == Init /\ [][Next]_vars /\ Fairness

-----------------------------------------------------------------------------
TypeOK ==
    /\ pc \in [Callers -> {"idle", "setvars", "gen"}]
    /\ execs \in [Callers -> 0..MaxExec]
    /\ binds \in [Callers -> BindSets \cup {NoVars}]
    /\ dest \in [Callers -> [1..NumTables -> SUBSET (Ds \X Phys)]]
    /\ cursor \in [Callers -> CoordSpace \cup {NotStarted, Exhausted}]
    /\ cmds \in [Callers -> Seq(ScatterCommand)]
    /\ result \in [Callers -> {"none", "raw", "shard", "err"}]
    /\ explVars \in [Explains -> BindSets \cup {NoVars}]

\* The caller's view of its last call: running, or what it returned.
Returned(c) ==
    CASE pc[c] # "idle"      -> [kind |-> "pending", cmds |-> <<>>]
      [] result[c] = "shard" -> [kind |-> "shard", cmds |-> cmds[c]]
      [] OTHER               -> [kind |-> result[c], cmds |-> <<>>]

Abs == INSTANCE ScatterSpec
         WITH busy <- [c \in Callers |-> pc[c] # "idle"],
              ret <- [c \in Callers |-> Returned(c)],
              NoDest <- [t \in 1..NumTables |-> {}]

\* GenerateSql implements ScatterSpec: every call returns (the loop breaks
\* when runtime.Next() is false), and a shard result holds one command per
\* shard coordinate of its restored sharding values, in lexicographic
\* order, rendered with the call's own bind variables; the cursor, the
\* SetVars step and the loop are invisible to the caller.
ImplementsScatter == Abs!Spec

=============================================================================
