\* Every statement shape and limit over every placement of four rows on
\* two shards, with failing catalog lookups and writer constructors.
CONSTANTS
    Stmts <- MCStmts
    Sharded = {"orders"}
    Shards = {d1, d2}
    Default = d0
    Keys <- MCKeys
    Faults <- AllFaults
SPECIFICATION Spec
INVARIANT LimitMatchesGlobal
