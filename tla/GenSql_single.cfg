\* One caller re-executing a prepared explain twice with any bind variables,
\* over every restorable sharding-value map of a two-table join.
CONSTANTS
    Callers = {c1}
    Explains = {e1}
    ExplainOf <- OwnExplain
    BindSets = {b1, b2}
    NoVars = NoVars
    NumDs = 2
    NumPhys = 2
    NumTables = 2
    MaxExec = 2
    Faults <- AllFaults
SPECIFICATION Spec
INVARIANT TypeOK
PROPERTY ImplementsScatter
