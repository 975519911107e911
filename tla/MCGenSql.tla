------------------------------ MODULE MCGenSql ------------------------------
(* Model-checking instance of GenSql: a caller with its own explain, two   *)
(* data sources, two physical tables per logical table and two sharded    *)
(* tables (a join).                                                        *)
EXTENDS GenSql

\* Each caller executes its own (prepared) explain.
OwnExplain == [c \in Callers |-> CHOOSE e \in Explains : TRUE]

AllFaults == FaultKinds
=============================================================================
