---------------------------- MODULE MCResponses -----------------------------
(* Model-checking instance of Responses.                                   *)
EXTENDS Responses

\* Result sets with and without columns and rows, an OK, and prepares with
\* only parameters and only columns.
MCServed == <<Query(2, 2), Exec, Prepare(2, 0), Prepare(0, 2), Query(0, 1)>>

\* A prepared statement with both parameters and result columns, then a
\* query.
MCBoth == <<Prepare(1, 1), Query(1, 1)>>
=============================================================================
