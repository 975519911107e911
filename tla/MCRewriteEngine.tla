--------------------------- MODULE MCRewriteEngine ---------------------------
(* Model-checking instance of RewriteEngine: a table `orders` sharded on   *)
(* two data nodes and an unsharded `users`, four rows, and the statement   *)
(* shapes of spec 4.5 under every limit with offset 0..2 and count 1..2.   *)
EXTENDS RewriteEngine

Nd(k, t, c) == [kind |-> k, tbl |-> t, colLeft |-> c]

\* SELECT f FROM t [WHERE ...]: the walker's visiting order, without LIMIT.
Bodies ==
    { << Nd("table", "orders", TRUE), Nd("field", "orders", TRUE),
         Nd("in", "orders", TRUE), Nd("between", "orders", TRUE) >>,
      << Nd("table", "orders", TRUE), Nd("column", "orders", TRUE) >>,
      << Nd("table", "users", TRUE), Nd("field", "users", TRUE) >>,
      << Nd("table", "users", TRUE), Nd("in", "users", FALSE) >>,
      << Nd("table", NoTable, TRUE) >> }

MCLimits ==
    {NoLimit}
    \cup {[has |-> TRUE, hasOff |-> FALSE, off |-> 0, cnt |-> c] : c \in 1..2}
    \cup {[has |-> TRUE, hasOff |-> TRUE, off |-> o, cnt |-> c] : o \in 0..2, c \in 1..2}

\* The LIMIT node comes last, when there is one.
MCStmts ==
    {[nodes |-> b \o (IF l.has THEN <<Nd("limit", "orders", TRUE)>> ELSE <<>>),
      lim |-> l] : b \in Bodies, l \in MCLimits}

MCKeys == 1..4
AllFaults == {"lookup", "writer"}
=============================================================================
