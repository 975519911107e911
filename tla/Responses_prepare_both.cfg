\* A prepare of a statement with one parameter and one result column, then
\* a query; no write fails.  The client stops once it waits for a packet no
\* one writes.
CONSTANTS
    Requests <- MCBoth
    WriteFails = FALSE
SPECIFICATION Spec
PROPERTY EveryResponseRead
CHECK_DEADLOCK FALSE
