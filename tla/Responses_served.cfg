\* Five commands answered in turn; any packet write or flush may fail.
CONSTANTS
    Requests <- MCServed
    WriteFails = TRUE
SPECIFICATION Spec
INVARIANT ClientInSync
PROPERTY EveryResponseRead
