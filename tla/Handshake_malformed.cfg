\* Every packet a client encodes, complete, cut off at any byte, or with
\* a NULL length-encoded auth.
CONSTANTS
    CapSets <- MCCapSets
    Users <- MCUsers
    Auths <- MCAuths
    Dbs <- MCDbs
    Plugins <- MCPlugins
    NativeName <- MCNativeName
    Truncate = TRUE
    NullAuth = TRUE
SPECIFICATION Spec


INVARIANT RejectsMalformed
