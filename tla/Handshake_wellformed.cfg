\* Every packet a client encodes, complete.
CONSTANTS
    CapSets <- MCCapSets
    Users <- MCUsers
    Auths <- MCAuths
    Dbs <- MCDbs
    Plugins <- MCPlugins
    NativeName <- MCNativeName
    Truncate = FALSE
    NullAuth = FALSE
SPECIFICATION Spec
INVARIANT InPacket
INVARIANT RoundTrip
