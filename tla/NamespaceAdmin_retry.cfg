\* One operator making three calls (modify or delete) in sequence, with every
\* failure: verify, store, list, a failing RPC and an RPC whose reply is lost.
CONSTANTS
    p1 = p1
    p2 = p2
    Admins = {a1}
    ProxyOrder <- TwoProxies
    Ops = {"modify", "delete"}
    MaxCalls = 3
    Faults <- AllFaults
SPECIFICATION Spec
INVARIANT TypeOK
INVARIANT SuccessRepairs
