\* Two operators each making one ModifyNamespace, no failures at all.
CONSTANTS
    p1 = p1
    p2 = p2
    Admins = {a1, a2}
    ProxyOrder <- TwoProxies
    Ops = {"modify"}
    MaxCalls = 1
    Faults = {}
SPECIFICATION Spec
INVARIANT QuietAgreement
