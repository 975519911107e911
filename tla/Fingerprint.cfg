\* SQLFingerprint or ProxyConfigFingerprint over three proxies, each
\* failing (nil or "") or reporting any subset of two keys or one of two
\* config md5s;
\* the function returns, so its end state is terminal.
CONSTANTS
    Proxies = {x1, x2, x3}
    Keys = {k1, k2}
    Nil = Nil
    Md5s = {"m1", "m2"}
SPECIFICATION Spec
INVARIANT TypeOK
INVARIANT MergedEveryReply
PROPERTY FingerprintReturns
CHECK_DEADLOCK FALSE
