---------------------------- MODULE MCFingerprint ----------------------------
(* Model-checking instance of Fingerprint: three proxies, two keys.        *)
EXTENDS Fingerprint
=============================================================================
