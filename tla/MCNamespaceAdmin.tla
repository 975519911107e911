-------------------------- MODULE MCNamespaceAdmin --------------------------
(* Model-checking instance of NamespaceAdmin: two registered proxies.      *)
EXTENDS NamespaceAdmin

CONSTANTS p1, p2

TwoProxies == <<p1, p2>>

AllFaults == FaultKinds
=============================================================================
