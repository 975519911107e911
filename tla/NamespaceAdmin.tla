--------------------------- MODULE NamespaceAdmin ---------------------------
(***************************************************************************)
(* Namespace administration of the control plane (src/cc/service/         *)
(* service.go): ModifyNamespace and DelNamespace on one namespace.         *)
(*                                                                         *)
(* ModifyNamespace verifies and encrypts the namespace, writes it to the   *)
(* coordinator store, lists the registered proxies, calls PrepareConfig   *)
(* on each in turn (prepare phase), then CommitConfig on each in turn      *)
(* (commit phase); any failing step returns the error at once.             *)
(* DelNamespace deletes the store entry, lists the proxies and calls       *)
(* DelNamespace on each in turn.                                           *)
(*                                                                         *)
(* The store and the proxies' admin API are external; their behaviour is   *)
(* an assumption of this model (see README):                               *)
(*   PrepareConfig loads the namespace from the store into a standby slot  *)
(*     and fails if the store has none;                                    *)
(*   CommitConfig makes the standby the served configuration and empties   *)
(*     the slot, and fails if nothing is prepared;                         *)
(*   DelNamespace removes the served configuration.                        *)
(* An RPC can fail before it takes effect or after (the reply is lost).    *)
(* A namespace configuration is abstracted to the number of the store     *)
(* write that produced it; 0 is "no namespace".                            *)
(***************************************************************************)
EXTENDS Integers, Sequences, FiniteSets

CONSTANTS
    Admins,       \* concurrent callers of the control-plane API
    ProxyOrder,   \* the registered proxies, in the order the list returns them
    Ops,          \* the calls an admin may make: subset of {"modify", "delete"}
    MaxCalls,     \* calls per admin (bound)
    Faults        \* the steps that may fail: subset of FaultKinds

FaultKinds == {"verify", "store", "list", "rpc", "lost"}

Proxies == {ProxyOrder[i] : i \in DOMAIN ProxyOrder}
NoNs == 0              \* the store or a proxy has no such namespace
Unprepared == -1       \* a proxy's standby slot is empty
MaxVer == 1 + Cardinality(Admins) * MaxCalls

ASSUME /\ Ops \subseteq {"modify", "delete"} /\ Ops # {}
       /\ Faults \subseteq FaultKinds
       /\ Len(ProxyOrder) >= 1

VARIABLES
    store,     \* the namespace held by the coordinator store
    nextVer,   \* number of the next store write
    active,    \* [Proxies -> version]: the namespace each proxy serves
    standby,   \* [Proxies -> version]: each proxy's prepared namespace
    apc,       \* [Admins -> step]: where each admin call is
    idx,       \* [Admins -> Nat]: loop index into ProxyOrder
    calls,     \* [Admins -> Nat]: calls each admin has started
    aresult    \* [Admins -> {"none", "ok", "err"}]: result of the last call

vars == <<store, nextVer, active, standby, apc, idx, calls, aresult>>

Steps == {"idle", "update", "list", "prepare", "commit",
          "dellist", "delproxy"}

Init ==
    /\ store = 1
    /\ nextVer = 2
    /\ active = [p \in Proxies |-> 1]
    /\ standby = [p \in Proxies |-> Unprepared]
    /\ apc = [a \in Admins |-> "idle"]
    /\ idx = [a \in Admins |-> 1]
    /\ calls = [a \in Admins |-> 0]
    /\ aresult = [a \in Admins |-> "none"]

-----------------------------------------------------------------------------
(* The proxies' admin API (environment).                                   *)

ProxyPrepare(p) ==
    /\ store # NoNs
    /\ standby' = [standby EXCEPT ![p] = store]
    /\ UNCHANGED active

ProxyCommit(p) ==
    /\ standby[p] # Unprepared
    /\ active' = [active EXCEPT ![p] = standby[p]]
    /\ standby' = [standby EXCEPT ![p] = Unprepared]

ProxyDelete(p) ==
    /\ active' = [active EXCEPT ![p] = NoNs]
    /\ UNCHANGED standby

-----------------------------------------------------------------------------
(* Control flow of the admin calls.                                        *)

Return(a, r) ==
    /\ apc' = [apc EXCEPT ![a] = "idle"]
    /\ aresult' = [aresult EXCEPT ![a] = r]
    /\ UNCHANGED idx

Goto(a, s) ==
    /\ apc' = [apc EXCEPT ![a] = s]
    /\ idx' = [idx EXCEPT ![a] = 1]
    /\ UNCHANGED aresult

\* The admin API call each loop makes on proxy p.
Effect(p, loop) ==
    CASE loop = "prepare"  -> ProxyPrepare(p)
      [] loop = "commit"   -> ProxyCommit(p)
      [] loop = "delproxy" -> ProxyDelete(p)

\* What a loop does after its last proxy: ModifyNamespace goes on to the
\* commit phase; the commit phase and DelNamespace's loop return nil.
LoopDone(a, loop) ==
    IF loop = "prepare" THEN Goto(a, "commit") ELSE Return(a, "ok")

\* Mutant: the loop stops one proxy early.
ProxyCallShort(a, loop) ==
    /\ Effect(ProxyOrder[idx[a]], loop)
    /\ IF idx[a] < Len(ProxyOrder) - 1
       THEN /\ idx' = [idx EXCEPT ![a] = @ + 1]
            /\ UNCHANGED <<apc, aresult>>
       ELSE LoopDone(a, loop)

\* Mutant: the loop index runs one past the proxy list.
ProxyCallOverrun(a, loop) ==
    /\ Effect(ProxyOrder[idx[a]], loop)
    /\ IF idx[a] <= Len(ProxyOrder)
       THEN /\ idx' = [idx EXCEPT ![a] = @ + 1]
            /\ UNCHANGED <<apc, aresult>>
       ELSE LoopDone(a, loop)

\* One iteration of a loop over the proxies (the prepare phase, the commit
\* phase, DelNamespace's loop): the RPC fails without effect, takes effect
\* and its reply is lost, is rejected by the proxy, or succeeds; then the
\* loop moves to the next proxy or, after the last, does LoopDone.
ProxyCall(a, loop) ==
    LET p == ProxyOrder[idx[a]]
    IN \/ /\ "rpc" \in Faults
          /\ Return(a, "err")
          /\ UNCHANGED <<active, standby>>
       \/ /\ "lost" \in Faults
          /\ Effect(p, loop)
          /\ Return(a, "err")
       \/ /\ ~ENABLED Effect(p, loop)
          /\ Return(a, "err")
          /\ UNCHANGED <<active, standby>>
       \/ /\ Effect(p, loop)
          /\ IF idx[a] < Len(ProxyOrder)
             THEN /\ idx' = [idx EXCEPT ![a] = @ + 1]
                  /\ UNCHANGED <<apc, aresult>>
             ELSE LoopDone(a, loop)

\* ModifyNamespace: namespace.Verify() and namespace.Encrypt().
ModifyNamespace(a) ==
    /\ apc[a] = "idle"
    /\ calls[a] < MaxCalls
    /\ "modify" \in Ops
    /\ calls' = [calls EXCEPT ![a] = @ + 1]
    /\ \/ /\ "verify" \in Faults
          /\ Return(a, "err")
       \/ Goto(a, "update")
    /\ UNCHANGED <<store, nextVer, active, standby>>

\* storeConn.UpdateNamespace(namespace).
UpdateNamespace(a) ==
    /\ apc[a] = "update"
    /\ \/ /\ "store" \in Faults
          /\ Return(a, "err")
          /\ UNCHANGED <<store, nextVer>>
       \/ /\ store' = nextVer
          /\ nextVer' = nextVer + 1
          /\ Goto(a, "list")
    /\ UNCHANGED <<active, standby, calls>>

\* storeConn.ListProxyMonitorMetrics() in either call.
ListProxies(a) ==
    /\ apc[a] \in {"list", "dellist"}
    /\ \/ /\ "list" \in Faults
          /\ Return(a, "err")
       \/ Goto(a, IF apc[a] = "list" THEN "prepare" ELSE "delproxy")
    /\ UNCHANGED <<store, nextVer, active, standby, calls>>

\* One iteration of the prepare phase: proxy.PrepareConfig.
PrepareConfig(a) ==
    /\ apc[a] = "prepare"
    /\ ProxyCall(a, "prepare")
    /\ UNCHANGED <<store, nextVer, calls>>

\* One iteration of the commit phase: proxy.CommitConfig; after the last
\* proxy ModifyNamespace returns nil.
CommitConfig(a) ==
    /\ apc[a] = "commit"
    /\ ProxyCall(a, "commit")
    /\ UNCHANGED <<store, nextVer, calls>>

\* DelNamespace: mConn.DelNamespace(name).
DelNamespace(a) ==
    /\ apc[a] = "idle"
    /\ calls[a] < MaxCalls
    /\ "delete" \in Ops
    /\ calls' = [calls EXCEPT ![a] = @ + 1]
    /\ \/ /\ "store" \in Faults
          /\ Return(a, "err")
          /\ UNCHANGED store
       \/ /\ store' = NoNs
          /\ Goto(a, "dellist")
    /\ UNCHANGED <<nextVer, active, standby>>

\* One iteration of DelNamespace's loop: proxy.DelNamespace.
DelProxy(a) ==
    /\ apc[a] = "delproxy"
    /\ ProxyCall(a, "delproxy")
    /\ UNCHANGED <<store, nextVer, calls>>

Finished ==
    /\ \A a \in Admins : apc[a] = "idle" /\ calls[a] = MaxCalls
    /\ UNCHANGED vars

Next ==
    \/ \E a \in Admins :
          \/ ModifyNamespace(a) \/ UpdateNamespace(a) \/ ListProxies(a)
          \/ PrepareConfig(a) \/ CommitConfig(a)
          \/ DelNamespace(a) \/ DelProxy(a)
    \/ Finished

Spec == Init /\ [][Next]_vars

-----------------------------------------------------------------------------
Versions == NoNs..MaxVer

TypeOK ==
    /\ store \in Versions
    /\ nextVer \in 2..(MaxVer + 1)
    /\ active \in [Proxies -> Versions]
    /\ standby \in [Proxies -> Versions \cup {Unprepared}]
    /\ apc \in [Admins -> Steps]
    /\ idx \in [Admins -> DOMAIN ProxyOrder]
    /\ calls \in [Admins -> 0..MaxCalls]
    /\ aresult \in [Admins -> {"none", "ok", "err"}]

AllIdle == \A a \in Admins : apc[a] = "idle"

\* Every proxy serves exactly what the coordinator store holds.
Agreement == \A p \in Proxies : active[p] = store

\* When no admin call is running, every proxy serves the namespace the
\* store holds: the prepare/commit phases of ModifyNamespace and the loop
\* of DelNamespace leave the proxies in step with the store.
QuietAgreement == AllIdle => Agreement

\* A call that returned nil has put every proxy in step with the store,
\* whatever partial failures and lost replies earlier calls left behind:
\* a successful retry of ModifyNamespace or DelNamespace repairs them.
SuccessRepairs ==
    AllIdle /\ (\A a \in Admins : aresult[a] = "ok") => Agreement

=============================================================================
