----------------------------- MODULE Fingerprint -----------------------------
(***************************************************************************)
(* SQLFingerprint and ProxyConfigFingerprint (src/cc/service/service.go):  *)
(* fan-out of one goroutine per proxy and fan-in over a buffered channel.  *)
(*                                                                         *)
(* The caller creates respC with a buffer of len(proxies), and for each    *)
(* proxy does wg.Add(1) and starts a goroutine that queries the proxy,     *)
(* sends the reply (nil when the query failed) on respC and, deferred,     *)
(* calls wg.Done().  The caller then waits for the WaitGroup, closes       *)
(* respC and ranges over it, skipping nil replies and merging the slow-SQL *)
(* map of every other reply.  A reply is abstracted to the set of          *)
(* fingerprint keys it carries.  ProxyConfigFingerprint has the same       *)
(* control, but its goroutine sends {host: md5} even when the query        *)
(* failed (md5 is then ""), never nil; its reply is the set of that one    *)
(* <<host, md5>> pair, and merging is r[k] = v.  fn says which function    *)
(* runs.                                                                   *)
(***************************************************************************)
EXTENDS Naturals, Sequences, FiniteSets

CONSTANTS
    Proxies,   \* the listed proxies, one goroutine each
    Keys,      \* fingerprint keys a proxy may report
    Nil,       \* the nil reply of a failed query
    Md5s       \* config fingerprints a proxy may report

VARIABLES
    fn,        \* "sql" (SQLFingerprint) or "config" (ProxyConfigFingerprint)
    mpc,       \* the caller: "list", "spawn", "wait", "drain", "done", "err"
    spawned,   \* proxies whose goroutine has been started
    wg,        \* the WaitGroup counter
    gpc,       \* [Proxies -> {"none", "query", "send", "done", "exit"}]
    reply,     \* [Proxies -> reply]: what each goroutine got from its proxy
    respC,     \* the channel's buffer
    closed,    \* close(respC) has run
    slowSQLs   \* the merged keys

vars == <<fn, mpc, spawned, wg, gpc, reply, respC, closed, slowSQLs>>

NoMd5 == ""

\* QueryNamespaceSQLFingerprint: a reply, or nil and a logged error.
\* QueryProxyConfigFingerprint: the md5, or "" and a logged error; the
\* goroutine sends m[host] = md5 either way.
ReplyOf(p) ==
    IF fn = "sql" THEN (SUBSET Keys) \cup {Nil}
    ELSE {{<<p, m>>} : m \in Md5s \cup {NoMd5}}

\* Mutant: a buffer one short of the number of senders.
BufCapShort == Cardinality(Proxies) - 1

\* make(chan *proxy.SQLFingerprint, len(proxies))
BufCap == Cardinality(Proxies)

Init ==
    /\ fn \in {"sql", "config"}
    /\ mpc = "list"
    /\ spawned = {}
    /\ wg = 0
    /\ gpc = [p \in Proxies |-> "none"]
    /\ reply = [p \in Proxies |-> Nil]
    /\ respC = <<>>
    /\ closed = FALSE
    /\ slowSQLs = {}

\* mConn.ListProxyMonitorMetrics(): on error SQLFingerprint returns it;
\* otherwise respC and the WaitGroup are made and the loop starts.
ListProxies ==
    /\ mpc = "list"
    /\ \/ mpc' = "err"
       \/ mpc' = IF Proxies = {} THEN "wait" ELSE "spawn"
    /\ UNCHANGED <<fn, spawned, wg, gpc, reply, respC, closed, slowSQLs>>

\* One iteration of the range over proxies: wg.Add(1); go func(...).
Spawn(p) ==
    /\ mpc = "spawn"
    /\ p \notin spawned
    /\ spawned' = spawned \cup {p}
    /\ wg' = wg + 1
    /\ gpc' = [gpc EXCEPT ![p] = "query"]
    /\ mpc' = IF spawned' = Proxies THEN "wait" ELSE "spawn"
    /\ UNCHANGED <<fn, reply, respC, closed, slowSQLs>>

\* The goroutine's query of its proxy.
Query(p) ==
    /\ gpc[p] = "query"
    /\ \E r \in ReplyOf(p) : reply' = [reply EXCEPT ![p] = r]
    /\ gpc' = [gpc EXCEPT ![p] = "send"]
    /\ UNCHANGED <<fn, mpc, spawned, wg, respC, closed, slowSQLs>>

\* respC <- r: blocks while the buffer is full.
Send(p) ==
    /\ gpc[p] = "send"
    /\ Len(respC) < BufCap
    /\ respC' = Append(respC, reply[p])
    /\ gpc' = [gpc EXCEPT ![p] = "done"]
    /\ UNCHANGED <<fn, mpc, spawned, wg, reply, closed, slowSQLs>>

\* Mutant: wg.Done() called before the send as well as deferred.
GoDoneTwice(p) ==
    /\ gpc[p] = "done"
    /\ wg' = wg - 2
    /\ gpc' = [gpc EXCEPT ![p] = "exit"]
    /\ UNCHANGED <<fn, mpc, spawned, reply, respC, closed, slowSQLs>>

\* The deferred wg.Done() as the goroutine returns.
GoDone(p) ==
    /\ gpc[p] = "done"
    /\ wg' = wg - 1
    /\ gpc' = [gpc EXCEPT ![p] = "exit"]
    /\ UNCHANGED <<fn, mpc, spawned, reply, respC, closed, slowSQLs>>

\* wg.Wait(); close(respC).
WaitAndClose ==
    /\ mpc = "wait"
    /\ wg = 0
    /\ closed' = TRUE
    /\ mpc' = "drain"
    /\ UNCHANGED <<fn, spawned, wg, gpc, reply, respC, slowSQLs>>

\* Mutant: the range loop breaks at the first nil reply.
DrainBreakOnNil ==
    /\ mpc = "drain"
    /\ respC # <<>>
    /\ respC' = Tail(respC)
    /\ IF Head(respC) = Nil
       THEN mpc' = "done" /\ UNCHANGED slowSQLs
       ELSE slowSQLs' = slowSQLs \cup Head(respC) /\ UNCHANGED mpc
    /\ UNCHANGED <<fn, spawned, wg, gpc, reply, closed>>

\* One iteration of the range over respC: skip nil, merge the rest
\* (slowSQLs[k] = v, or r[k] = v).
Drain ==
    /\ mpc = "drain"
    /\ respC # <<>>
    /\ respC' = Tail(respC)
    /\ slowSQLs' = IF Head(respC) = Nil THEN slowSQLs
                   ELSE slowSQLs \cup Head(respC)
    /\ UNCHANGED <<fn, mpc, spawned, wg, gpc, reply, closed>>

\* The range ends on the closed, empty channel; SQLFingerprint returns.
DrainEnd ==
    /\ mpc = "drain"
    /\ closed /\ respC = <<>>
    /\ mpc' = "done"
    /\ UNCHANGED <<fn, spawned, wg, gpc, reply, respC, closed, slowSQLs>>

Next ==
    \/ ListProxies
    \/ \E p \in Proxies : Spawn(p) \/ Query(p) \/ Send(p) \/ GoDone(p)
    \/ WaitAndClose \/ Drain \/ DrainEnd

\* Every goroutine and the caller are scheduled while runnable.
Spec == Init /\ [][Next]_vars /\ WF_vars(Next)

-----------------------------------------------------------------------------
Replies == (SUBSET Keys) \cup {Nil} \cup {{<<p, m>>} : p \in Proxies, m \in Md5s \cup {NoMd5}}

TypeOK ==
    /\ fn \in {"sql", "config"}
    /\ mpc \in {"list", "spawn", "wait", "drain", "done", "err"}
    /\ spawned \subseteq Proxies
    /\ wg \in 0..Cardinality(Proxies)
    /\ gpc \in [Proxies -> {"none", "query", "send", "done", "exit"}]
    /\ reply \in [Proxies -> Replies]
    /\ respC \in Seq(Replies)
    /\ closed \in BOOLEAN
    /\ slowSQLs \subseteq Keys \cup (Proxies \X (Md5s \cup {NoMd5}))

\* SQLFingerprint and ProxyConfigFingerprint return: no goroutine blocks
\* forever on a full respC while the caller waits for the WaitGroup.
FingerprintReturns == <>(mpc \in {"done", "err"})

\* When SQLFingerprint returns, it has merged the keys of every proxy
\* whose query succeeded, a failed proxy costing only its own keys; when
\* ProxyConfigFingerprint returns, it has an entry for every proxy.
MergedEveryReply ==
    mpc = "done" =>
        slowSQLs = UNION {reply[p] : p \in {q \in Proxies : reply[q] # Nil}}

=============================================================================
