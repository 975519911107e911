------------------------------ MODULE Responses ------------------------------
(***************************************************************************)
(* The server's response writers (src/unnamed/part_000: writeOKResult,     *)
(* writeResultset, writeFieldList, writePrepareResponse) and a client that *)
(* reads the packet stream the way the MySQL protocol prescribes.          *)
(*                                                                         *)
(* The client sends one command at a time and sends the next only once it  *)
(* has read the whole response to the previous one.  The server writes     *)
(* the response packet by packet on the connection (a FIFO stream); a      *)
(* write may fail, and then the writer returns the error and the           *)
(* connection is closed.  A packet is abstracted to its kind and the       *)
(* counts it carries; column definitions and rows carry no content.        *)
(***************************************************************************)
EXTENDS Naturals, Sequences, SequencesExt

CONSTANTS
    Requests,   \* the commands the client sends, in order
    WriteFails  \* whether a packet write may fail

\* A command: a query answered by an OK (no result set) or a result set of
\* `fields` columns and `rows` rows, or a COM_STMT_PREPARE of a statement
\* with `params` parameters and `cols` result columns.
Query(f, r) == [kind |-> "query", rs |-> TRUE, fields |-> f, rows |-> r]
Exec == [kind |-> "query", rs |-> FALSE, fields |-> 0, rows |-> 0]
Prepare(p, c) == [kind |-> "prepare", params |-> p, cols |-> c]

Pkt(k, n, m) == [k |-> k, n |-> n, m |-> m]
Pk(k) == Pkt(k, 0, 0)

N == Len(Requests)

VARIABLES
    wire,     \* packets written and not yet read
    sent,     \* commands the client has sent
    cur,      \* the command the server answers next or is answering
    spc,      \* the server's step in the current response
    loop,     \* the server's loop index
    cexp,     \* what the client still expects of the current response
    read,     \* responses the client has read completely
    desync,   \* the client read a packet it did not expect
    closed    \* the connection is closed (a write failed)

vars == <<wire, sent, cur, spc, loop, cexp, read, desync, closed>>

Init ==
    /\ wire = <<>>
    /\ sent = 1
    /\ cur = 1
    /\ spc = "idle"
    /\ loop = 0
    /\ cexp = <<>>
    /\ read = 0
    /\ desync = FALSE
    /\ closed = FALSE

-----------------------------------------------------------------------------
(* The server.                                                             *)

\* Write a packet and go to step next with loop index i; "end" returns nil
\* and the server waits for the next command.  A failed write returns the
\* error and the connection closes.
Write(p, next, i) ==
    /\ ~closed
    /\ \/ /\ wire' = Append(wire, p)
          /\ spc' = IF next = "end" THEN "idle" ELSE next
          /\ loop' = i
          /\ cur' = IF next = "end" THEN cur + 1 ELSE cur
          /\ UNCHANGED closed
       \/ /\ WriteFails
          /\ closed' = TRUE
          /\ UNCHANGED <<wire, spc, loop, cur>>
    /\ UNCHANGED <<sent, cexp, read, desync>>

R == Requests[cur]

\* writeOKResult: an OK packet without a result set, else writeResultset:
\* StartWriterBuffering and the column count.  writePrepareResponse: the
\* header with the statement's column and parameter counts.
Begin ==
    /\ spc = "idle" /\ cur <= sent
    /\ CASE R.kind = "query" /\ ~R.rs -> Write(Pk("ok"), "end", 0)
         [] R.kind = "query"          -> Write(Pkt("count", R.fields, 0), "defs", 0)
         [] OTHER -> Write(Pkt("prep", R.params, R.cols),
                           IF R.params > 0 THEN "pdefs"
                           ELSE IF R.cols > 0 THEN "cdefs" ELSE "end", 0)

\* Mutant: the field loop stops one definition early.
FieldDefShort ==
    /\ spc = "defs"
    /\ IF loop < R.fields - 1 THEN Write(Pk("coldef"), "defs", loop + 1)
       ELSE Write(Pk("eof"), "rows", 0)

\* writeFieldList: a column definition per field, then EOF.
FieldDef ==
    /\ spc = "defs"
    /\ IF loop < R.fields THEN Write(Pk("coldef"), "defs", loop + 1)
       ELSE Write(Pk("eof"), "rows", 0)

\* writeResultset's row loop, then the closing EOF.
Row ==
    /\ spc = "rows"
    /\ IF loop < R.rows THEN Write(Pk("row"), "rows", loop + 1)
       ELSE Write(Pk("eof"), "flush", 0)

\* cc.Flush(): the buffered packets reach the client, or the flush fails.
Flush ==
    /\ spc = "flush" /\ ~closed
    /\ \/ spc' = "idle" /\ cur' = cur + 1 /\ UNCHANGED closed
       \/ WriteFails /\ closed' = TRUE /\ UNCHANGED <<spc, cur>>
    /\ UNCHANGED <<wire, loop, sent, cexp, read, desync>>

\* writePrepareResponse's parameter block: a definition per parameter and
\* EOF, then `return err`: the column block is never written.
ParamDef ==
    /\ spc = "pdefs"
    /\ IF loop < R.params THEN Write(Pk("coldef"), "pdefs", loop + 1)
       ELSE Write(Pk("eof"), "end", 0)

\* Mutant: the column block returns without its EOF.
ColDefNoEof ==
    /\ spc = "cdefs"
    /\ IF loop < R.cols - 1 THEN Write(Pk("coldef"), "cdefs", loop + 1)
       ELSE Write(Pk("coldef"), "end", 0)

\* writePrepareResponse's column block (reached only without parameters).
ColDef ==
    /\ spc = "cdefs"
    /\ IF loop < R.cols THEN Write(Pk("coldef"), "cdefs", loop + 1)
       ELSE Write(Pk("eof"), "end", 0)

-----------------------------------------------------------------------------
(* The client (MySQL protocol, spec 3).                                    *)

\* k column definitions and EOF, or nothing when k = 0 (spec 3, prepare).
Block(k) == IF k > 0 THEN [i \in 1..k |-> "coldef"] \o <<"eof">> ELSE <<>>

\* What the client expects after a response's first packet p.
AfterHeader(q, p) ==
    CASE q.kind = "query" /\ p.k = "ok"       -> <<>>
      [] q.kind = "query" /\ p.k = "count"    ->
             [i \in 1..p.n |-> "coldef"] \o <<"eof", "rows">>
      [] q.kind = "prepare" /\ p.k = "prep"   -> Block(p.n) \o Block(p.m)

HeaderOK(q, p) ==
    \/ q.kind = "query" /\ p.k \in {"ok", "count"}
    \/ q.kind = "prepare" /\ p.k = "prep"

\* The client sends its next command once it has read the last response.
Send ==
    /\ read = sent /\ sent < N /\ ~closed /\ ~desync
    /\ sent' = sent + 1
    /\ UNCHANGED <<wire, cur, spc, loop, cexp, read, desync, closed>>

\* The client reads the next packet of the current response.
Recv ==
    /\ wire # <<>> /\ read < sent /\ ~desync
    /\ LET p == Head(wire)
           q == Requests[read + 1]
           rest == CASE cexp = <<>> /\ HeaderOK(q, p)    -> AfterHeader(q, p)
                     [] cexp # <<>> /\ Head(cexp) = "rows" /\ p.k = "row" -> cexp
                     [] cexp # <<>> /\ Head(cexp) = "rows" /\ p.k = "eof" -> Tail(cexp)
                     [] cexp # <<>> /\ Head(cexp) = p.k   -> Tail(cexp)
                     [] OTHER                             -> <<"bad">>
       IN /\ wire' = Tail(wire)
          /\ IF rest = <<"bad">>
             THEN desync' = TRUE /\ UNCHANGED <<cexp, read>>
             ELSE /\ cexp' = rest
                  /\ read' = IF rest = <<>> THEN read + 1 ELSE read
                  /\ UNCHANGED desync
    /\ UNCHANGED <<sent, cur, spc, loop, closed>>

Finished ==
    /\ read = N \/ (closed /\ wire = <<>>)
    /\ UNCHANGED vars

Next ==
    \/ Begin \/ FieldDef \/ Row \/ Flush \/ ParamDef \/ ColDef
    \/ Send \/ Recv \/ Finished

\* The server and the client run while they can.
Spec == Init /\ [][Next]_vars /\ WF_vars(Next)

-----------------------------------------------------------------------------
\* Every packet the client reads is one the protocol allows at that point
\* of the response: the writers frame OK packets, result sets and prepare
\* responses the way the client parses them.
ClientInSync == ~desync

\* Every command's response is eventually read in full, unless a failed
\* write closed the connection: the client never waits for a packet the
\* server will not write.
EveryResponseRead == <>(read = N \/ closed)

=============================================================================
