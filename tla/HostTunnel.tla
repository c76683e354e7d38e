----------------------------- MODULE HostTunnel -----------------------------
(***************************************************************************)
(* HTTP requests through the access server to one host.  The host's        *)
(* client (hort/access/tunnel_client.py) keeps a WebSocket to the server   *)
(* open and opens a new one when it is lost; the server                    *)
(* (hort/access/server.py) makes a HostTunnel of each, registers the last  *)
(* one, and relays the browsers' requests through the one it finds         *)
(* registered.  A large answer comes back in chunks.                       *)
(*                                                                         *)
(* An action is the code between two awaits of one coroutine of the server *)
(* or of the host.  A connection can be cut without either end noticing    *)
(* before its pings time out.                                              *)
(***************************************************************************)
EXTENDS Naturals, Sequences, FiniteSets

CONSTANTS
  Conn,      \* the tunnel connections the host opens, each used once
  Req,       \* requests of browsers (a req_id is used once)
  None,
  MaxTotal,  \* bound: chunks of an answer
  MaxCuts    \* bound: connections that are cut

ASSUME HostTunnelAssumption ==
  /\ None \notin Conn \cup Req
  /\ MaxTotal \in Nat \ {0} /\ MaxCuts \in Nat

VARIABLES
  registered, \* _tunnels.get(host_id)
  tun,        \* [Conn -> where its host_tunnel handler is]
  tasks,      \* [Conn -> which of run()'s reader and writer go on]
  queue,      \* [Conn -> self._send_queue]
  pending,    \* [Conn -> the keys of self._pending]
  chunked,    \* [Conn -> [Req -> self._chunked: expected and received chunks]]
  caller,     \* [Req -> where proxy_request is, or what it has returned]
  via,        \* [Req -> the tunnel http_proxy has picked]
  fut,        \* [Req -> its future]
  client,     \* the connection of TunnelClient, or None
  work,       \* [Req -> the task of the client that handles it]
  runs,       \* [Req -> how often the local server was asked]
  down, up,   \* [Conn -> messages under way to the host, to the server]
  srvOpen, hostOpen, cut, \* [Conn -> the state of its ends, and of the path]
  cuts

serverVars == <<registered, tun, tasks, queue, pending, chunked>>
callerVars == <<caller, via, fut>>
hostVars   == <<client, work, runs>>
wireVars   == <<down, up, srvOpen, hostOpen, cut, cuts>>
vars       == <<serverVars, callerVars, hostVars, wireVars>>

Absent == [total |-> 0, got |-> {}]
NoWork == [state |-> "none", conn |-> None, total |-> 0, next |-> 0]
Finished == [NoWork EXCEPT !.state = "done"]

Whole(kind, r)     == [kind |-> kind, req |-> r, total |-> 1, index |-> 0]
Chunk(r, total, i) == [kind |-> IF i = 0 THEN "start" ELSE "chunk",
                       req |-> r, total |-> total, index |-> i]

\* What an end writes arrives unless the path is cut or the other end closed.
Arrives(t, wire, openEnd, msgs) ==
  IF cut[t] \/ ~openEnd[t] THEN wire ELSE [wire EXCEPT ![t] = @ \o msgs]

-----------------------------------------------------------------------------
(* http_proxy and HostTunnel.proxy_request                                 *)

\* The tunnel is looked up before the body of the request has been read.
Pick(r) ==
  /\ caller[r] = "idle"
  /\ IF registered = None
     THEN caller' = [caller EXCEPT ![r] = "refused"] /\ UNCHANGED via
     ELSE /\ caller' = [caller EXCEPT ![r] = "body"]
          /\ via' = [via EXCEPT ![r] = registered]
  /\ UNCHANGED <<serverVars, fut, hostVars, wireVars>>

Issue(r) ==
  /\ caller[r] = "body"
  /\ caller' = [caller EXCEPT ![r] = "waiting"]
  /\ fut' = [fut EXCEPT ![r] = "pending"]
  /\ pending' = [pending EXCEPT ![via[r]] = @ \cup {r}]
  /\ queue' = [queue EXCEPT ![via[r]] = Append(@, r)]
  /\ UNCHANGED <<registered, tun, tasks, chunked, via, hostVars, wireVars>>

\* Mutant: a lost host is reported as an answer.
Return_AnyValue(r) ==
  /\ caller[r] = "waiting"
  /\ fut[r] # "pending"
  /\ caller' = [caller EXCEPT ![r] = "answer"]
  /\ pending' = [pending EXCEPT ![via[r]] = @ \ {r}]
  /\ UNCHANGED <<registered, tun, tasks, queue, chunked, via, fut, hostVars, wireVars>>

Return(r) ==
  /\ caller[r] = "waiting"
  /\ fut[r] # "pending"
  /\ caller' = [caller EXCEPT ![r] = fut[r]]
  /\ pending' = [pending EXCEPT ![via[r]] = @ \ {r}]
  /\ UNCHANGED <<registered, tun, tasks, queue, chunked, via, fut, hostVars, wireVars>>

\* 30 seconds: wait_for cancels the future.  The request may still be queued.
Timeout(r) ==
  /\ caller[r] = "waiting"
  /\ fut[r] = "pending"
  /\ caller' = [caller EXCEPT ![r] = "timeout"]
  /\ fut' = [fut EXCEPT ![r] = "cancelled"]
  /\ pending' = [pending EXCEPT ![via[r]] = @ \ {r}]
  /\ UNCHANGED <<registered, tun, tasks, queue, chunked, via, hostVars, wireVars>>

-----------------------------------------------------------------------------
(* host_tunnel and HostTunnel.run                                          *)

\* The welcome has been sent: the newest connection is the host's tunnel.
Register(t) ==
  /\ tun[t] = "accepted"
  /\ tun' = [tun EXCEPT ![t] = "running"]
  /\ tasks' = [tasks EXCEPT ![t] = {"reader", "writer"}]
  /\ registered' = t
  /\ UNCHANGED <<queue, pending, chunked, callerVars, hostVars, wireVars>>

\* The welcome cannot be sent: the connection has gone already.
RegisterFails(t) ==
  /\ tun[t] = "accepted"
  /\ ~hostOpen[t] \/ cut[t]
  /\ tun' = [tun EXCEPT ![t] = "ended"]
  /\ srvOpen' = [srvOpen EXCEPT ![t] = FALSE]
  /\ UNCHANGED <<registered, tasks, queue, pending, chunked, callerVars, hostVars,
                 down, up, hostOpen, cut, cuts>>

\* writer(): to a connection whose end has not been noticed, into the void.
Write(t) ==
  /\ "writer" \in tasks[t]
  /\ queue[t] # <<>>
  /\ queue' = [queue EXCEPT ![t] = Tail(@)]
  /\ down' = Arrives(t, down, hostOpen, <<Head(queue[t])>>)
  /\ UNCHANGED <<registered, tun, tasks, pending, chunked, callerVars, hostVars,
                 up, srvOpen, hostOpen, cut, cuts>>

\* writer(): send_text raises.
WriteFails(t) ==
  /\ "writer" \in tasks[t]
  /\ queue[t] # <<>>
  /\ ~hostOpen[t] \/ cut[t]
  /\ queue' = [queue EXCEPT ![t] = Tail(@)]
  /\ tasks' = [tasks EXCEPT ![t] = @ \ {"writer"}]
  /\ UNCHANGED <<registered, tun, pending, chunked, callerVars, hostVars, wireVars>>

\* The chunks received once m is in; self._chunked has no entry for r before.
Collected(t, m) ==
  IF m.kind = "start" THEN [total |-> m.total, got |-> {m.index}]
  ELSE IF chunked[t][m.req] = Absent THEN Absent
  ELSE [chunked[t][m.req] EXCEPT !.got = @ \cup {m.index}]

\* Mutant: one chunk is not waited for.
Complete_OneShort(c) == c.total # 0 /\ Cardinality(c.got) + 1 >= c.total

Complete(c) == c.total # 0 /\ Cardinality(c.got) >= c.total

\* resolve_response: a future that is settled, or forgotten, stays as it is.
Resolved(t, r, value) ==
  [fut EXCEPT ![r] = IF r \in pending[t] /\ @ = "pending" THEN value ELSE @]

\* reader()
Read(t) ==
  /\ "reader" \in tasks[t]
  /\ up[t] # <<>>
  /\ up' = [up EXCEPT ![t] = Tail(@)]
  /\ LET m == Head(up[t])
         c == Collected(t, m)
     IN IF m.kind \in {"answer", "error"}
        THEN fut' = Resolved(t, m.req, m.kind) /\ UNCHANGED chunked
        ELSE IF Complete(c)
        THEN /\ chunked' = [chunked EXCEPT ![t][m.req] = Absent]
             /\ fut' = Resolved(t, m.req, IF c.got = 0..(c.total - 1) THEN "answer" ELSE "torn")
        ELSE chunked' = [chunked EXCEPT ![t][m.req] = c] /\ UNCHANGED fut
  /\ UNCHANGED <<registered, tun, tasks, queue, pending, caller, via, hostVars,
                 down, srvOpen, hostOpen, cut, cuts>>

\* reader(): the connection has been closed, or its pings have timed out.
ReadFails(t) ==
  /\ "reader" \in tasks[t]
  /\ ~hostOpen[t] \/ cut[t]
  /\ tasks' = [tasks EXCEPT ![t] = @ \ {"reader"}]
  /\ UNCHANGED <<registered, tun, queue, pending, chunked, callerVars, hostVars, wireVars>>

\* Mutant: the futures are dropped, not rejected.
RunEnds_Forgets(t) ==
  /\ tun[t] = "running"
  /\ tasks[t] # {"reader", "writer"}
  /\ tun' = [tun EXCEPT ![t] = "ended"]
  /\ tasks' = [tasks EXCEPT ![t] = {}]
  /\ pending' = [pending EXCEPT ![t] = {}]
  /\ registered' = None
  /\ srvOpen' = [srvOpen EXCEPT ![t] = FALSE]
  /\ up' = [up EXCEPT ![t] = <<>>]
  /\ UNCHANGED <<queue, chunked, callerVars, hostVars, down, hostOpen, cut, cuts>>

\* Mutant: the tunnel stays in the registry.
RunEnds_StaysRegistered(t) ==
  /\ tun[t] = "running"
  /\ tasks[t] # {"reader", "writer"}
  /\ tun' = [tun EXCEPT ![t] = "ended"]
  /\ tasks' = [tasks EXCEPT ![t] = {}]
  /\ fut' = [r \in Req |-> IF r \in pending[t] /\ fut[r] = "pending" THEN "lost" ELSE fut[r]]
  /\ pending' = [pending EXCEPT ![t] = {}]
  /\ srvOpen' = [srvOpen EXCEPT ![t] = FALSE]
  /\ up' = [up EXCEPT ![t] = <<>>]
  /\ UNCHANGED <<registered, queue, chunked, caller, via, hostVars, down, hostOpen, cut, cuts>>

\* The first of the two tasks to end takes the other with it; every pending
\* request is rejected, the host is taken out of the registry (whichever of
\* its tunnels is registered by now), and the server's end is closed, with
\* what has arrived there and not been read.
RunEnds(t) ==
  /\ tun[t] = "running"
  /\ tasks[t] # {"reader", "writer"}
  /\ tun' = [tun EXCEPT ![t] = "ended"]
  /\ tasks' = [tasks EXCEPT ![t] = {}]
  /\ fut' = [r \in Req |-> IF r \in pending[t] /\ fut[r] = "pending" THEN "lost" ELSE fut[r]]
  /\ pending' = [pending EXCEPT ![t] = {}]
  /\ registered' = None
  /\ srvOpen' = [srvOpen EXCEPT ![t] = FALSE]
  /\ up' = [up EXCEPT ![t] = <<>>]
  /\ UNCHANGED <<queue, chunked, caller, via, hostVars, down, hostOpen, cut, cuts>>

-----------------------------------------------------------------------------
(* TunnelClient                                                            *)

Connect(t) ==
  /\ client = None
  /\ tun[t] = "unused"
  /\ client' = t
  /\ tun' = [tun EXCEPT ![t] = "accepted"]
  /\ srvOpen' = [srvOpen EXCEPT ![t] = TRUE]
  /\ hostOpen' = [hostOpen EXCEPT ![t] = TRUE]
  /\ UNCHANGED <<registered, tasks, queue, pending, chunked, callerVars, work, runs,
                 down, up, cut, cuts>>

\* The client's end is closed: the server's has been, the path is cut, or the
\* client is stopped (its tasks may then stop as well: none has to go on).  What has
\* arrived there and not been read is gone.
Leave ==
  /\ client # None
  /\ hostOpen' = [hostOpen EXCEPT ![client] = FALSE]
  /\ down' = [down EXCEPT ![client] = <<>>]
  /\ client' = None
  /\ UNCHANGED <<serverVars, callerVars, work, runs, up, srvOpen, cut, cuts>>

\* _message_loop starts a task, which asks the local server.
Take(t) ==
  /\ client = t
  /\ down[t] # <<>>
  /\ down' = [down EXCEPT ![t] = Tail(@)]
  /\ LET r == Head(down[t]) IN
       /\ work' = [work EXCEPT ![r] = [state |-> "local", conn |-> t, total |-> 0, next |-> 0]]
       /\ runs' = [runs EXCEPT ![r] = @ + 1]
  /\ UNCHANGED <<serverVars, callerVars, client, up, srvOpen, hostOpen, cut, cuts>>

\* Whatever the task sends on a connection its end of which is closed raises,
\* and so does the error it then tries to send.
SendUp(r, msgs, w) ==
  LET t == work[r].conn IN
    /\ work' = [work EXCEPT ![r] = IF hostOpen[t] THEN w ELSE Finished]
    /\ up' = IF hostOpen[t] THEN Arrives(t, up, srvOpen, msgs) ELSE up
    /\ UNCHANGED <<serverVars, callerVars, client, runs, down, srvOpen, hostOpen, cut, cuts>>

\* The last message of an answer; the 30 seconds may be over while it is being
\* sent, and an error then follows the whole answer.
SendLast(r, msg) ==
  \E after \in {<<>>, <<Whole("error", r)>>} : SendUp(r, <<msg>> \o after, Finished)

\* The local server has answered: the answer, or its first chunk, is sent.
Answer(r) ==
  /\ work[r].state = "local"
  /\ \/ SendLast(r, Whole("answer", r))
     \/ \E n \in 2..MaxTotal :
          SendUp(r, <<Chunk(r, n, 0)>>,
                 [state |-> "sending", conn |-> work[r].conn, total |-> n, next |-> 1])

\* Mutant: the task does not stop after the last chunk.
NextChunk_GoesOn(r) ==
  /\ work[r].state = "sending"
  /\ SendUp(r, <<Chunk(r, work[r].total, work[r].next)>>, [work[r] EXCEPT !.next = @ + 1])

NextChunk(r) ==
  /\ work[r].state = "sending"
  /\ LET msg == Chunk(r, work[r].total, work[r].next) IN
       IF work[r].next + 1 = work[r].total
       THEN SendLast(r, msg)
       ELSE SendUp(r, <<msg>>, [work[r] EXCEPT !.next = @ + 1])

\* The local server cannot be reached, or 30 seconds are over, which may
\* happen between two chunks.
AnswerFails(r) ==
  /\ work[r].state \in {"local", "sending"}
  /\ SendUp(r, <<Whole("error", r)>>, Finished)

Cut(t) ==
  /\ cuts < MaxCuts
  /\ srvOpen[t] /\ hostOpen[t] /\ ~cut[t]
  /\ cuts' = cuts + 1
  /\ cut' = [cut EXCEPT ![t] = TRUE]
  /\ down' = [down EXCEPT ![t] = <<>>] /\ up' = [up EXCEPT ![t] = <<>>]
  /\ UNCHANGED <<serverVars, callerVars, hostVars, srvOpen, hostOpen>>

-----------------------------------------------------------------------------
Init ==
  /\ registered = None
  /\ tun = [t \in Conn |-> "unused"] /\ tasks = [t \in Conn |-> {}]
  /\ queue = [t \in Conn |-> <<>>] /\ pending = [t \in Conn |-> {}]
  /\ chunked = [t \in Conn |-> [r \in Req |-> Absent]]
  /\ caller = [r \in Req |-> "idle"] /\ via = [r \in Req |-> None]
  /\ fut = [r \in Req |-> "none"]
  /\ client = None
  /\ work = [r \in Req |-> NoWork] /\ runs = [r \in Req |-> 0]
  /\ down = [t \in Conn |-> <<>>] /\ up = [t \in Conn |-> <<>>]
  /\ srvOpen = [t \in Conn |-> FALSE] /\ hostOpen = [t \in Conn |-> FALSE]
  /\ cut = [t \in Conn |-> FALSE] /\ cuts = 0

CallerStep(r) == Pick(r) \/ Issue(r) \/ Return(r) \/ Timeout(r)

ServerStep(t) ==
  Register(t) \/ RegisterFails(t) \/ Write(t) \/ WriteFails(t)
    \/ Read(t) \/ ReadFails(t) \/ RunEnds(t)

WorkStep(r) == Answer(r) \/ NextChunk(r) \/ AnswerFails(r)

Next ==
  \/ \E r \in Req : CallerStep(r) \/ WorkStep(r)
  \/ \E t \in Conn : ServerStep(t) \/ Connect(t) \/ Take(t) \/ Cut(t)
  \/ Leave

Spec == Init /\ [][Next]_vars

\* The server runs every task that can go on, and notices a dead connection.
\* No browser, local server or host has to go on, and the timeout is not counted on.
FairSpec ==
  /\ Spec
  /\ \A t \in Conn : WF_vars(ServerStep(t))
  /\ \A r \in Req : WF_vars(Return(r))

-----------------------------------------------------------------------------
Futures == {"none", "pending", "answer", "error", "torn", "lost", "cancelled"}
Callers == {"idle", "body", "waiting", "answer", "error", "torn", "lost", "timeout", "refused"}
Message == [kind : {"answer", "error", "start", "chunk"}, req : Req,
            total : 1..MaxTotal, index : 0..MaxTotal]

\* Every variable has a value of its type; a caller that has picked a tunnel,
\* and a task of the client, know their connection.
TypeOK ==
  /\ registered \in Conn \cup {None}
  /\ tun \in [Conn -> {"unused", "accepted", "running", "ended"}]
  /\ tasks \in [Conn -> SUBSET {"reader", "writer"}]
  /\ queue \in [Conn -> Seq(Req)] /\ pending \in [Conn -> SUBSET Req]
  /\ chunked \in [Conn -> [Req -> [total : 0..MaxTotal, got : SUBSET (0..MaxTotal)]]]
  /\ caller \in [Req -> Callers] /\ via \in [Req -> Conn \cup {None}]
  /\ fut \in [Req -> Futures]
  /\ client \in Conn \cup {None}
  /\ work \in [Req -> [state : {"none", "local", "sending", "done"}, conn : Conn \cup {None},
                       total : 0..MaxTotal, next : 0..MaxTotal]]
  /\ runs \in [Req -> Nat]
  /\ down \in [Conn -> Seq(Req)] /\ up \in [Conn -> Seq(Message)]
  /\ srvOpen \in [Conn -> BOOLEAN] /\ hostOpen \in [Conn -> BOOLEAN]
  /\ cut \in [Conn -> BOOLEAN] /\ cuts \in 0..MaxCuts
  /\ \A r \in Req : caller[r] \in {"body", "waiting"} => via[r] # None
  /\ \A r \in Req : work[r].state \in {"local", "sending"} =>
       /\ work[r].conn # None
       /\ work[r].state = "sending" => work[r].next < work[r].total

\* The host that is shown as online has a tunnel whose tasks still run: with
\* several connections of one host that come and go in any order, the registry
\* never leads a browser to one that has been given up.
OnlineIsLive == registered # None => tun[registered] = "running"

\* A caller left to the 30 s timeout because its tunnel ended while it read the
\* body of its request waits for something the host has never been sent:
\* sending it again elsewhere is safe.
StrandedWasNeverSent ==
  \A r \in Req : fut[r] = "pending" /\ tun[via[r]] = "ended"
                => \E i \in DOMAIN queue[via[r]] : queue[via[r]][i] = r

\* A chunked answer is handed over when all of its chunks are there, even when
\* the chunks of several answers, and errors after half an answer, interleave.
WholeAnswers == \A r \in Req : fut[r] # "torn"

\* Requests of browsers are at-most-once calls of the local server, and an
\* answer (an error of the client included) means that it was asked.
Status(r) == CASE caller[r] \in {"idle", "body"}           -> "idle"
               [] caller[r] = "waiting"                    -> "waiting"
               [] caller[r] \in {"answer", "error", "torn"} -> "answered"
               [] OTHER                                    -> "failed"

Abstract == INSTANCE AtMostOnceCalls
              WITH Msg <- Req, status <- [r \in Req |-> Status(r)]

AtMostOnce == Abstract!Calls

\* Once the client has dealt with a request its caller is told, by the answer
\* or by the loss of the tunnel, without waiting for the 30 seconds.
ToldOnceDone ==
  \A r \in Req : (caller[r] = "waiting" /\ work[r].state = "done") ~> caller[r] # "waiting"

-----------------------------------------------------------------------------
(* Promises of the source's own comments                                   *)

\* "All subsequent user traffic for that host is relayed through this tunnel":
\* the connection the host uses is the registered one sooner or later, or the
\* host has left it or lost it.
Relayed ==
  \A t \in Conn : client = t ~> (registered = t \/ client # t \/ cut[t])

=============================================================================
