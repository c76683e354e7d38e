------------------------------ MODULE SseProxy ------------------------------
(***************************************************************************)
(* An MCP server that speaks over its standard input and output, offered   *)
(* to several clients over HTTP (hort/sandbox/mcp_proxy.py): a client      *)
(* opens an event stream and posts requests, the proxy writes them to the  *)
(* process and routes each answer to the stream of the client that asked.  *)
(* ProxyManager runs one proxy per configured server on a loop of its own. *)
(* A filter (hort/sandbox/mcp.py) hides tools and refuses calls of them.   *)
(***************************************************************************)
EXTENDS Naturals, Sequences, FiniteSets, Functions

CONSTANTS
  Client,   \* event streams, each opened once: a session id is a fresh UUID
  Id,       \* JSON-RPC ids
  Uses,     \* [Client -> the ids it gives to its requests]
  Tool,     \* tools of the server
  Allow, Deny, \* the filter: sets of tools
  None

\* What the constants have to be.
SseProxyAssumption ==
  /\ Uses \in [Client -> SUBSET Id] /\ None \notin Client
  /\ Allow \subseteq Tool /\ Deny \subseteq Tool

VARIABLES
  up,       \* "off", "up", "stopping", "down"
  process,  \* the MCP server: "off", "running", "ended"
  reader,   \* _read_mcp_stdout is running
  stream,   \* [Client -> "new", "open" or "closed"]
  queue,    \* [Client -> _sse_queues]
  asked,    \* _pending_requests: [Id -> client or None]
  stdin,    \* requests written to the process and not answered
  stdout,   \* answers it has written, in order
  posted,   \* [Client -> ids it has posted]
  got       \* [Client -> events it has received]

vars == <<up, process, reader, stream, queue, asked, stdin, stdout, posted, got>>

Request(c, i, t) == [client |-> c, id |-> i, tool |-> t]
Answer(r, tools) == [client |-> r.client, id |-> r.id, tools |-> tools]
End == [client |-> None, id |-> None, tools |-> {}]   \* the None that ends a stream

Open == {c \in Client : stream[c] = "open"}

-----------------------------------------------------------------------------
(* Filtering                                                               *)

IsToolAllowed(t) == t \in Allow /\ t \notin Deny

FilterToolsList(tools) == {t \in tools : IsToolAllowed(t)}

-----------------------------------------------------------------------------
(* ProxyManager and McpSseProxy                                            *)

Start ==
  /\ up = "off"
  /\ up' = "up" /\ process' = "running" /\ reader' = TRUE
  /\ UNCHANGED <<stream, queue, asked, stdin, stdout, posted, got>>

\* _handle_sse, up to its first queue.get()
OpenStream(c) ==
  /\ up = "up" /\ stream[c] = "new"
  /\ stream' = [stream EXCEPT ![c] = "open"]
  /\ UNCHANGED <<up, process, reader, queue, asked, stdin, stdout, posted, got>>

\* _handle_sse: the next event, or the end of the stream
Event(c) ==
  /\ stream[c] = "open" /\ queue[c] # <<>>
  /\ queue' = [queue EXCEPT ![c] = Tail(@)]
  /\ IF Head(queue[c]) = End
     THEN stream' = [stream EXCEPT ![c] = "closed"] /\ UNCHANGED got
     ELSE got' = [got EXCEPT ![c] = @ \cup {Head(queue[c])}] /\ UNCHANGED stream
  /\ UNCHANGED <<up, process, reader, asked, stdin, stdout, posted>>

\* The client has gone: noticed by the write of the next event.
Leave(c) ==
  /\ stream[c] = "open" /\ queue[c] # <<>>
  /\ stream' = [stream EXCEPT ![c] = "closed"]
  /\ UNCHANGED <<up, process, reader, queue, asked, stdin, stdout, posted, got>>

\* Mutant: only the latest request is remembered.
Asked_Latest(i, c) == [j \in Id |-> IF j = i THEN c ELSE None]

Asked(i, c) == [asked EXCEPT ![i] = c]

\* _handle_message: a call of a blocked tool is answered at once, another
\* request goes to the process.  None is a tools/list request.
Post(c, i, t) ==
  /\ up = "up" /\ stream[c] # "new" /\ i \in Uses[c] \ posted[c]
  /\ posted' = [posted EXCEPT ![c] = @ \cup {i}]
  /\ IF t # None /\ ~IsToolAllowed(t)
     THEN /\ queue' = IF c \in Open
                      THEN [queue EXCEPT ![c] = Append(@, Answer(Request(c, i, t), {}))]
                      ELSE queue
          /\ UNCHANGED <<asked, stdin>>
     ELSE /\ asked' = Asked(i, c)
          /\ stdin' = IF process = "running" THEN stdin \cup {Request(c, i, t)} ELSE stdin
          /\ UNCHANGED queue
  /\ UNCHANGED <<up, process, reader, stream, stdout, got>>

\* The server answers a request, in whatever order.
Serve(r) ==
  /\ process = "running" /\ r \in stdin
  /\ stdin' = stdin \ {r}
  /\ stdout' = Append(stdout, Answer(r, IF r.tool = None THEN Tool ELSE {r.tool}))
  /\ UNCHANGED <<up, process, reader, stream, queue, asked, posted, got>>

\* To the client that asked; to everybody if that is not known or it has gone.
Recipients(i) == IF asked[i] \in Open THEN {asked[i]} ELSE Open

ReadStdout ==
  /\ reader /\ stdout # <<>>
  /\ LET a == Head(stdout)
         m == [a EXCEPT !.tools = FilterToolsList(@)]
     IN /\ queue' = [c \in Client |-> IF c \in Recipients(a.id) THEN Append(queue[c], m) ELSE queue[c]]
        /\ asked' = [asked EXCEPT ![a.id] = None]
  /\ stdout' = Tail(stdout)
  /\ UNCHANGED <<up, process, reader, stream, stdin, posted, got>>

\* The reader ends with the process and ends every stream that is open.
ReaderEnds ==
  /\ reader /\ stdout = <<>> /\ process = "ended"
  /\ reader' = FALSE
  /\ queue' = [c \in Client |-> IF c \in Open THEN Append(queue[c], End) ELSE queue[c]]
  /\ UNCHANGED <<up, process, stream, asked, stdin, stdout, posted, got>>

ProcessEnds ==
  /\ process = "running" /\ process' = "ended" /\ stdin' = {}
  /\ UNCHANGED <<up, reader, stream, queue, asked, stdout, posted, got>>

\* McpSseProxy.stop: the streams are ended, the server is closed, ...
StopServer ==
  /\ up = "up" /\ up' = "stopping"
  /\ queue' = [c \in Client |-> IF c \in Open THEN Append(queue[c], End) ELSE queue[c]]
  /\ UNCHANGED <<process, reader, stream, asked, stdin, stdout, posted, got>>

\* ... the process is terminated (killed after 5 seconds) and the reader
\* cancelled; its last act is to end the streams once more.
StopProcess ==
  /\ up = "stopping" /\ up' = "down"
  /\ process' = "ended" /\ stdin' = {} /\ reader' = FALSE
  /\ queue' = [c \in Client |-> IF c \in Open /\ reader THEN Append(queue[c], End) ELSE queue[c]]
  /\ UNCHANGED <<stream, asked, stdout, posted, got>>

-----------------------------------------------------------------------------
Init ==
  /\ up = "off" /\ process = "off" /\ reader = FALSE
  /\ stream = [c \in Client |-> "new"] /\ queue = [c \in Client |-> <<>>]
  /\ asked = [i \in Id |-> None] /\ stdin = {} /\ stdout = <<>>
  /\ posted = [c \in Client |-> {}] /\ got = [c \in Client |-> {}]

Next ==
  \/ \E c \in Client : OpenStream(c) \/ Event(c) \/ Leave(c)
  \/ \E c \in Client, i \in Id, t \in Tool \cup {None} : Post(c, i, t)
  \/ \E r \in stdin : Serve(r)
  \/ Start \/ ReadStdout \/ ReaderEnds \/ ProcessEnds \/ StopServer \/ StopProcess

Spec == Init /\ [][Next]_vars

-----------------------------------------------------------------------------
\* Proxy, process and clients are in one of their phases.
SseTypeOK ==
  /\ up \in {"off", "up", "stopping", "down"} /\ process \in {"off", "running", "ended"}
  /\ reader \in BOOLEAN /\ stream \in [Client -> {"new", "open", "closed"}]
  /\ asked \in [Id -> Client \cup {None}] /\ posted \in [Client -> SUBSET Id]

\* As long as no stream has closed and the clients use different ids, a stream
\* carries only answers to requests of its own client, with no blocked tool in
\* them, however the requests and the answers interleave.
OwnAnswers ==
  (\A c \in Client : stream[c] # "closed") =>
    \A c \in Client : \A a \in got[c] \cup (Range(queue[c]) \ {End}) :
      a.client = c /\ \A t \in a.tools : IsToolAllowed(t)

=============================================================================
