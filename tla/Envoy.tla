------------------------------- MODULE Envoy -------------------------------
(***************************************************************************)
(* The envoy: an MCP server inside a container (hort/envoy/server.py) whose *)
(* dynamic tools run on the host (hort/envoy/client.py), and the control   *)
(* channel between the two.  MCP clients call tools through the envoy; the *)
(* host may in turn call tools of the container.                           *)
(*                                                                         *)
(* Both ends handle a message inside the loop that reads the next one.     *)
(* An action is the code between two awaits.  The channel is TCP: in       *)
(* order, and what was written before a close is still read.               *)
(***************************************************************************)
EXTENDS Naturals, Sequences, FiniteSets

CONSTANTS
  Conn,   \* connections of the host, each used once
  Call,   \* tool calls that go to the host: of MCP clients, ...
  Local,  \* ... and calls of the host to tools of the container
  Nested, \* [Local -> the call to the host it amounts to, or None]: the
          \* container has no such tool of its own, and _execute_tool forwards it
  None

\* What the constants have to be.
EnvoyAssumption ==
  /\ None \notin Conn \cup Call \cup Local \cup {"line", "ended", "pending", "answer"}
  /\ {"line", "ended"} \cap (Call \cup Local) = {}
  /\ Nested \in [Local -> Call \cup {None}]

VARIABLES
  ctl,     \* _control_writer of the envoy
  tools,   \* _dynamic_tools: are there any?
  handler, \* [Conn -> what _handle_control_connection awaits: None, "line",
           \*  "ended" or the local call it is in]
  caller,  \* [Call -> where _call_host_tool is, or how it ended]
  fut,     \* [Call -> its future, None when _pending_calls has no entry]
  toHost, toEnvoy, \* [Conn -> lines under way]
  client,  \* EnvoyClient: its connection
  listen,  \* [Conn -> what its _listen awaits: None, "line", "ended" or a call]
  ran,     \* [Call -> how often the host's tool handler was called]
  local,   \* [Local -> where call_local_tool is, or how it ended]
  shut     \* [Conn -> ends that are closed]

envoyVars == <<ctl, tools, handler, caller, fut>>
hostVars  == <<client, listen, ran, local>>
wireVars  == <<toHost, toEnvoy, shut>>
vars      == <<envoyVars, hostVars, wireVars>>

Line(type, id) == [type |-> type, id |-> id]
Sent(wire, k, m) == IF k = None \/ shut[k] # {} THEN wire ELSE [wire EXCEPT ![k] = Append(@, m)]

-----------------------------------------------------------------------------
(* EnvoyServer: tool calls                                                 *)

\* _execute_tool of a dynamic tool, on behalf of an MCP client
Invoke(c) ==
  /\ caller[c] = "idle" /\ \A l \in Local : Nested[l] # c
  /\ tools
  /\ IF ctl = None
     THEN caller' = [caller EXCEPT ![c] = "refused"] /\ UNCHANGED <<fut, toHost>>
     ELSE /\ caller' = [caller EXCEPT ![c] = "waiting"]
          /\ fut' = [fut EXCEPT ![c] = "pending"]
          /\ toHost' = Sent(toHost, ctl, Line("tool_call", c))
  /\ UNCHANGED <<ctl, tools, handler, hostVars, toEnvoy, shut>>

\* drain() raises: the connection has gone and nobody has noticed.
InvokeFails(c) ==
  /\ caller[c] = "idle" /\ \A l \in Local : Nested[l] # c
  /\ tools /\ ctl # None /\ shut[ctl] # {}
  /\ caller' = [caller EXCEPT ![c] = "refused"]
  /\ UNCHANGED <<ctl, tools, handler, fut, hostVars, wireVars>>

Answered(c) ==
  /\ caller[c] = "waiting" /\ fut[c] = "answer"
  /\ caller' = [caller EXCEPT ![c] = "answer"]
  /\ fut' = [fut EXCEPT ![c] = None]
  /\ UNCHANGED <<ctl, tools, handler, hostVars, wireVars>>

\* Mutant: the future of a call that has timed out stays in _pending_calls.
TimedOut_Kept(c) ==
  /\ caller[c] = "waiting" /\ fut[c] = "pending"
  /\ caller' = [caller EXCEPT ![c] = "timeout"]
  /\ UNCHANGED <<ctl, tools, handler, fut, hostVars, wireVars>>

\* 60 seconds, whatever has become of the host
TimedOut(c) ==
  /\ caller[c] = "waiting" /\ fut[c] = "pending"
  /\ caller' = [caller EXCEPT ![c] = "timeout"]
  /\ fut' = [fut EXCEPT ![c] = None]
  /\ UNCHANGED <<ctl, tools, handler, hostVars, wireVars>>

-----------------------------------------------------------------------------
(* EnvoyServer: the control channel                                        *)

Accept(k) ==
  /\ handler[k] = None /\ listen[k] # None
  /\ handler' = [handler EXCEPT ![k] = "line"]
  /\ ctl' = k
  /\ UNCHANGED <<tools, caller, fut, hostVars, wireVars>>

\* Mutant: the result also answers calls that wait for another one.
Settled_Any(c) == [d \in Call |-> IF fut[d] = "pending" THEN "answer" ELSE fut[d]]

\* The result of a call that is still waited for; another one is dropped.
Settled(c) == [fut EXCEPT ![c] = IF @ = "pending" THEN "answer" ELSE @]

\* Mutant: a call of the host gets a task of its own.
Awaits_Next(l) == "line"

\* _handle_control_connection awaits the tool before it reads on.
Awaits(l) == l

\* _handle_control_message, up to its first await
EnvoyReads(k) ==
  /\ handler[k] = "line" /\ toEnvoy[k] # <<>>
  /\ toEnvoy' = [toEnvoy EXCEPT ![k] = Tail(@)]
  /\ LET m == Head(toEnvoy[k])
         c == IF m.type = "call_local_tool" THEN Nested[m.id] ELSE None
     IN CASE m.type = "register_tools" ->
               tools' = TRUE /\ UNCHANGED <<handler, caller, fut, toHost>>
          [] m.type = "tool_result" ->
               fut' = Settled(m.id) /\ UNCHANGED <<tools, handler, caller, toHost>>
          [] m.type = "call_local_tool" ->
               /\ handler' = [handler EXCEPT ![k] = Awaits(m.id)]
               /\ IF c # None /\ tools /\ ctl # None /\ caller[c] = "idle"
                  THEN /\ caller' = [caller EXCEPT ![c] = "waiting"]
                       /\ fut' = [fut EXCEPT ![c] = "pending"]
                       /\ toHost' = Sent(toHost, ctl, Line("tool_call", c))
                  ELSE UNCHANGED <<caller, fut, toHost>>
               /\ UNCHANGED tools
  /\ UNCHANGED <<ctl, hostVars, shut>>

\* The tool of the container has returned: its result goes to the host that is
\* connected now.
LocalReturns(k) ==
  LET l == handler[k] IN
  /\ l \in Local
  /\ Nested[l] # None => caller[Nested[l]] # "waiting"
  /\ handler' = [handler EXCEPT ![k] = "line"]
  /\ toHost' = Sent(toHost, ctl, Line("local_tool_result", l))
  /\ UNCHANGED <<ctl, tools, caller, fut, hostVars, toEnvoy, shut>>

\* End of file: whoever is connected now, nobody is afterwards, and the calls
\* that wait for this host go on waiting.
HandlerEnds(k) ==
  /\ handler[k] = "line" /\ toEnvoy[k] = <<>> /\ "host" \in shut[k]
  /\ handler' = [handler EXCEPT ![k] = "ended"]
  /\ shut' = [shut EXCEPT ![k] = @ \cup {"envoy"}]
  /\ ctl' = None
  /\ UNCHANGED <<tools, caller, fut, hostVars, toHost, toEnvoy>>

-----------------------------------------------------------------------------
(* EnvoyClient                                                             *)

\* connect() and register_tools()
Connect(k) ==
  /\ client = None /\ listen[k] = None
  /\ client' = k
  /\ listen' = [listen EXCEPT ![k] = "line"]
  /\ toEnvoy' = [toEnvoy EXCEPT ![k] = <<Line("register_tools", None)>>]
  /\ UNCHANGED <<envoyVars, ran, local, toHost, shut>>

\* disconnect(): the listen task is cancelled, with the tool call it is in.
Disconnect ==
  /\ client # None
  /\ client' = None
  /\ listen' = [listen EXCEPT ![client] = "ended"]
  /\ shut' = [shut EXCEPT ![client] = @ \cup {"host"}]
  /\ UNCHANGED <<envoyVars, ran, local, toHost, toEnvoy>>

\* _handle_message: the tool handler is awaited in the listen loop.
HostReads(k) ==
  /\ listen[k] = "line" /\ toHost[k] # <<>>
  /\ toHost' = [toHost EXCEPT ![k] = Tail(@)]
  /\ LET m == Head(toHost[k])
     IN IF m.type = "tool_call"
        THEN /\ ran' = [ran EXCEPT ![m.id] = @ + 1]
             /\ listen' = [listen EXCEPT ![k] = m.id]
             /\ UNCHANGED local
        ELSE /\ local' = [local EXCEPT ![m.id] = IF @ = "waiting" THEN "answer" ELSE @]
             /\ UNCHANGED <<ran, listen>>
  /\ UNCHANGED <<envoyVars, client, toEnvoy, shut>>

ToolReturns(k) ==
  /\ listen[k] \in Call
  /\ listen' = [listen EXCEPT ![k] = "line"]
  /\ toEnvoy' = Sent(toEnvoy, client, Line("tool_result", listen[k]))
  /\ UNCHANGED <<envoyVars, client, ran, local, toHost, shut>>

CallLocal(l) ==
  /\ client # None /\ local[l] = "idle"
  /\ local' = [local EXCEPT ![l] = "waiting"]
  /\ toEnvoy' = Sent(toEnvoy, client, Line("call_local_tool", l))
  /\ UNCHANGED <<envoyVars, client, listen, ran, toHost, shut>>

LocalTimesOut(l) ==
  /\ local[l] = "waiting"
  /\ local' = [local EXCEPT ![l] = "timeout"]
  /\ UNCHANGED <<envoyVars, client, listen, ran, wireVars>>

-----------------------------------------------------------------------------
Init ==
  /\ ctl = None /\ tools = FALSE /\ client = None
  /\ handler = [k \in Conn |-> None] /\ listen = [k \in Conn |-> None]
  /\ caller = [c \in Call |-> "idle"] /\ fut = [c \in Call |-> None]
  /\ ran = [c \in Call |-> 0] /\ local = [l \in Local |-> "idle"]
  /\ toHost = [k \in Conn |-> <<>>] /\ toEnvoy = [k \in Conn |-> <<>>]
  /\ shut = [k \in Conn |-> {}]

Next ==
  \/ \E c \in Call : Invoke(c) \/ InvokeFails(c) \/ Answered(c) \/ TimedOut(c)
  \/ \E k \in Conn : \/ Accept(k) \/ EnvoyReads(k) \/ LocalReturns(k) \/ HandlerEnds(k)
                     \/ Connect(k) \/ HostReads(k) \/ ToolReturns(k)
  \/ \E l \in Local : CallLocal(l) \/ LocalTimesOut(l)
  \/ Disconnect

Spec == Init /\ [][Next]_vars

-----------------------------------------------------------------------------
\* The state has its shape; a call that waits has a future.
EnvoyTypeOK ==
  /\ ctl \in Conn \cup {None} /\ client \in Conn \cup {None} /\ tools \in BOOLEAN
  /\ handler \in [Conn -> {None, "line", "ended"} \cup Local]
  /\ listen \in [Conn -> {None, "line", "ended"} \cup Call]
  /\ caller \in [Call -> {"idle", "waiting", "answer", "timeout", "refused"}]
  /\ \A c \in Call : fut[c] \in {None, "pending", "answer"} /\ (fut[c] # None <=> caller[c] = "waiting")
  /\ local \in [Local -> {"idle", "waiting", "answer", "timeout"}]

Status(c) == CASE caller[c] \in {"timeout", "refused"} -> "failed"
               [] caller[c] = "answer" -> "answered"
               [] OTHER -> caller[c]

Calls == INSTANCE AtMostOnceCalls WITH Msg <- Call, status <- [c \in Call |-> Status(c)], runs <- ran

CallsSeen == <<[c \in Call |-> Status(c)], ran>>

\* A tool call through the envoy is a call that runs at most once: over
\* reconnections of the host, results that come after the 60 seconds, and calls
\* in both directions at once, an answer is that of a run of this call.
ToolsRunAtMostOnce == Calls!Calls

\* A tool that the host asks the container for and that is the host's own is
\* waited for by the loop that would read its result: while the channel stays
\* up the host gets an answer only after the call itself has timed out.
OwnToolsTimeOut ==
  \A l \in Local : Nested[l] # None /\ caller[Nested[l]] = "answer" => \E k \in Conn : shut[k] # {}

=============================================================================
