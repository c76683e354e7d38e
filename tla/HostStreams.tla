---------------------------- MODULE HostStreams ----------------------------
(***************************************************************************)
(* WebSockets of browsers that the access server relays to a host          *)
(* (ws_proxy and HostTunnel.run in hort/access/server.py,                  *)
(* hort/access/tunnel_client.py).  The server gives each an id and         *)
(* forwards its data in the order it came; the client of the host makes a  *)
(* task of every message, so that data or a close can be handled while the *)
(* task of the open still connects to the local server.  HTTP requests     *)
(* through the same tunnel are in HostTunnel.                              *)
(***************************************************************************)
EXTENDS Naturals, Sequences

CONSTANTS
  Stream,     \* WebSockets of browsers: a ws_id is random
  MaxData,    \* bound: messages each end of a stream sends
  PromptOpen  \* does a local connection open before the next message comes?

\* What the constants have to be.
HostStreamsAssumption == MaxData \in Nat /\ PromptOpen \in BOOLEAN

VARIABLES
  tunnel,   \* the tunnel is up
  browser,  \* [Stream -> "new", "open" or "gone"]
  clients,  \* _ws_clients of the HostTunnel
  down, up, \* messages under way to the host, to the server
  opening,  \* streams whose _handle_ws_open awaits the connection
  table,    \* _local_ws_connections of the TunnelClient
  forward,  \* streams whose forward() is running
  local,    \* [Stream -> "none", "open" or "closed": the connection to the local server]
  sent,     \* [Stream -> data its browser has sent]
  answered, \* [Stream -> data its local connection has sent]
  atLocal, atBrowser \* [Stream -> data received]

serverVars == <<browser, clients>>
hostVars   == <<opening, table, forward, local>>
dataVars   == <<sent, answered, atLocal, atBrowser>>
vars       == <<tunnel, serverVars, hostVars, dataVars, down, up>>

Msg(type, s, n) == [type |-> type, ws |-> s, n |-> n]
Under(wire, s) == {i \in DOMAIN wire : wire[i].type = "data" /\ wire[i].ws = s}
Way(wire, m) == IF tunnel THEN Append(wire, m) ELSE wire

-----------------------------------------------------------------------------
(* Access server                                                           *)

\* ws_proxy, up to client_to_host
Connect(s) ==
  /\ tunnel /\ browser[s] = "new"
  /\ browser' = [browser EXCEPT ![s] = "open"]
  /\ clients' = clients \cup {s}
  /\ down' = Way(down, Msg("open", s, 0))
  /\ UNCHANGED <<tunnel, up, hostVars, dataVars>>

BrowserSends(s) ==
  /\ browser[s] = "open" /\ sent[s] < MaxData
  /\ sent' = [sent EXCEPT ![s] = @ + 1]
  /\ down' = Way(down, Msg("data", s, sent[s] + 1))
  /\ UNCHANGED <<tunnel, serverVars, up, hostVars, answered, atLocal, atBrowser>>

\* client_to_host ends
BrowserGoes(s) ==
  /\ browser[s] = "open"
  /\ browser' = [browser EXCEPT ![s] = "gone"]
  /\ clients' = clients \ {s}
  /\ down' = Way(down, Msg("close", s, 0))
  /\ UNCHANGED <<tunnel, up, hostVars, dataVars>>

\* reader() of HostTunnel.run: the host never sends ws_close.
ServerReads ==
  /\ up # <<>> /\ up' = Tail(up)
  /\ LET m == Head(up) IN
       atBrowser' = IF m.ws \in clients THEN [atBrowser EXCEPT ![m.ws] = Append(@, m.n)] ELSE atBrowser
  /\ UNCHANGED <<tunnel, serverVars, down, hostVars, sent, answered, atLocal>>

-----------------------------------------------------------------------------
(* Tunnel client of the host                                               *)

\* Mutant: the client has one local connection, the one opened last.
Target_Only(s) == IF table = {} THEN s ELSE CHOOSE t \in table : TRUE

Target(s) == s

\* The task of a message, up to its first await
HostReads ==
  /\ down # <<>> /\ (PromptOpen => opening = {})
  /\ down' = Tail(down)
  /\ LET m == Head(down) t == Target(m.ws) IN
     \/ /\ m.type = "open"
        /\ opening' = opening \cup {m.ws}
        /\ UNCHANGED <<table, forward, local, atLocal>>
     \/ /\ m.type = "data"
        /\ atLocal' = IF t \in table /\ local[t] = "open" THEN [atLocal EXCEPT ![t] = Append(@, m.n)] ELSE atLocal
        /\ UNCHANGED <<opening, table, forward, local>>
     \/ /\ m.type = "close"
        /\ table' = table \ {m.ws}
        /\ local' = IF m.ws \in table THEN [local EXCEPT ![m.ws] = "closed"] ELSE local
        /\ UNCHANGED <<opening, forward, atLocal>>
  /\ UNCHANGED <<tunnel, serverVars, up, sent, answered, atBrowser>>

\* websockets.connect returns
Opened(s) ==
  /\ s \in opening /\ opening' = opening \ {s}
  /\ local' = [local EXCEPT ![s] = "open"]
  /\ table' = table \cup {s} /\ forward' = forward \cup {s}
  /\ UNCHANGED <<tunnel, serverVars, down, up, dataVars>>

\* ... or raises, of which the browser is not told
OpenFails(s) ==
  /\ s \in opening /\ opening' = opening \ {s}
  /\ local' = [local EXCEPT ![s] = "closed"]
  /\ UNCHANGED <<tunnel, serverVars, down, up, table, forward, dataVars>>

\* forward(): text and frames of the local server.  When the tunnel has gone
\* the send raises, and the stream is forgotten without being closed.
Forward(s) ==
  /\ s \in forward /\ local[s] = "open" /\ answered[s] < MaxData
  /\ answered' = [answered EXCEPT ![s] = @ + 1]
  /\ up' = Way(up, Msg("data", s, answered[s] + 1))
  /\ IF tunnel THEN UNCHANGED <<table, forward>>
     ELSE table' = table \ {s} /\ forward' = forward \ {s}
  /\ UNCHANGED <<tunnel, serverVars, down, opening, local, sent, atLocal, atBrowser>>

\* The local server closes the connection: the browser is not told either.
LocalCloses(s) ==
  /\ local[s] = "open" /\ local' = [local EXCEPT ![s] = "closed"]
  /\ UNCHANGED <<tunnel, serverVars, down, up, opening, table, forward, dataVars>>

ForwardEnds(s) ==
  /\ s \in forward /\ local[s] = "closed"
  /\ forward' = forward \ {s} /\ table' = table \ {s}
  /\ UNCHANGED <<tunnel, serverVars, down, up, opening, local, dataVars>>

\* The tunnel is lost: TunnelClient.run connects again, as another HostTunnel
\* (HostTunnel); the streams of this one go nowhere and their browsers wait.
Lose ==
  /\ tunnel /\ tunnel' = FALSE
  /\ down' = <<>> /\ up' = <<>>
  /\ UNCHANGED <<serverVars, hostVars, dataVars>>

-----------------------------------------------------------------------------
Init ==
  /\ tunnel = TRUE /\ browser = [s \in Stream |-> "new"] /\ clients = {}
  /\ down = <<>> /\ up = <<>> /\ opening = {} /\ table = {} /\ forward = {}
  /\ local = [s \in Stream |-> "none"]
  /\ sent = [s \in Stream |-> 0] /\ answered = [s \in Stream |-> 0]
  /\ atLocal = [s \in Stream |-> <<>>] /\ atBrowser = [s \in Stream |-> <<>>]

Next ==
  \/ \E s \in Stream : \/ Connect(s) \/ BrowserSends(s) \/ BrowserGoes(s)
                       \/ Opened(s) \/ OpenFails(s) \/ Forward(s) \/ LocalCloses(s) \/ ForwardEnds(s)
  \/ ServerReads \/ HostReads \/ Lose

Spec == Init /\ [][Next]_vars

-----------------------------------------------------------------------------
\* Browser, tunnel and local end of each stream are in one of their phases.
StreamsTypeOK ==
  /\ tunnel \in BOOLEAN /\ browser \in [Stream -> {"new", "open", "gone"}]
  /\ clients \cup opening \cup table \cup forward \subseteq Stream
  /\ local \in [Stream -> {"none", "open", "closed"}]
  /\ sent \in [Stream -> 0..MaxData] /\ answered \in [Stream -> 0..MaxData]

\* What has been received of a stream is the first that was sent; the rest is under
\* way, each once and in order.
Whole(got, wire, s, n) ==
  /\ got[s] = [i \in 1..Len(got[s]) |-> i]
  /\ {wire[i].n : i \in Under(wire, s)} = Len(got[s]) + 1..n[s]
  /\ \A i, j \in Under(wire, s) : i < j => wire[i].n < wire[j].n

\* While the tunnel is up, each end of a stream gets what the other has sent,
\* in order, of this stream only, and a stream that its browser has left is
\* closed at the host.  It needs local connections to be open before the next
\* message comes: a close that overtakes its open finds nothing to close, and
\* data that does is dropped.
StreamsWhole ==
  tunnel => \A s \in Stream :
    /\ browser[s] = "open" => Whole(atBrowser, up, s, answered)
    /\ local[s] = "open" => Whole(atLocal, down, s, sent)
    /\ browser[s] = "gone" /\ (\A i \in DOMAIN down : down[i].ws # s) => s \in opening \/ local[s] # "open"

=============================================================================
