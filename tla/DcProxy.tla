------------------------------ MODULE DcProxy ------------------------------
(***************************************************************************)
(* HTTP requests and WebSockets of a remote viewer over one WebRTC data    *)
(* channel (hort/peer2peer/dc_proxy.py on the host).  The channel keeps    *)
(* the order; every message is handled by a task of its own, an open and a *)
(* request by another one.  Text of a local WebSocket is sent as it comes; *)
(* of its binary frames only the latest waits to be sent.                  *)
(***************************************************************************)
EXTENDS Naturals, Sequences, FiniteSets

CONSTANTS
  Stream,   \* ids of WebSockets, each used once by the viewer
  Req,      \* ids of HTTP requests
  MaxData   \* bound: texts and frames of a local WebSocket, texts of the viewer

\* What the constants have to be.
DcProxyAssumption == MaxData \in Nat

VARIABLES
  http,     \* "none", "open" or "closed": _http_client
  request,  \* [Req -> "new", "asked", "waiting", "answered", "lost"]
  asked,    \* [Stream -> "new", "open" or "closed": what the viewer has asked for]
  opening,  \* streams whose _handle_ws_open awaits the connection
  table,    \* _ws_connections
  local,    \* [Stream -> "none", "open" or "closed"]
  reading,  \* streams whose _ws_read_loop is running
  slot,     \* [Stream -> the frame in _latest_binary, 0 if none]
  sending,  \* streams whose _sender is running
  texts, frames, \* [Stream -> number of texts and frames the local server has sent]
  typed,    \* [Stream -> number of texts of the viewer]
  heard,    \* [Stream -> texts the local server has received]
  log       \* [Stream -> what the viewer has been sent]

tableVars == <<opening, table, local, reading, slot, sending>>
dataVars  == <<texts, frames, typed, heard, log>>
vars      == <<http, request, asked, tableVars, dataVars>>

Event(type, n) == [type |-> type, n |-> n]
Sends(s, e) == log' = [log EXCEPT ![s] = Append(@, e)]

-----------------------------------------------------------------------------
(* HTTP                                                                    *)

Start ==
  /\ http = "none" /\ http' = "open"
  /\ UNCHANGED <<request, asked, tableVars, dataVars>>

\* _handle_http: before start() the request is dropped without an answer.
HttpRequest(r) ==
  /\ request[r] = "new"
  /\ request' = [request EXCEPT ![r] = IF http = "none" THEN "lost" ELSE "waiting"]
  /\ UNCHANGED <<http, asked, tableVars, dataVars>>

\* The local server's answer, or 502: also when stop() has closed the client
HttpAnswer(r) ==
  /\ request[r] = "waiting"
  /\ request' = [request EXCEPT ![r] = "answered"]
  /\ UNCHANGED <<http, asked, tableVars, dataVars>>

-----------------------------------------------------------------------------
(* WebSockets                                                              *)

WsOpen(s) ==
  /\ asked[s] = "new" /\ asked' = [asked EXCEPT ![s] = "open"]
  /\ opening' = opening \cup {s}
  /\ UNCHANGED <<http, request, table, local, reading, slot, sending, dataVars>>

\* _handle_ws_open goes on: registered, announced, and read
Opened(s) ==
  /\ s \in opening /\ opening' = opening \ {s}
  /\ local' = [local EXCEPT ![s] = "open"] /\ table' = table \cup {s}
  /\ reading' = reading \cup {s} /\ sending' = sending \cup {s}
  /\ Sends(s, Event("ready", 0))
  /\ UNCHANGED <<http, request, asked, slot, texts, frames, typed, heard>>

OpenFails(s) ==
  /\ s \in opening /\ opening' = opening \ {s}
  /\ Sends(s, Event("close", 0))
  /\ UNCHANGED <<http, request, asked, table, local, reading, slot, sending, texts, frames, typed, heard>>

\* _handle_ws_text and _handle_ws_binary: dropped if the stream is not open (yet)
WsText(s) ==
  /\ asked[s] = "open" /\ typed[s] < MaxData
  /\ typed' = [typed EXCEPT ![s] = @ + 1]
  /\ heard' = IF s \in table /\ local[s] = "open" THEN [heard EXCEPT ![s] = Append(@, typed[s] + 1)] ELSE heard
  /\ UNCHANGED <<http, request, asked, tableVars, texts, frames, log>>

\* _handle_ws_close: a stream that is still being opened stays open.
WsClose(s) ==
  /\ asked[s] = "open" /\ asked' = [asked EXCEPT ![s] = "closed"]
  /\ table' = table \ {s}
  /\ local' = IF s \in table THEN [local EXCEPT ![s] = "closed"] ELSE local
  /\ UNCHANGED <<http, request, opening, reading, slot, sending, dataVars>>

\* _ws_read_loop
ReadText(s) ==
  /\ s \in reading /\ local[s] = "open" /\ texts[s] < MaxData
  /\ texts' = [texts EXCEPT ![s] = @ + 1]
  /\ Sends(s, Event("text", texts[s] + 1))
  /\ UNCHANGED <<http, request, asked, tableVars, frames, typed, heard>>

ReadFrame(s) ==
  /\ s \in reading /\ local[s] = "open" /\ frames[s] < MaxData
  /\ frames' = [frames EXCEPT ![s] = @ + 1]
  /\ slot' = [slot EXCEPT ![s] = frames[s] + 1]
  /\ UNCHANGED <<http, request, asked, opening, table, local, reading, sending, texts, typed, heard, log>>

\* _sender
SendFrame(s) ==
  /\ s \in sending /\ slot[s] # 0
  /\ slot' = [slot EXCEPT ![s] = 0]
  /\ Sends(s, Event("frame", slot[s]))
  /\ UNCHANGED <<http, request, asked, opening, table, local, reading, sending, texts, frames, typed, heard>>

LocalCloses(s) ==
  /\ local[s] = "open" /\ local' = [local EXCEPT ![s] = "closed"]
  /\ UNCHANGED <<http, request, asked, opening, table, reading, slot, sending, dataVars>>

\* Mutant: the sender goes on until its next look at _running.
SendersAfter_Running(s) == sending

\* The read loop's last acts: the sender is cancelled before the close is sent.
SendersAfter(s) == sending \ {s}

ReadEnds(s) ==
  /\ s \in reading /\ local[s] = "closed"
  /\ reading' = reading \ {s} /\ table' = table \ {s}
  /\ sending' = SendersAfter(s)
  /\ Sends(s, Event("close", 0))
  /\ UNCHANGED <<http, request, asked, opening, local, slot, texts, frames, typed, heard>>

\* stop(): what is still being opened is not in the table.
Stop ==
  /\ http = "open" /\ http' = "closed"
  /\ table' = {}
  /\ local' = [s \in Stream |-> IF s \in table THEN "closed" ELSE local[s]]
  /\ UNCHANGED <<request, asked, opening, reading, slot, sending, dataVars>>

-----------------------------------------------------------------------------
Init ==
  /\ http = "none" /\ request = [r \in Req |-> "new"] /\ asked = [s \in Stream |-> "new"]
  /\ opening = {} /\ table = {} /\ reading = {} /\ sending = {}
  /\ local = [s \in Stream |-> "none"] /\ slot = [s \in Stream |-> 0]
  /\ texts = [s \in Stream |-> 0] /\ frames = [s \in Stream |-> 0] /\ typed = [s \in Stream |-> 0]
  /\ heard = [s \in Stream |-> <<>>] /\ log = [s \in Stream |-> <<>>]

Next ==
  \/ \E r \in Req : HttpRequest(r) \/ HttpAnswer(r)
  \/ \E s \in Stream : \/ WsOpen(s) \/ Opened(s) \/ OpenFails(s) \/ WsText(s) \/ WsClose(s) \/ ReadText(s)
                       \/ ReadFrame(s) \/ SendFrame(s) \/ LocalCloses(s) \/ ReadEnds(s)
  \/ Start \/ Stop

Spec == Init /\ [][Next]_vars

-----------------------------------------------------------------------------
\* Each stream is in one of its phases, and the channel carries messages of the streams only.
DcTypeOK ==
  /\ http \in {"none", "open", "closed"}
  /\ request \in [Req -> {"new", "waiting", "answered", "lost"}]
  /\ asked \in [Stream -> {"new", "open", "closed"}] /\ local \in [Stream -> {"none", "open", "closed"}]
  /\ opening \cup table \cup reading \cup sending \subseteq Stream
  /\ slot \in [Stream -> 0..MaxData]

At(s, type) == {i \in DOMAIN log[s] : log[s][i].type = type}

\* What a viewer is sent of a stream: it is announced first, texts come
\* completely and in order, frames may be skipped but never go back, and nothing
\* follows the close.
ViewerSeesAStream ==
  \A s \in Stream : log[s] # <<>> =>
    /\ Head(log[s]).type \in {"ready", "close"}
    /\ \A i \in DOMAIN log[s] : log[s][i].type = "close" => i = Len(log[s])
    /\ {log[s][i].n : i \in At(s, "text")} = 1..texts[s]
    /\ \A type \in {"text", "frame"} : \A i, j \in At(s, type) :
         i < j => log[s][i].n < log[s][j].n

=============================================================================
