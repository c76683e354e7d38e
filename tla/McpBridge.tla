------------------------------ MODULE McpBridge ------------------------------
(***************************************************************************)
(* The MCP bridge that a chat's agent talks to (hort/mcp/bridge.py) as a   *)
(* thin proxy of the main server (hort/mcp/proxy_bridge.py): it asks the   *)
(* server which powers its llmings have, gives each a tool name, and sends *)
(* a call to the llming and power that the name stands for.  (The older    *)
(* hort/mcp/server.py loads the llmings itself.)                           *)
(***************************************************************************)
EXTENDS Naturals, FiniteSets

CONSTANTS
  Session,  \* MCP clients: an event stream each
  Llming, Power,
  Unloads,  \* may the main server lose a llming?
  MaxCalls, \* bound: calls of a client
  None

Tool == Llming \X Power
Name == Power \cup Tool   \* a pair stands for "<llming>_<power>"

\* What the constants have to be.  No power has the name that qualifies another.
McpBridgeAssumption ==
  /\ Unloads \in BOOLEAN /\ MaxCalls \in Nat
  /\ IsFiniteSet(Llming) /\ IsFiniteSet(Power) /\ Power \cap Tool = {}

VARIABLES
  live,     \* the tools of the main server
  cache,    \* _tools_cache
  fresh,    \* _cache_time is less than 5 seconds ago
  routing,  \* [Name -> tool or None]
  stream,   \* [Session -> "new", "open" or "closed"]
  known,    \* [Session -> [Name -> the tool it had in the client's list, or None]]
  calls,    \* [Session -> number of calls it has made]
  waiting,  \* [Session -> the call under way: the name and where it goes, or None]
  ran       \* [Session -> pairs of the tool meant and the tool called]

vars == <<live, cache, fresh, routing, stream, known, calls, waiting, ran>>

NoNames == [n \in Name |-> None]

-----------------------------------------------------------------------------
(* Names                                                                   *)

\* Mutant: a name is never qualified, the last llming with the power has it.
NameOf_Plain(tools, t) == t[2]

\* A power that only one llming has is a name of its own.
NameOf(tools, t) == IF Cardinality({u \in tools : u[2] = t[2]}) > 1 THEN t ELSE t[2]

\* get_mcp_tools: the routing of a list of tools
Routing(tools) ==
  [n \in Name |-> IF \E t \in tools : NameOf(tools, t) = n
                  THEN CHOOSE t \in tools : NameOf(tools, t) = n ELSE None]

-----------------------------------------------------------------------------
(* The main server                                                         *)

Load(l, p) ==
  /\ <<l, p>> \notin live
  /\ live' = live \cup {<<l, p>>}
  /\ UNCHANGED <<cache, fresh, routing, stream, known, calls, waiting, ran>>

Unload(l) ==
  /\ Unloads
  /\ live' = {t \in live : t[1] # l}
  /\ live' # live
  /\ UNCHANGED <<cache, fresh, routing, stream, known, calls, waiting, ran>>

FiveSeconds ==
  /\ fresh /\ fresh' = FALSE
  /\ UNCHANGED <<live, cache, routing, stream, known, calls, waiting, ran>>

-----------------------------------------------------------------------------
(* The bridge                                                              *)

\* _refresh_tools: an empty list is never taken from the cache; a failing fetch
\* leaves the cache as it was.
Refresh ==
  IF fresh /\ cache # {} THEN UNCHANGED <<cache, fresh>>
  ELSE \/ cache' = live /\ fresh' = TRUE
       \/ UNCHANGED <<cache, fresh>>

\* The fetch at the start of the bridge, which names no tool
InitialFetch ==
  /\ Refresh
  /\ UNCHANGED <<live, routing, stream, known, calls, waiting, ran>>

OpenStream(s) ==
  /\ stream[s] = "new" /\ stream' = [stream EXCEPT ![s] = "open"]
  /\ UNCHANGED <<live, cache, fresh, routing, known, calls, waiting, ran>>

CloseStream(s) ==
  /\ stream[s] = "open" /\ stream' = [stream EXCEPT ![s] = "closed"]
  /\ UNCHANGED <<live, cache, fresh, routing, known, calls, waiting, ran>>

\* tools/list: the routing is that of the latest list any client was given.
List(s) ==
  /\ stream[s] = "open"
  /\ Refresh
  /\ routing' = Routing(cache')
  /\ known' = [known EXCEPT ![s] = routing']
  /\ UNCHANGED <<live, stream, calls, waiting, ran>>

\* tools/call: the name is looked up when the call comes in; a name that is not
\* there, before any list too, is an error.
Call(s, n) ==
  /\ stream[s] = "open" /\ waiting[s] = None /\ calls[s] < MaxCalls
  /\ known[s][n] # None
  /\ calls' = [calls EXCEPT ![s] = @ + 1]
  /\ waiting' = [waiting EXCEPT ![s] = IF routing[n] = None THEN None ELSE <<known[s][n], routing[n]>>]
  /\ UNCHANGED <<live, cache, fresh, routing, stream, known, ran>>

\* The main server runs the power if the llming is still there; the answer goes
\* to the client's stream if that is still there.
Serve(s) ==
  /\ waiting[s] # None
  /\ waiting' = [waiting EXCEPT ![s] = None]
  /\ ran' = IF waiting[s][2] \in live THEN [ran EXCEPT ![s] = @ \cup {waiting[s]}] ELSE ran
  /\ UNCHANGED <<live, cache, fresh, routing, stream, known, calls>>

-----------------------------------------------------------------------------
Init ==
  /\ live = {} /\ cache = {} /\ fresh = FALSE /\ routing = NoNames
  /\ stream = [s \in Session |-> "new"] /\ known = [s \in Session |-> NoNames]
  /\ calls = [s \in Session |-> 0] /\ waiting = [s \in Session |-> None]
  /\ ran = [s \in Session |-> {}]

Next ==
  \/ \E l \in Llming : Unload(l) \/ \E p \in Power : Load(l, p)
  \/ \E s \in Session : \/ OpenStream(s) \/ CloseStream(s) \/ List(s) \/ Serve(s)
                        \/ \E n \in Name : Call(s, n)
  \/ FiveSeconds \/ InitialFetch

Spec == Init /\ [][Next]_vars

-----------------------------------------------------------------------------
\* Tool lists and calls have their shape, whatever is loaded or unloaded meanwhile.
BridgeTypeOK ==
  /\ live \subseteq Tool /\ cache \subseteq Tool /\ fresh \in BOOLEAN
  /\ routing \in [Name -> Tool \cup {None}]
  /\ stream \in [Session -> {"new", "open", "closed"}]
  /\ calls \in [Session -> 0..MaxCalls]

\* A client's call runs the power of the llming that its list named, whatever
\* was loaded since and whatever lists other clients were given in between; a
\* name that has changed its meaning is an error.
RunsWhatWasListed == \A s \in Session : \A m \in ran[s] : m[1] = m[2]

\* "Tools are fetched LIVE on every get_mcp_tools() call - never cached.  This
\* ensures new llmings, changed powers, and runtime state are always reflected
\* immediately" (hort/mcp/proxy_bridge.py:34)
ListIsLive == [][routing' # routing \/ known' # known => routing' = Routing(live)]_vars

=============================================================================
