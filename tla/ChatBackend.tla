---------------------------- MODULE ChatBackend ----------------------------
(***************************************************************************)
(* The chat back end (hort/ext/chat_backend.py) in container mode: the     *)
(* manager keeps a subprocess, the MCP bridge, and one sandbox container   *)
(* that the chats of all users share.  The container finds the bridge      *)
(* through a file that holds the bridge's port, and the API through one    *)
(* that holds a key; both are written when the container is provisioned.   *)
(*                                                                         *)
(* get_session blocks the event loop, so it is one action; a message is    *)
(* one action per await.  The bridge and the server die at any time,       *)
(* docker may fail, keys are replaced, containers are removed by others.   *)
(***************************************************************************)
EXTENDS Naturals, FiniteSets

CONSTANTS
  User, Box, Conv, \* chat users, containers, conversations of the model CLI
  None,
  MaxPort, MaxKey, \* bounds: starts of the bridge, replacements of the key
  MaxTrouble       \* bound: failing docker commands and removed containers

\* What the constants have to be.
ChatBackendAssumption ==
  /\ None \notin Box \cup Conv \cup [box : Box, conv : Conv \cup {None}]
  /\ {MaxPort, MaxKey, MaxTrouble} \subseteq Nat

VARIABLES
  bridge,   \* MCPBridgeProcess: its process, _actual_port (0: never up)
  ports,    \* ports the OS has given out
  cached,   \* _container_sessions[cache_key]
  box,      \* [Box -> state, and the port and key in its files; 0: not written]
  stored,   \* [Box -> the conversations in its files]
  chat,     \* [User -> _sessions[user]: box and _session_id], None if there is none
  msg,      \* [User -> the message ChatSession.send is at]
  clearing, \* [User -> is a _clear_container_sessions task pending?]
  cachedKey, validKey, \* _cached_api_key, and the key the API accepts
  convs,    \* conversations begun
  resets,   \* users who have reset their session: history
  trouble   \* docker failed, or a container was removed: history

vars == <<bridge, ports, cached, box, stored, chat, msg, clearing, cachedKey, validKey,
          convs, resets, trouble>>
bridgeVars == <<bridge, ports>>
keyVars    == <<cachedKey, validKey>>
historyVars == <<convs, resets>>

NoBox   == [state |-> "absent", port |-> 0, key |-> 0]
Quiet   == [at |-> "idle", try |-> 0, conv |-> None]
Running == {b \in Box : box[b].state = "running"}

-----------------------------------------------------------------------------
(* MCPBridgeProcess                                                        *)

\* start(): the new process prints its port, or ends before it does: then
\* _actual_port is still the one of the last that came up.
Start(b, last) ==
  {[b EXCEPT !.proc = "dead"]} \cup
  (IF last < MaxPort THEN {[proc |-> "up", port |-> last + 1]} ELSE {})

Count(b) == ports' = IF b.proc = "up" THEN b.port ELSE ports

BridgeDies ==
  /\ bridge.proc = "up"
  /\ bridge' = [bridge EXCEPT !.proc = "dead"]
  /\ UNCHANGED <<ports, cached, box, stored, trouble, chat, msg, clearing, keyVars, historyVars>>

-----------------------------------------------------------------------------
(* ChatBackendManager                                                      *)

Fault == trouble < MaxTrouble /\ trouble' = trouble + 1
Fine  == UNCHANGED trouble

\* _provision_container, and the key it fetches
Provisioned(bx, port) == [bx EXCEPT !.state = "running", !.port = port, !.key = validKey]
Fetched == cachedKey' = validKey

\* get_session, first half: ensure_alive; when the port has changed the cached
\* container is provisioned again, and an exception is passed over.
\* Mutant: the containers keep the old port.
EnsureAlive_NotTold ==
  /\ bridge.proc = "dead"
  /\ \E b \in Start(bridge, ports) : bridge' = b /\ Count(b)
  /\ UNCHANGED <<cached, box, stored, trouble, chat, msg, clearing, keyVars, historyVars>>

EnsureAlive ==
  /\ bridge.proc = "dead"
  /\ \E b \in Start(bridge, ports) :
       /\ bridge' = b /\ Count(b)
       /\ IF b.port = bridge.port \/ bridge.port = 0 \/ cached = None
          THEN Fine /\ UNCHANGED <<box, cachedKey>>
          ELSE \/ box' = [box EXCEPT ![cached] = Provisioned(@, b.port)] /\ Fetched /\ Fine
               \/ Fault /\ UNCHANGED <<box, cachedKey>>
  /\ UNCHANGED <<cached, stored, chat, msg, clearing, validKey, historyVars>>

Joins(u, b) == chat' = [chat EXCEPT ![u] = [box |-> b, conv |-> None]]

\* get_session of a new user, and _get_or_create_container.  First the cached
\* container: `docker exec true` also starts it, or creates it anew, empty.
TakeCached(u) ==
  /\ chat[u] = None /\ cached # None
  /\ box' = [box EXCEPT ![cached].state = "running"]
  /\ Joins(u, cached)
  /\ UNCHANGED <<bridgeVars, cached, stored, trouble, msg, clearing, keyVars, historyVars>>

\* There is none, or docker exec has failed.
Uncached == IF cached = None THEN Fine ELSE Fault

\* Then one that runs: it is cached before it is provisioned.
TakeRunning(u) ==
  /\ chat[u] = None
  /\ \E b \in Running :
       /\ cached' = b
       /\ \/ Uncached /\ Fetched /\ box' = [box EXCEPT ![b] = Provisioned(@, bridge.port)] /\ Joins(u, b)
          \/ Fault /\ UNCHANGED <<box, chat, cachedKey>>
  /\ UNCHANGED <<bridgeVars, stored, msg, clearing, validKey, historyVars>>

\* At last a new one: it is cached after.
TakeNew(u) ==
  /\ chat[u] = None /\ Running = {}
  /\ \E b \in Box :
       /\ box[b].state = "absent" /\ stored[b] = {}
       /\ \/ /\ Uncached /\ Fetched /\ Joins(u, b) /\ cached' = b
             /\ box' = [box EXCEPT ![b] = Provisioned(@, bridge.port)]
          \/ /\ Fault /\ cached' = None /\ UNCHANGED <<chat, cachedKey>>
             /\ box' = [box EXCEPT ![b].state = "running"]
  /\ UNCHANGED <<bridgeVars, stored, msg, clearing, validKey, historyVars>>

\* The server ends, or dies: what is in memory goes, and stop() destroys the
\* cached container.  The next one calls start().
Restart(clean) ==
  /\ \E b \in Start([proc |-> "dead", port |-> 0], ports) : bridge' = b /\ Count(b)
  /\ cached' = None
  /\ box' = IF clean /\ cached # None THEN [box EXCEPT ![cached] = NoBox] ELSE box
  /\ stored' = IF clean /\ cached # None THEN [stored EXCEPT ![cached] = {}] ELSE stored
  /\ chat' = [u \in User |-> None]
  /\ msg' = [u \in User |-> Quiet]
  /\ clearing' = [u \in User |-> FALSE]
  /\ cachedKey' = 0
  /\ UNCHANGED <<trouble, validKey, historyVars>>

\* Somebody else stops or destroys a container: the volume goes with it.
BoxGoes(b, how) ==
  /\ box[b].state = "running" /\ Fault
  /\ box' = [box EXCEPT ![b] = IF how = "stopped" THEN [@ EXCEPT !.state = how] ELSE NoBox]
  /\ stored' = IF how = "stopped" THEN stored ELSE [stored EXCEPT ![b] = {}]
  /\ UNCHANGED <<bridgeVars, cached, chat, msg, clearing, keyVars, historyVars>>

-----------------------------------------------------------------------------
(* ChatSession                                                             *)

\* The lock: one message at a time.  _run resumes the conversation it finds.
\* exec_async starts the container when it does not run.
Runs(u, try) ==
  /\ msg' = [msg EXCEPT ![u] = [at |-> "run", try |-> try, conv |-> chat[u].conv]]
  /\ box' = [box EXCEPT ![chat[u].box].state = "running"]

Send(u) ==
  /\ chat[u] # None /\ msg[u].at # "run"
  /\ Runs(u, 1)
  /\ UNCHANGED <<bridgeVars, cached, stored, trouble, chat, clearing, keyVars, historyVars>>

\* The process announces its conversation: the one resumed, or a new one.  One
\* that is not in the container's files cannot be resumed: the process ends
\* without a result, "(no response)".
Announce(u) ==
  LET b == chat[u].box  m == msg[u] IN
  /\ m.at = "run" /\ box[b].key = validKey
  /\ IF m.conv = None
     THEN \E c \in Conv \ convs :
            /\ convs' = convs \cup {c}
            /\ stored' = [stored EXCEPT ![b] = @ \cup {c}]
            /\ chat' = [chat EXCEPT ![u].conv = c]
            /\ msg' = [msg EXCEPT ![u].conv = c, ![u].at = "answer"]
     ELSE IF m.conv \in stored[b]
     THEN /\ chat' = [chat EXCEPT ![u].conv = m.conv]
          /\ msg' = [msg EXCEPT ![u].at = "answer"]
          /\ UNCHANGED <<stored, convs>>
     ELSE msg' = [msg EXCEPT ![u].at = "none"] /\ UNCHANGED <<chat, stored, convs>>
  /\ UNCHANGED <<bridgeVars, cached, box, trouble, clearing, keyVars, resets>>

\* Mutant: the key of the last five minutes is taken for good.
ForcedKey_Cached == cachedKey

\* _get_claude_api_key(force=True)
ForcedKey == validKey

\* The API refuses the key: it is fetched and written again (which fails in a
\* container that never was provisioned), then once more after _restart_container, which looks for an attribute that sandbox sessions
\* do not have and restarts nothing; then send() gives up.
Refused(u) ==
  LET b == chat[u].box IN
  /\ msg[u].at = "run" /\ box[b].key # validKey
  /\ CASE msg[u].try = 1 ->
            /\ cachedKey' = ForcedKey
            /\ msg' = [msg EXCEPT ![u] = [at |-> "run", try |-> 2, conv |-> chat[u].conv]]
            /\ \/ /\ box[b].key # 0 /\ Fine
                  /\ box' = [box EXCEPT ![b].state = "running", ![b].key = ForcedKey]
               \/ /\ IF box[b].key = 0 THEN Fine ELSE Fault
                  /\ box' = [box EXCEPT ![b].state = "running"]
       [] msg[u].try = 2 -> Runs(u, 3) /\ Fine /\ UNCHANGED cachedKey
       [] msg[u].try = 3 -> /\ msg' = [msg EXCEPT ![u].at = "wrong"]
                            /\ Fine /\ UNCHANGED <<box, cachedKey>>
  /\ UNCHANGED <<bridgeVars, cached, stored, chat, clearing, validKey, historyVars>>

\* reset(): without the lock; the files are cleared by a task of its own.
Reset(u) ==
  /\ chat[u] # None /\ u \notin resets
  /\ chat' = [chat EXCEPT ![u].conv = None]
  /\ clearing' = [clearing EXCEPT ![u] = TRUE]
  /\ resets' = resets \cup {u}
  /\ UNCHANGED <<bridgeVars, cached, box, stored, trouble, msg, keyVars, convs>>

\* _clear_container_sessions: "remove Claude session files inside the container"
Clear(u) ==
  /\ clearing[u]
  /\ clearing' = [clearing EXCEPT ![u] = FALSE]
  /\ stored' = [stored EXCEPT ![chat[u].box] = {}]
  /\ box' = [box EXCEPT ![chat[u].box].state = "running"]
  /\ UNCHANGED <<bridgeVars, cached, trouble, chat, msg, keyVars, historyVars>>

NewKey ==
  /\ validKey < MaxKey
  /\ validKey' = validKey + 1
  /\ UNCHANGED <<bridgeVars, cached, box, stored, trouble, chat, msg, clearing, cachedKey, historyVars>>

-----------------------------------------------------------------------------
Init ==
  /\ \E b \in Start([proc |-> "dead", port |-> 0], 0) :
       bridge = b /\ ports = b.port
  /\ cached = None
  /\ box = [b \in Box |-> NoBox] /\ stored = [b \in Box |-> {}]
  /\ chat = [u \in User |-> None]
  /\ msg = [u \in User |-> Quiet]
  /\ clearing = [u \in User |-> FALSE]
  /\ cachedKey = 0 /\ validKey = 1
  /\ convs = {} /\ resets = {} /\ trouble = 0

Next ==
  \/ BridgeDies \/ EnsureAlive \/ NewKey
  \/ \E clean \in BOOLEAN : Restart(clean)
  \/ \E b \in Box, how \in {"stopped", "absent"} : BoxGoes(b, how)
  \/ \E u \in User : \/ TakeCached(u) \/ TakeRunning(u) \/ TakeNew(u)
                     \/ Send(u) \/ Announce(u) \/ Refused(u) \/ Reset(u) \/ Clear(u)

Spec == Init /\ [][Next]_vars

-----------------------------------------------------------------------------
\* The state has its shape, and chats are in containers that exist.
ChatTypeOK ==
  /\ bridge \in [proc : {"up", "dead"}, port : 0..MaxPort] /\ ports \in 0..MaxPort
  /\ cached \in Box \cup {None}
  /\ box \in [Box -> [state : {"absent", "stopped", "running"}, port : 0..MaxPort, key : 0..MaxKey]]
  /\ \A u \in User : chat[u] # None => chat[u].box \in Box /\ chat[u].conv \in convs \cup {None}
  /\ \A u \in User : msg[u].at # "idle" => chat[u] # None
  /\ cachedKey \in 0..validKey /\ validKey \in 1..MaxKey /\ trouble \in 0..MaxTrouble

\* While docker answers and nobody takes containers away, the container of
\* every chat names the port of the present bridge, over deaths of the bridge,
\* restarts of it that fail, and restarts of the server.  A container made
\* before a bridge ever came up names none, and stays so.
ContainerFollowsBridge ==
  \A u \in User : chat[u] # None /\ trouble = 0
    => box[chat[u].box].port \in {bridge.port, 0}

\* send() gives up on a message only if the key was replaced once more while
\* it was being retried, or docker failed.
GivesUpForCause ==
  \A u \in User : msg[u].at = "wrong" => trouble > 0 \/ validKey > 2

\* "Sessions are per-user" (l.14): a conversation is lost to its user only by
\* his own /new, or with the container.
OwnConversation ==
  \A u \in User : msg[u].at = "none" => u \in resets \/ trouble > 0

=============================================================================
