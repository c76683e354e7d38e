# openhort in TLA+

TLA+ modules of the parts of openhort that are hard to test: processes that
outlive each other, requests that cross connections that break, tunnels over
networks that lose things, stores that several threads and processes share,
editors whose handlers wait in the middle. TLC checks them on small instances;
TLAPS proves the most important properties for every size. Paths below are
relative to the repository; `hort/...` means `src/hort/...`.

Contents: [The system](#the-system) · [Modules](#modules) ·
[Runs](#runs) · [Fairness](#fairness) · [Proofs](#proofs) ·
[Where code and documents disagree](#where-code-and-documents-disagree) ·
[Not modelled](#not-modelled) · [Plan](#plan)

## The system

openhort is a Python server (FastAPI, one asyncio loop) that shows a machine's
windows and terminals to browsers and runs *llmings*, plug-ins with powers that
language models and other llmings call. Llmings may live in subprocesses and
containers; machines can be reached through an access server, or peer to peer.

### Inventory

For each part: the state it keeps, its operations, whom it meets, what is hard
about it, and what makes it correct.

#### Processes and calls between them

**Managed subprocesses** (`hort/lifecycle/manager.py`, `worker.py`;
docs/manual/internals/process-lifecycle.md).
State: `_proc`, `_ipc_writer`, `_connected`, `_stopping`, `_monitor_task` of a
`ManagedProcess`; the PID file and the socket path, which outlive the main
process; the worker process. Operations: `start` (reconnect to the old worker or
spawn one), `stop`, `detach`, the health monitor, `_restart`, the connection
handler and its handshake; on the worker's side connect, handshake, read loop,
signals. Meets: the operating system, the next main process through the PID
file and the socket, its owner (app, Telegram, camera, llming groups). Hard:
up to four coroutines are inside `start()` at once; crashes of either side
between any two awaits; a worker that reconnects just as it is given up.
Correct: one worker, which the next main process can find; crashes are noticed;
`stop` is final; versions agree; a started service is served again.

**Llming groups over IPC** (`hort/lifecycle/llming_process.py`, `runner.py`,
`ipc_protocol.py`, `hort/plugins.py`). State: `_pending` futures by id,
`_ready_event`, the llmings a subprocess has loaded and activated. Operations:
`request`, `activate_llming`, `execute_power`, `wait_ready`, `on_message`,
`on_disconnected`; the runner's `on_connected` and `on_message`; `_spawn_group`.
Meets: ManagedProcess (which restarts the subprocess under it), every caller of
a power. Hard: disconnection racing answers and the 30 s timeout; requests
written before the handshake is over; loading anew after a crash. Correct: a
call runs at most once, gets one outcome, and nobody waits on a dead connection.

**Loading of llmings** (`hort/plugins.py`, `hort/ext/registry.py`, `scheduler.py`,
`connectors.py`, `hort/llming/pulse.py`, `bus.py`). State: the registry's
instances, subscribers of the buses, channels, jobs, commands. Operations:
start-up, the groups' own tasks, ready handlers, unloading, shutdown. Hard:
start-up and shutdown await while they iterate over dictionaries into which the
groups' tasks insert. Correct: a group is on the bus as a whole; what has been
stopped has no jobs left; a ready handler runs when all it waits for is there.

**Sandbox sessions and reaper** (`hort/sandbox/session.py`, `reaper.py`). State:
per session a container, a volume and a metadata file; nothing in memory is
shared. Operations: create, get, start, exec, write, stop, destroy, three passes
of the reaper. Hard: the server and command line tools run the same steps on one
session, and may die between any two. Correct: a session that was reaped has been
idle longest; the metadata goes last, so that nothing is left that no file leads to.

**Sandbox peers** (`hort/sandbox/peer_broker.py`, `peer_orchestrator.py`).
State: inbox and status files, turns and prompts. Hard: what a peer sends during
its turn crosses the other's reading and the end of the conversation; file names
made of milliseconds. Correct: no message is lost; no turn passes in which
neither peer is asked to work.

**Chat back end** (`hort/ext/chat_backend.py`). State: the MCP bridge process and
its port, the shared container, the files in it with port and key, a conversation
per chat. Hard: the bridge restarts on another port, keys are replaced, containers
vanish while messages are retried. Correct: every container leads to the bridge
there is; a message is given up for a cause.

**Envoy control channel** (`hort/envoy/server.py`, `client.py`). State: the
writer of the one container connection, tools the host registered, a future per
call. Hard: connections replace each other; messages are handled inside the loop
that would have to read their answers. Correct: a tool runs at most once, and an
answer reaches the call it is of.

**Tool proxies** (`hort/sandbox/mcp_proxy.py`, `hort/mcp/proxy_bridge.py`,
`bridge.py`). State: event streams, requests by id, the cached list of tools and
the routing made of it. Hard: several clients over one process; a list that
changes while calls are under way. Correct: who asks gets the answer; a name runs
the tool it stood for when it was listed.

**Telegram and the built-in chat** (`llmings/core/telegram_connector`,
`subprojects/telegram_bot`, `llmings/core/llming_wire`). State: the polling worker
and its updates, sessions by user; in the page the conversation that is open, the
stored ones, the server's. Hard: losses of the connection; every method of the
page reads its fields again after an await. Correct: `/new` starts over; a
question and its answer stay in their conversation.

**Signals** (`hort/signals/`, the screen watcher). State: watchers, cooldowns,
debounce and aggregation per trigger. Hard: a trigger's check and the awaited
reaction leave room for another emitter. Correct: reactions are a cooldown apart.

**Screen agent** (`llmings/core/llming_lens`). State: the grid each agent last
saw, the window in front, the preview. Hard: the user and several agents share
one screen. Correct: a zoom shows the cell that was pointed at.

#### Ways in

**UDP tunnel** (`hort/peer2peer/tunnel.py`, `proto.py`). State: sequence
numbers, ACK events, a bounded receive queue, the socket of each end.
Operations: `send` (chunks, retransmission), `recv`, keepalive, `close`, the
datagram callback. Hard: lost, late, reordered datagrams; ACKs that arrive after
a retransmission; a full queue. Correct: what is confirmed was received, and in
order.

**Hole punching** (`hort/peer2peer/punch.py`, `stun.py`, `signal.py`). State: the
addresses each peer has found, probes. Hard: NATs that map every destination anew,
lost offers and probes. Correct: a path that is reported carries data.

**Access server and host tunnel** (`hort/access/server.py`,
`tunnel_client.py`). State: the registry `_tunnels` of hosts that are online;
per tunnel a send queue, futures by request id, half-received answers, WebSocket
queues; at the host the connection and a task per message. Operations:
`host_tunnel` and `HostTunnel.run` (reader, writer), `http_proxy` and
`proxy_request`, `ws_proxy` and its queues, `TunnelClient.run` with its
reconnection loop, `_handle_request`, chunked answers. Meets: browsers, the
host's local server, the account store. Hard: several connections of one host
overlap; a connection is dead long before either end notices; a tunnel ends
between looking it up and using it; messages of one stream are tasks of their own.
Correct: at-most-once requests, whole answers, no browser led to a dead tunnel,
nobody left waiting, streams in order and closed at both ends.

**Relay sessions** (`hort/peer2peer/relay_poller.py`, `relay_listener.py`,
`device_tokens.py`). State: links asked for, one-time tokens, offers, the table of
peer connections. Hard: two clean-ups and state changes close sessions across
awaits while new ones come in. Correct: no connection stays open that no table knows.

**DataChannel proxy** (`hort/peer2peer/dc_proxy.py`). State: WebSockets and
request tasks by id over one channel; of binary frames only the latest waits.
Hard: the reader, the sender of frames and the announcement of the opening are
separate tasks. Correct: a viewer sees of each stream one opening, its texts in
order, one end.

**Accounts and tokens** (`hort/access/store.py`, `auth.py`, `tokens.py`,
`hort/auth.py`). State: users and hosts, sessions, attempts; the host's token file,
which every process loads anew and writes back. Correct: a token that was handed
out is in the file.

#### What keeps data

**Documents, crates, blobs** (`hort/storage/`, `hort/ext/blobstore.py`). State: a
SQLite file under one write lock; a crate as a file and a row, a blob as a file and
a sidecar. Hard: updates find and write in two steps, the collector is a thread of
each process. Correct: the deleted stays deleted, a read is of a put, a row does not
announce what the file does not hold, writes go through.

**Vaults and cards** (`hort/llming/handles.py`, `hort/commands/card_api.py`). State:
rows, a cache, viewers that watch, a throttled push. Correct: one document a key;
whoever watches gets the latest value.

**Credentials and logins** (`hort/credentials/`, `hort/ext/credentials.py`). State:
encrypted rows and the key they need, which lives in a keychain or a file; a login
with its refresh token. Hard: the key is made at first use, callers refresh one
login at once. Correct: what was stored can be read after a restart; a login is
refreshed before it is given up.

**Hosted apps** (`llmings/core/hosted_apps`, routes of `hort/app.py`). State:
containers, volumes, instances, the sockets of the reverse proxy. Hard: create, stop
and destroy run in threads beside each other and the listing. Correct: a listed app
has its data.

**Terminals** (`hort/termd.py`, `termd_client.py`, `terminal.py`). State: shells,
descriptors, scrollback, viewers. Hard: viewers come and go while a chunk is sent to
them one after the other. Correct: a viewer misses nothing and sees nothing twice.

**Planners** (`subprojects/hortplanner`). State: a tree of components on grids and
its history; floors, walls and furniture, and the scene drawn of them. Hard: meshes
are loaded over awaits, and an edit may be undone in between. Correct: tree, cells
and scene agree.

#### Devices

**Streams of a viewer** (`hort/stream.py`, `controller.py`, `session.py`). State: one
entry per session on which all of its stream connections and the control connection
work. Hard: a superseded stream goes on and resets its successor's fields; lost
acknowledgements. Correct: a stream that is asked for goes on sending.

**Cameras** (`llmings/core/llming_cam`, `hort/media_browser_cam.py`). State: capture
sessions, policies, what a discovery thread has seen. Correct: a wanted camera that is
there is captured again.

**Test VM** (`llmings/core/peer2peer`). State: a VM, its status as several commands,
a poll and a discovery have last written it. Correct: the dashboard ends up right.

The remaining parts (command line, route tables, llming base classes and manifests,
wiring rules, LLM providers, containers, P2P video, other llmings, browser client)
are pure functions, platform calls, external programs and assets; `PROJECT.json`
lists them with the reason, and its `hazards` list what is hard in the others, line
by line.

### How the parts meet

```
 browser ── access server ══ HostTunnel, HostStreams ══ TunnelClient ── local server
    │            └ Accounts                                                  │
    └── UDP tunnel / HolePunch / RelaySessions ── DcProxy ───────────────────┤
                                                                             │
 app lifespan, Telegram, camera, Llmings ── ManagedProcess ── PID file, socket, worker
                                                  │
                                  GroupProcess ── GroupRunner (llmings)
 chats (Wire, Telegram) ── ChatBackend ── McpBridge, SseProxy, Envoy ── Sandbox, Peers
 llmings ── Vaults ── Scrolls, Crates, Blobs;  Credentials, CredentialStore
 viewers ── Streaming, Cameras, Terminals, HostedApps, Lens
```

`GroupProcess` is a `ManagedProcess`: the module ManagedProcess models the
supervision in full with no requests on top, GroupProcess models the requests in
full with the supervision reduced to what it does to a group (a dead subprocess
is replaced, a connection may end at any time). `HostTunnel` and `HostStreams` are
the HTTP and the WebSocket half of one tunnel; `Vaults` keeps its value in
the documents that `Scrolls` models, reduced there to one row. `GroupProcess`,
`HostTunnel` and `Envoy` are three implementations of one promise, the module
AtMostOnceCalls. Llmings takes a group's subprocess as something that loads, fails
or ends.

## Modules

| Module | Stands for | Proofs |
|---|---|---|
| `ManagedProcess` | one managed subprocess, both sides, successive main processes | `ManagedProcessProofs` |
| `GroupProcess` | requests of one llming group, both sides | `GroupProcessProofs` |
| `UdpTunnel` | two ends of a tunnel and the network between | `UdpTunnelProofs` |
| `HostTunnel` | HTTP requests through a host's tunnels, both sides | `HostTunnelProofs` |
| `AtMostOnceCalls` | abstract: what a relayed call promises | – |
| `QueueLemmas` | lemmas on sequences used as queues, for the proofs | itself |
| `MCManagedProcess` | its instances for TLC; the other three are run as they are | – |
| [`MCAgents`](#agents-stores-devices) | 15 components of agents and connections, in one run | `AgentsProofs`, `EnvoyProofs` |
| `MCStores` | 11 components that keep data, in one run | `StoresProofs` |
| `MCDevices` | 3 components that show something, in one run | – |

Everything on an asyncio loop is modelled the same way: **an action is the code
between two awaits of one coroutine.** What a coroutine reads after an await is
read again in the next action; what it has kept in a local variable is a
variable of the model (`rpid` in ManagedProcess, `via` in HostTunnel). Where threads
or processes work, an action is one access to what they share: a file operation, a
docker command, a statement under the database's lock. Delays are
abstracted: a timeout may fire at any moment it is armed. Each definition that
stands for code is mapped to its lines in `PROJECT.json`. The operators marked
`Mutant:` are plausible bugs, one or more for each property, with which that
property fails.

### ManagedProcess

State: `worker` (processes with their pending signals and handshake phase),
`conn` (connections with the lines main has written), `pidFile`, `path` (which
server the socket path leads to: whoever binds takes it from the server before,
which goes on listening where nobody finds it), the fields of the object, and `pc`, where each task is suspended: the
caller of `start()`, the monitors, one handler per connection.

| Code | Actions |
|---|---|
| `start`, `_try_reconnect`, `_spawn`, `_wait_connected` | `Start`, `Resignal`, `Reconnected`, `ReconnectTimeout`, `Spawn`, `StartReturns` |
| `_health_monitor`, `_restart` | `MonitorNotices`, `MonitorQuits`, `Restart` |
| `_handle_connection` | `Accept`, `HandshakeOk`, `HandshakeMismatch`, `HandshakeFails`, `HandlerEnds` |
| `stop`, `detach` | `Stop`, `Detach` |
| `WorkerProcess` | `WorkerBoot`, `WorkerConnect`, `WorkerHandshake`, `WorkerRead`, `WorkerUsr1`, `WorkerTerm`, `WorkerExit` |
| environment | `WorkerCrash`, `MainExit` (crash or reload; the next main starts with fresh fields) |

Abstractions: the length of delays and the restart counter that stretches them;
PIDs are not reused; a write and its drain are one step, as is the worker's
`on_message`; a monitor started when all the model's monitors are in use takes
the place of a sleeping one. `Prompt` says whether handlers and workers keep
within the pauses that the code allots for them; runs use both values.
`StartsAwaited` says whether `start()` is awaited by the owner before it calls
`stop()` (Telegram) or runs in the background (camera, llming groups).

### GroupProcess and AtMostOnceCalls

State: futures and `_pending`, what each request has returned, the connection it
went out on, the handler's and the subprocess's phase, lines under way in both
directions, which llmings are active. `Request` (inside `CallPower`, `Activate`),
`Return`, `Timeout` are `request()`; `Accept`, `HandshakeOk`, `HandshakeFails`,
`Read`, `HandlerEnds` the handler with `on_message` and `on_disconnected`;
`StartReturns`, `WaitReady`, `Activate`, `Registered`, `SpawnFails` are
`_spawn_group`; `Connect`, `WorkerHandshake`, `Load`, `Take`, `Reply` the
subprocess. A hot reload is a new instance that begins with a surviving
subprocess. The subprocess never sends `pulse_emit`; what registered powers
contain is left out. `AtMostOnceCalls` says what callers may rely on:
idle → waiting → answered or failed, run at most once, answered only after it ran.

### UdpTunnel

State: the datagrams under way, per end its senders, set ACK events, queue and
socket; history variables `received` (what `recv()` has returned) and
`confirmed` (chunks whose `send()` returned). The payload of a chunk is its
sequence number; `copy` tells its transmissions apart. The network loses
(`Lose`) and reorders (`net` is a set) but duplicates nothing of its own accord.
The width of the sequence number (32 bits) is not modelled. Keepalive answers
(`PONG`) enter the receive queue and are returned by `recv`, as the code has it.

### HostTunnel

State at the server: `registered` (`_tunnels`), per connection its handler
(`tun`, `tasks`), send queue, pending ids and half-received answers; per request
its caller, the tunnel it has picked and its future. At the host: the current
connection and one task per request. Between: messages in both directions, and
whether the path is cut.

| Code | Actions |
|---|---|
| `http_proxy`, `proxy_request` | `Pick` (before the body is read), `Issue`, `Return`, `Timeout` |
| `host_tunnel`, `HostTunnel.run` | `Register`, `RegisterFails`, `Write`, `WriteFails`, `Read`, `ReadFails`, `RunEnds` |
| `TunnelClient` | `Connect`, `Leave`, `Take`, `Answer`, `NextChunk`, `AnswerFails` |
| environment | `Cut`: the path is gone and neither end has noticed |

`RunEnds` contains the `finally` clause of `host_tunnel`, which takes whichever
tunnel is registered out of the registry. A connection is used once. The data of
an answer is the set of its chunk indices; an incomplete answer handed over
would be `"torn"`. What a tunnel that has ended keeps of half answers is memory
only. Login, the welcome message's content and proxied WebSockets are elsewhere
(Accounts, HostStreams) or left out.

### Agents, stores, devices

These components share no state with each other, so one run checks many of them:
`MCAgents`, `MCStores` and `MCDevices` are disjoint unions. `part` says which
component a behaviour is one of; the component's variables are the first of `v1`,
`v2`, … and the others rest. A property of the run is the conjunction, over its
components, of `Is(component) => property of the component`; its mutant breaks one
of the conjuncts. (So a component may be checked alone: an instance of it with the
constants the union gives.)

*Chats, agents and tools, in MCAgents:*

| Module | State | Actions | Property |
|---|---|---|---|
| `Sandbox` | container, volume and metadata of each session, what each process is doing | one per docker command or file access of `session.py` and the three passes of `reaper.py`; `Crash`, `Tick` | `IdleLongestGoFirst`, `UnlinkedIsGone` |
| `ChatBackend` | bridge and port, containers and the files in them, keys, messages being retried | `EnsureAlive`, `TakeCached/Running/New`, `Send`, `Announce`, `Refused`, `Reset`, `Clear`; the bridge dies, docker fails | `ContainerFollowsBridge`, `GivesUpForCause` |
| `Envoy` | the writer and handlers of the container's end, futures, the host's end | `Invoke`, `EnvoyReads`, `HostReads`, `ToolReturns`, `TimedOut`, `CallLocal`, `Disconnect`, … | implements AtMostOnceCalls |
| `Peers` | inbox and status files, turns, prompts | the broker's tools, `StartTurn`, `EndTurn`, `SkipTurn`, `CheckCompletion`, `Cleanup` | `NothingLost`, `SomebodyWorks` |
| `SseProxy` | streams, requests by id, the process's pipes | `OpenStream`, `Post`, `Serve`, `ReadStdout`, `Event`, ends of process and server | `OwnAnswers` |
| `McpBridge` | tool list, cache, routing, calls | `List`, `Call`, `Serve`, `Load`, `Unload`, `FiveSeconds` | `RunsWhatWasListed` |
| `Llmings` | instances, subscriptions, channels, jobs, where start-up, stop and groups' tasks are | `Startup`, `GroupTask`, `Stop…`, `JobStarts`, `Unload` | `GroupComesWhole` |
| `Telegram` | the worker's polling, the pipe, sessions, numbered requests | `Deliver`, `Take`, `Chat`, `New`, `Ask`, … | `NewStartsOver` |
| `Signals` | emitters, values, cooldown, debounce and aggregate per trigger | `Rings`, `Looks`, `Compares`, `Heard`, `Evaluates`, `Reacted`, `Tick` | `CooldownKept` |
| `Wire` | the page's fields and IndexedDB, the server's conversations | `Send`, `SwitchConversation`, `Answer`, `Show`, `Reset`, `Restart`, … | `Private` |
| `Lens` | windows, the grid each agent saw, keys typed | `Screenshot`, `Click`, `TypeText`, `ShowPreview`; the user acts | `ZoomShowsTheCell` |

*Connections of remote viewers, in MCAgents:*

| Module | State | Actions | Property |
|---|---|---|---|
| `HostStreams` | WebSockets at both ends of the tunnel, tasks that open them | `HostReads` (a task per message), `Opened`, `Forward`, `LocalCloses`, `Lose`, … | `StreamsWhole` |
| `DcProxy` | requests and WebSockets of a data channel, the slot for frames | `WsOpen`, `Opened`, `ReadText`, `ReadFrame`, `SendFrame`, `ReadEnds`, … | `ViewerSeesAStream` |
| `RelaySessions` | links, tokens, offers, the session table, both clean-ups | `PollOnce`, `Fetch`, `Authenticate`, `Accept`, `FinishSession`, `CleanNext`, `Stop`, … | `NoPeerLost` |
| `HolePunch` | NATs, addresses found, datagrams | `FirstAnswers` …, `Offer`, `Answer`, `Probe`, `Receive`, `Succeed` | `PathWorks` |

*Stores, in MCStores:*

| Module | State | Actions | Property |
|---|---|---|---|
| `Vaults` | rows of one key, cache, viewers, throttled push | the four steps of `set`, `Get`, `Delete`, `Collect`, `Watch`, `Flush`, `Crash` | `ViewersCatchUp`, `OneDocument` |
| `Scrolls` | rows, SQLite's write lock, collectors | `Find`/`Update`/`Insert`/`Delete`, `GcWakes`…`GcEnds`, `Refused` | `DeletedStaysDeleted` |
| `Crates` | file and row | `Puts`, `Deletes`, `Reads`, `Cleans`, the collector's three steps | `InfoNotAhead` |
| `Blobs` | file and sidecar | `Opens`, `Replaces`, `Records`, `Looks`, `Reads`, `Unlinks`, `Cleans` | `ReadsWhatWasPut` |
| `Credentials` | rows, alerts, OAuth flows, the master key | posts, callbacks, the health check, restarts with the keychain there or not | `Readable` |
| `CredentialStore` | credential and metadata of a login | `GetToken`, `Refresh`, `Save`, `Clear`, `Callback`, `Poll`, … | `RefreshedWhilePossible` |
| `Accounts` | users, hosts, sessions, attempts, the token file | sign-in, `Create`, `RevokeTemporary`, `Verify`, restarts | `KeysKept` |
| `HostedApps` | containers, volumes, instances, proxied sockets | one per docker command of create/start/stop/destroy, `Poll…`, the proxy | `ListedHasData` |
| `Terminals` | shells, descriptors, scrollback, viewers | `Spawn`, `OnReadable`, `Forward`, `SendTo`, `Attach`, `Leave`, `Breaks` | `NoGaps` |
| `Planner` | the tree, cells, history, meshes under way | drops, drags, resizes, `Undo`, `Redo`, `Delete`, `Enter`, … | `WholeTree` |
| `HomePlanner` | floors, walls, furniture, the scene, loads under way | tools, `DragWall`, `Open`, `Place`, `Turn`, `SetFloor`, `LoadPreset`, … | `SceneShowsFloor` |

*Devices, in MCDevices, with liveness:*

| Module | State | Actions | Property |
|---|---|---|---|
| `Streaming` | the session's entry, one coroutine per stream | `Loop`, `Sends`, `Ack`, `StreamConfig`, `SetTarget`, … | `StreamGoesOn` |
| `Cameras` | capture sessions, policies, the discovery thread's pass | `Discovery`, `StartCamera`, `Watch`, `CaptureDies`, `Offer`, … | `WantedComesBack` |
| `TestVm` | resource group, VM, status, the callers' steps | `Begin`, `Step`, `AzFails`, `Poll`, `Discover`, `Midnight` | `DashboardCatchesUp` |

Several modules have a constant that says which assumption about timing or users is
made, so that what the code promises only under that assumption is checked under it
and the module still states what happens without. `Racing` (Sandbox: a session may
be destroyed while another process works on it), `SameMs` (Peers: two messages
within a millisecond), `PromptOpen` (HostStreams: a local connection opens before
the next message comes), `Patient` (Wire, HomePlanner: the user waits for what he
started), `Twice` (HostedApps: an instance is destroyed once more meanwhile),
`Overlapping` (Planner: the user goes on while meshes load), `InThread` (Vaults: the
llming also writes from an executor thread), `Unloads` (McpBridge, Llmings: an
administrator unloads). [Below](#where-code-and-documents-disagree) is what fails
without them.

## Runs

Model values stand for workers, connections, requests. *Violation* runs check
one sentence of the documents or comments that the code does not keep; see
[below](#where-code-and-documents-disagree).

| Run | Instance | Shows |
|---|---|---|
| Solo | 3 workers, 2 connections, 3 monitors, 2 crashes, no reload; tasks as slow as they like, `start()` in the background | crashes are noticed (`Supervised`); `_connected` does not lie (`ConnectedIsServed`); one worker at a time (`NoOverlap`), which the PID file names (`Recoverable`), together `LoneWorkerIsFound`; restarts spare a healthy worker (`HealthyIsSpared`) |
| Served | the same with one crash and one reload or crash of main | one worker is left to run (`NoDuplicate`) and can be found (`RecoverableUntilStop`), together `WantedWorkerIsFound`; `stop` before any reload is final (`StopIsFinalBeforeReload`); the service comes back, or its worker was taken over and died (`ServedOrAbandoned`) |
| Versions | 2 workers, a reload to another protocol version, slow tasks | types; `VersionsAgree` through a restart made inside the handshake |
| Calls | 1 llming, 2 calls, 2 connections, 1 crash | a disconnection releases every caller and a future is settled once (`CallersReleasedOnce` = `DisconnectReleasesCallers` and `SettledOnce`); GroupProcess implements AtMostOnceCalls (`AtMostOnce`); a registered group is served again (`ServiceResumes`), calls written before the handshake notwithstanding |
| Reliable | 2 ends, 1 sender each, 2 chunks, 1 ping, 2 transmissions, queue of 1 | `ConfirmedIsDelivered`, `InOrder` |
| Requests | 2 connections, 2 requests, answers of 1 or 2 chunks, 1 cut | `OnlineIsLive`, `StrandedWasNeverSent`, `WholeAnswers`; HostTunnel implements AtMostOnceCalls (`AtMostOnce`); who has been dealt with is told without the timeout (`ToldOnceDone`) |
| Agents | 15 modules in 17 instances | `SessionsKept` (Sandbox, ChatBackend, Telegram), `ToolsRunAtMostOnce` (Envoy implements AtMostOnceCalls), `PeersNothingLost`, `OwnAnswers` (SseProxy, McpBridge, Wire, Lens), `GroupComesWhole`, `CooldownKept`, `ConnectionsWhole` (HostStreams, DcProxy, RelaySessions, HolePunch) |
| Stores | 11 modules | `StoresKeepTheirWord` (Scrolls, Blobs), `ListedIsThere` (HostedApps, Crates), `ViewersMissNothing` (Vaults, Terminals), `SecretsUsable` (Credentials, CredentialStore, Accounts), `PlansWhole` (both planners) |
| Devices | 3 modules in 5 instances, with fairness | `StreamGoesOn`, `WantedComesBack`, `DashboardCatchesUp` |
| CrashAfterReload, Replaced, Collector | smaller instances | violations |

Why these bounds are enough to be worth something: two connections are the least
with which an old one and a new one overlap, which is what every
connection-related hazard needs; three workers are an old one, one spawned too
many, and the one that replaces it; a crash and an exit happen in either order
and at every point; two requests share a connection, or are on either side of a
reconnection; a queue of one is full with one packet; two transmissions are the
least with which an ACK can be late. In the unions: two processes, threads or
clients are what a race needs, and a third version, message or session is the one
that comes between the two. RelaySessions has three offers because its clean-up can
be overtaken twice; Llmings two groups, one of which starts while the other stops;
Sandbox two sessions, for the reaper to choose, and a clock that outlives its
timeout twice; Planner three components, a machine, a container and a tool.
`MaxCrashes`, `MaxExits`, `MaxCuts`, `MaxChunks`, `MaxPings`, `MaxTotal` and the
other `Max…` constants bound counters that the code leaves unbounded, except where
the module says that the code has the bound itself (`MaxUnacked`, `MaxProbes`,
`MaxTurns`, `MaxSessions`, …). Deadlock is not checked: with its bounds used up, or
stopped, each system may come to an end. Symmetry is used in the runs without
liveness only.

## Fairness

Weak fairness, of the specifications `FairSpec`: an event loop runs every task
that can go on, and the operating system runs every worker. That is what asyncio
and the kernel do, and no more: nobody has to crash, call, stop, detach or
exit, and no network has to deliver. In HostTunnel only the server's steps and
the return of a settled request are fair. Not even the 30 s timeout is counted
on: `ToldOnceDone` says that it is not needed.

In MCDevices it is: the loop, the sends and the ageing of each stream's coroutine
(its 1 s timer); the camera discovery thread, which looks every few seconds; of the
VM, the callers' next `az` command, the poll, the end of a deletion Azure has
accepted, and midnight. Viewers need not acknowledge, nobody has to plug, watch or
command anything, and `az` may fail.

## Proofs

TLAPS checks these for every number of workers, connections, monitors, requests,
chunks and crashes; the assumptions are those each module states about its
constants (`None` is none of the others; bounds are numbers).

- `ManagedProcessProofs`. `TypeCorrect`: TypeOK is inductive, by one lemma per
  group of variables. `AlwaysSupervised`: Supervised alone is not inductive,
  because a monitor that wakes up with `_stopping` set quits. The invariant
  adds that while a handle is held `_stopping` is clear:
  `proc # None => ~stopping /\ some monitor sleeps`. `ConnectedIsAlwaysServed`:
  inductive as it stands, given types. `VersionsAlwaysAgree`: the invariant
  (`VersionInv`) follows the version from the hello to the read loop: a connection
  has the version its worker put in the hello, a connection that is read has that of
  the running code, a free connection has no worker, and a reload leaves no handler.
  About the time before the first reload, for any number of crashes:
  `LoneWorkerIsAlwaysFound` (`NoOverlap` and `Recoverable`): the invariant
  (`OneAtWork`) says that one task at most is between having seen a death and the next
  spawn, that then there is no worker and no handle, and that a worker is named by the
  PID file and by `_proc`, which only `detach()` lets go of. It needs to know that
  nobody sends SIGTERM and no handshake fails for its version (`OsInv`).
  `WantedIsAlwaysFound` carries this over one reload to the same protocol version, when
  nobody is slower than the pauses (`Prompt`): the invariant (`OneLeft`) allows the task
  in between to wait for the worker that was taken over, if that is the only one, and a
  `stop()` to leave it behind. A reconnection that times out finds it dead. With two
  reloads, one of them after such a `stop()`, it is false.
  `HealthyIsAlwaysSpared` follows: the steps that could hit a worker in service are
  those of a task in between. `StopIsFinalAfterOneCrash`, when `start()` is awaited: up
  to one crash the monitor that `stop()` cancels is the only one (`OneMonitor`), or the
  worker that replaced the crashed one lives. With two crashes it is false, see below.
- `GroupProcessProofs`. `GroupTyped` needs `AckOnce`: `hello_ack` is written once and
  is off the wire before the subprocess takes a message, so that none is taken for it.
  `CallersAreReleasedOnce`: with `FuturesKept` (an open future belongs to a caller that
  waits, is known by its id, and went out on a connection) the end of a handler settles
  every future of its connection, and a settled one is no longer known by its id.
  `CallsAreAtMostOnce`: GroupProcess implements AtMostOnceCalls. The invariant adds
  that there is one copy of a message, on the wire or in the subprocess's hands
  (`OneCopy`), and that results and errors under way or in a future are of messages the
  subprocess has taken (`AnswersEarned`). Then every step is an abstract one, or shows
  its callers nothing.
- `UdpTunnelProofs`. `TunnelTyped`. `ConfirmedIsAlwaysDelivered`: a confirmation
  rests on an ACK, so the invariant says that every ACK under way, and every set
  ACK event, is about a chunk that has been received (`AcksAreEarned`).
  `ConfirmedAreInOrder`: with one sender per end (`OneSender`), a chunk that was
  confirmed was received before every later one. What is under way, queued or received
  was numbered before the next chunk, and the chunk that awaits its ACK is the last one
  numbered (`Numbered`): when it is confirmed nothing later exists, and it has been
  received. With two senders the chunk of one may overtake the other's, which is why
  the assumption is stated.
- `HostTunnelProofs`. `HostTunnelTyped` needs to know what a settled future may
  hold (`PendingKept`). With it, `OnlineIsAlwaysLive` and
  `StrandedWereNeverSent` hold by one invariant, `CallerInv`: an open future
  belongs to a caller that waits and is known to its tunnel; only a running
  tunnel has tasks; what has been picked was running once.
  `RequestsAreAtMostOnce`: HostTunnel implements AtMostOnceCalls. The invariant
  adds that there is one copy of a request, in a queue, on the wire or in the
  client's hands (`OneCopy`), and that answers under way or delivered are about
  requests the client has dealt with (`AnswersEarned`); then every step is one
  of the abstract ones, or changes nothing its callers can see.
  `AnswersAreWhole`: whoever knows how many chunks an answer has (the chunks under
  way, those received, the host's task) knows the same number (`OneTotal`), and the
  indices are below it; as many chunks as that are therefore all of them
  (`EnoughIsAll`, a fact about cardinalities).
- `EnvoyProofs`. `EnvoyTyped`, and `ToolCallsAreAtMostOnce`: Envoy implements
  AtMostOnceCalls, by the argument of HostTunnel. There is one copy of a call, as a
  line under way or in the host's hands (`OneCopy`); results under way, results in
  futures, and calls that a listen loop is in, are of tools that ran (`Earned`). The
  theorems have `EnvoyAssumption` as a hypothesis, since MCAgents has Envoy as an
  instance: calls of both kinds, and the words for lines and outcomes, are distinct.
- `AgentsProofs`, about components of MCAgents. A behaviour of MCAgents is one of a
  single component (`PartStays`), so each proof is about one component's actions and
  the constants MCAgents leaves open. `ToolsAlwaysRunAtMostOnce`: every step of Envoy as
  MCAgents has it is a step of the module EnvoyProofs is about.
  `NothingSaidIsLost`: a message is in the inbox, in the prompts to come, or has been
  shown, and each step that takes it from one puts it into the next; the invariant adds
  that nothing is said before the peers are set up, and that while the loop runs it is
  at one of the two. `GroupsComeWhole`: the proxies of a group come onto the bus in one
  step, the start-up and the other groups touch none of them, since a llming has one
  group, and what takes them off is the shutdown.
  `WhoeverAsksIsAnswered`, by an invariant for each of four components. SseProxy
  (`SseInv`): a request in the pipes is the sole one of its id, and its id is known to be
  its client's. McpBridge (`BridgeInv`): every list a client may have is part of the
  latest, and two lists that have a name agree on its power (`SameTool`). Wire
  (`WireInv`): what is under way is so in the active conversation, a conversation of the
  server is held by one of the browser, as its record, on the page or by the `send()`
  under way (`Holds`), and a session belongs to one conversation of the server. Lens
  (`LensInv`): the grid an agent sees is the one that is remembered. Assumed: ids of two
  clients differ, one agent looks, and, as in the runs, the user of the chat waits.
  `CooldownsAreKept`: a trigger's cooldown counts from its last reaction
  (`CoolsFromReaction`), because it is renewed before the reaction is awaited, and in the
  step that found it over.
  `SessionsAreKept`, by an invariant for each of three components. Sandbox
  (`SandboxInv`): one process at most is at a session, what a destroy has removed stays
  removed until it unlinks the metadata, and what a pass has yet to destroy was used no
  later than anything it lets live, because it takes those than which only few are older.
  ChatBackend (`ChatInv`): while docker answers, every chat is in the cached container,
  which has the bridge's port and a key that is or was valid, and a message that runs
  once more does so with the key that is valid, or the key has been replaced twice
  (`Follows`). Telegram (`TeleInv`): who was told of a new chat has no session under the
  user id, and no context is younger than those that spoke. Assumed, as in the run: users
  do not touch a sandbox while it is destroyed (`Racing`), and no policy names a Telegram
  user; without these it is false, see below.
  `ConnectionsAreWhole`, by an invariant for each of four components. HostStreams
  (`StreamsInv`): while the tunnel is up, a wire carries of a stream exactly the data
  after what has been received up to what was sent, each once and in order (`Carries`);
  towards the host a stream's open comes before all else of it, while its local
  connection is not being opened, and its close follows when the browser has gone
  (`HostSide`). DcProxy (`ProxyInv`): a channel's log starts when its opening ends, what
  is read is logged while it is read, and the frame that waits is newer than those sent
  (`Orderly`). RelaySessions (`RelayInv`): whoever takes a connection out of the table
  has it in a list of its own until it is closed (`Known`), and the loop does not go on
  once it is stopped. HolePunch (`PunchInv`): an address that was announced is the one the
  socket has behind its NAT, and a NAT that lets a probe in has been written through.
  Assumed: a local connection is open before the next message is read (`PromptOpen`),
  there are two peers, and no link has the name of the poller's loop.
- `StoresProofs`, about components of MCStores, in the same way. `ListedIsAlwaysThere`:
  an app's volume and container outlive its record (a thread that removes one has the
  name marked), and no file is older than the row that its reader has, because files
  only get newer and a row is written after its file. `StoresAlwaysKeepTheirWord`: an
  update writes only where it finds a row; what a blob's file holds, and what the call
  under way will write, is among the versions a reader may get, and so is nothing where
  the sidecar lets the blob expire. `SecretsAreAlwaysUsable`: the key in use is the
  keychain's, or the file's where there is none, throughout; a login that may be
  refreshed carries its refresh token wherever it is kept, in the store or in a call;
  what a process is about to write into the token file has every token that it does not
  end. `ViewersNeverMissAnything`: two documents of a key
  never live at a time, because a write inserts only after the one it found is gone
  (`RowsInv`); while the timer runs the pending value is what every watcher should see
  (`PushInv`); a terminal's queue goes on where its scrollback ends, and a viewer has
  all of the scrollback, or all but the chunk that it has still to be sent
  (`GapsInv`). `PlansAreWhole`, by an invariant for each planner. Planner (`PlanInv`):
  what waits for its mesh has an identifier that no component has, and the cell of a
  child is taken before the child is there; so a cell is that of a child of its container
  or of one that is awaited (`OwnCell`), and a removal, which closes over children
  (`Closed`), leaves no parent without its child. What undo and redo put back is a
  machine, or gone (`Past`): a child's cell would not follow it. HomePlanner (`HomeInv`):
  the pieces drawn and those the rebuild has still to draw are those of the floor, and a
  mesh in the scene is that of one piece (`Drawing`). `StoresAreTyped`, all of `TypesOK`:
  `StoresTyped` adds to the invariants above what each of the eleven components still
  needs. A call under way writes only states and values that the code makes
  (`LoginsBounds`, `WriteOf`, `VaultsTypes`); what a record, a task or a reader has is a
  number that was given out before it (`CratesBounds`, `BlobsBounds`, `MadeBounds`);
  attempts to log in pass their limit only by those already let through
  (`PeopleBounds`); a port is published while no other container has it
  (`PortsApart`); a descriptor that is closed is no longer watched (`Descriptors`); a
  rebuild that selects a piece was begun for one (`EditsNumbered`).
  Assumed, as MCStores states it: finitely many browsers, bounds that are numbers, one thread that puts crates, one that
  puts blobs, one process that writes a host's tokens, the event loop alone writing
  vaults; a keychain that always answers or never does; no two creations of one app's
  name at once; planners whose user waits while meshes load. What the code does without some of these is said below.
- `QueueLemmas`: what appending, taking the head and concatenating do to the members
  of a queue in which nothing occurs twice, or in which there is a sole line of a kind.

Only model-checked: liveness (`ServedOrAbandoned`, `ServiceResumes`,
`ToldOnceDone`, `StreamGoesOn`, `WantedComesBack`, `DashboardCatchesUp`) and
ENABLED, which TLAPS does not prove; what recursive definitions compute for every
input, because the library's induction theorems take operators as parameters that no
backend instantiates; modules with RECURSIVE operators, for which there is no SMT
backend. Also still without an
inductive invariant are the types of the components side by side in the other two
unions (`TypesOK` of MCAgents and MCDevices); the proofs above have the part of the
former that each needs.

## Where code and documents disagree

Kept as runs:

- **Crash after a reload** (CrashAfterReload, `AlwaysServed`). Without `_proc` the
  monitor does not notice the death of a worker that was taken over (manager.py:377).
- **A replaced tunnel** (Replaced, `Relayed`). The end of a host's older connection
  takes its newer one out of the registry (server.py:421).
- **A collector that holds the lock** (Collector, `WritesGoThrough`). A round that
  removes nothing does not commit, and every other writer of the file fails
  (storage/scrolls/__init__.py:222).

Kept as properties of their modules, each of which TLC finds violated on a small
instance; they are in no run, because a run would say no more than the sentence here:

- *Managed subprocesses.* `StopIsFinal`: an object that has reconnected has no
  `_proc`, so `stop()` can only send `shutdown`, which a worker still in its
  handshake drops; `start()` in the background clears `_stopping` (manager.py:171)
  after `stop()` has set it; after two crashes a monitor that `start()` no longer
  refers to (172) may restart a stopped service. The PID file does not name a worker
  that such a `stop()` has left, so the next main process does not find it and
  starts a second; that takes two reloads, and the runs of these properties have one. `AlwaysServed` with `Prompt` FALSE:
  a handler that outlives the reconnection of its worker resets the newer
  connection's fields (310-314).
- *Llming groups.* `Reactivated`: llmings are loaded anew after a crash and not
  activated again (plugins.py:119). `OnReadyCalled`, `StopEndsJobs` (Llmings).
- *UDP tunnel.* `OrderedStream`: a chunk whose ACK is late is delivered twice, as
  `recv()` does not look at sequence numbers (tunnel.py:199).
- *Connections.* `StreamsWhole` with `PromptOpen` FALSE: data and close handled
  before the open's task is done are dropped (tunnel_client.py:202).
  `CleanupKeepsRunning` (RelaySessions, three links and offers).
- *Agents.* `OwnConversation` (ChatBackend); `ListIsLive`, and `RunsWhatWasListed`
  with `Unloads` and two sessions (McpBridge); `NothingLost` with `SameMs` (Peers: two
  files of one name); `UnlinkedIsGone` with `Racing` (Sandbox: `_touch` writes the
  metadata of a destroyed session back); `Resumes`, and `Private` with `Patient`
  FALSE (Wire); `NewStartsOver` for a user whose policy is "plain" (Telegram);
  `FirstGetsThrough` for two debounced triggers of the same emitters (Signals);
  `OwnAnswers` with two clients that use one id, which is answered to the one that asked
  last (mcp_proxy.py:338), and with two agents at one lens, which remembers one grid
  (llming_lens.py:637).
- *Stores.* `CacheIsCurrent`, and `OneDocument` with `InThread` (Vaults); `Readable`
  with a keychain that fails at some starts, `RevokedStays` (Credentials);
  `ListedHasData` with `Twice` (HostedApps); `SpawnedIsRead` (Terminals);
  `WholeTree` with `Overlapping` (Planner); `PlacingKeeps`, and `SceneShowsFloor`
  with `Patient` FALSE (HomePlanner).
- *Devices.* `DropsItsOwn` (Streaming, two streams); `OffIsOff` (Cameras).

Outside the properties: with `Prompt` FALSE and a reload, old and new workers may
overlap for as long as SIGTERM takes (manager.py:357-366), and with two protocol
versions a restart made inside the handshake may run beside `start()` and leave
two workers; `NoOverlap`, `Recoverable`, `HealthyIsSpared` and `NoDuplicate` are
therefore checked where the code does keep them.

## Not modelled

Whole parts, because they keep no state that outlives a call, or do nothing but
call the platform: P2P video (media through ffmpeg and aiortc), the docker command
line (what it does to a session is in Sandbox), llming base classes, powers and
manifests (reflection and parsing), wiring and permissions (pure evaluation of rules
over strings, which unit tests enumerate), LLM providers, the remaining llmings,
experiments and scripts, most of `app.py`'s route tables and the command line, the
browser client beyond the chat page, vendored code and assets.

Of the parts modelled: byte layouts, encryption, the text of prompts and pages,
filters and projections of queries, resizing and titles of terminals, frames and
encoders, input events, one of the planner's two dimensions, cameras and materials of
its scene; `pulse_emit` and discovery of llmings; the ProcessManager's loop over its
processes; the chat back end's direct mode; the device tokens' file. The notes in
`PROJECT.json` say it component by component. Nowhere modelled: JSON, wall-clock
time, logging.

## Plan

What is left, the most important first.

1. `TypesOK` of MCAgents and MCDevices, component by component, as of MCStores.
2. The chat back end's direct mode, the device tokens' file, `pulse_emit` once a
   subprocess sends it.
