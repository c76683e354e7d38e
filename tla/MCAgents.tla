------------------------------- MODULE MCAgents -------------------------------
(***************************************************************************)
(* Small instances, for TLC, of what runs agents and of what connects them *)
(* to tools, users and viewers.  The components share no state, so that a  *)
(* behaviour of this module is one of a single component: the state space  *)
(* is the disjoint union of theirs.                                        *)
(***************************************************************************)
EXTENDS Naturals, TLC

CONSTANTS
  m1, m2, m3, m4, m5, None,
  Manager, Sweeper, SandboxId, IdleLimit, CountLimit, SpaceLimit,
  MaxTouches, MaxDeaths,                            \* of Sandbox
  ChatUser, Box, Talk, MaxPort, MaxKey, MaxTrouble, \* of ChatBackend
  Person, Allowed, MaxMessages, MaxAttempts, MaxLosses, MaxContexts,
  MaxRequests,                                      \* of Telegram
  Conn, ToolCall, LocalCall, Nested,                \* of Envoy
  MaxTurns, MaxSends,                               \* of Peers
  Local, Member, Waits, Connector, Listens, Unloads, \* of Llmings
  Client, Id, Uses, StdioTool, Allow, Deny,         \* of SseProxy
  McpSession, Provider, Power, MaxCalls,            \* of McpBridge
  Conv, MaxQuestions, MaxServer, MaxSession, MaxRestarts, \* of Wire
  Agent, Window, Desktop, Cell, Given, MaxDepth, MaxKeys, \* of Lens
  Timer, Watcher, Value, Trigger, Hears, Wants, Pipeline, ScreenPipeline,
  Cooldown, Period, Batch, IdleAfter, MaxClock,     \* of Signals, a watcher polls a
                                                    \* value in Si, a screen in Sc
  Device, Link, SdpOffer, MaxFailures,              \* of RelaySessions
  Socket, MaxTexts,                                 \* of HostStreams
  Channel, HttpReq, MaxData,                        \* of DcProxy
  Puncher, StunServer, MaxProbes, MaxMishaps        \* of HolePunch

VARIABLES
  part,  \* the component this behaviour is one of
  v1, v2, v3, v4, v5, v6, v7, v8, v9, v10, v11, v12, v13, v14, v15, v16, v17

all == <<part, v1, v2, v3, v4, v5, v6, v7, v8, v9, v10, v11, v12, v13, v14, v15, v16,
          v17>>

\* A behaviour is of one component, which has the first n variables; the others rest.
Is(p) == part = p

Unused(n) ==
  /\ (n < 9 => v9 = 0) /\ (n < 10 => v10 = 0) /\ (n < 11 => v11 = 0) /\ (n < 12 => v12 = 0)
  /\ (n < 13 => v13 = 0) /\ (n < 14 => v14 = 0) /\ (n < 15 => v15 = 0) /\ (n < 16 => v16 = 0)
  /\ (n < 17 => v17 = 0)

Resting(n) ==
  /\ part' = part
  /\ (n < 9 => v9' = v9) /\ (n < 10 => v10' = v10) /\ (n < 11 => v11' = v11)
  /\ (n < 12 => v12' = v12) /\ (n < 13 => v13' = v13) /\ (n < 14 => v14' = v14)
  /\ (n < 15 => v15' = v15) /\ (n < 16 => v16' = v16) /\ (n < 17 => v17' = v17)

\* A tool that calls a tool of the sandbox.
OneNested == m3 :> m1

\* Two llmings in the main process, of which the first waits for the second and for
\* one of a group, and two groups.
TwoLocal  == <<m1, m2>>
TwoGroups == ("g" :> <<m3, m4>>) @@ ("h" :> <<m5>>)
OneWaits  == m1 :> {m2, m5}

\* The STUN servers, in the order they are asked.
TwoServers == <<m3, m4>>

\* The request ids of two clients.
IdsOf == (m1 :> {1, 2}) @@ (m2 :> {3})

\* Two triggers that several emitters meet, one of which has a cooldown.
TwoTriggers   == <<m3, m4>>
BothHear      == (m3 :> {m1, m2}) @@ (m4 :> {m2})
EachWants     == (m3 :> {"low", "changed", "idle"}) @@ (m4 :> {"low", "high", "idle"})
OneAggregates == (m3 :> "debounce") @@ (m4 :> "aggregate")
OneDebounces  == (m3 :> "none") @@ (m4 :> "debounce")
OneCools      == (m3 :> 1) @@ (m4 :> 0)

-------------------------------------------------------------------------------
Sb == INSTANCE Sandbox WITH User <- Manager, Reaper <- Sweeper, Sid <- SandboxId,
  Timeout <- IdleLimit, MaxSessions <- CountLimit, MaxVolumes <- SpaceLimit,
  Racing <- FALSE, MaxTime <- MaxTouches, MaxCrashes <- MaxDeaths,
  active <- v1, box <- v2, volume <- v3, used <- v4, held <- v5, doing <- v6,
  clock <- v7, crashes <- v8

Ch == INSTANCE ChatBackend WITH User <- ChatUser, Conv <- Talk, bridge <- v1,
  ports <- v2, cached <- v3, box <- v4, stored <- v5, chat <- v6, msg <- v7,
  clearing <- v8, cachedKey <- v9, validKey <- v10, convs <- v11, resets <- v12,
  trouble <- v13

En == INSTANCE Envoy WITH Call <- ToolCall, Local <- LocalCall, ctl <- v1,
  tools <- v2, handler <- v3, caller <- v4, fut <- v5, toHost <- v6, toEnvoy <- v7,
  client <- v8, listen <- v9, ran <- v10, local <- v11, shut <- v12

Pe == INSTANCE Peers WITH SameMs <- FALSE, at <- v1,
  running <- v2, turn <- v3, pending <- v4, done <- v5, resume <- v6, inbox <- v7,
  status <- v8, sent <- v9, seen <- v10

Ss == INSTANCE SseProxy WITH Tool <- StdioTool, up <- v1, process <- v2,
  reader <- v3, stream <- v4, queue <- v5, asked <- v6, stdin <- v7, stdout <- v8,
  posted <- v9, got <- v10

Mb == INSTANCE McpBridge WITH Session <- McpSession, Llming <- Provider,
  Unloads <- FALSE, live <- v1, cache <- v2, fresh <- v3, routing <- v4,
  stream <- v5, known <- v6, calls <- v7, waiting <- v8, ran <- v9

Mu == INSTANCE McpBridge WITH Session <- {m1}, Llming <- {m1, m2}, Power <- {m3},
  Unloads <- TRUE, MaxCalls <- 1, live <- v1, cache <- v2, fresh <- v3, routing <- v4,
  stream <- v5, known <- v6, calls <- v7, waiting <- v8, ran <- v9

Ll == INSTANCE Llmings WITH instances <- v1, bus <- v2, active <- v3, channels <- v4,
  jobs <- v5, working <- v6, starter <- v7, stopper <- v8, ready <- v9, fired <- v10,
  commands <- v11, task <- v12, process <- v13

Tg == INSTANCE Telegram WITH Policy <- [p \in Person |-> "none"], polling <- v1,
  ipc <- v2, losses <- v3, sent <- v4, pipe <- v5, dropped <- v6, handling <- v7,
  sessions <- v8, contexts <- v9, renew <- v10, spoke <- v11, out <- v12, told <- v13,
  asked <- v14, request <- v15, reader <- v16

Si == INSTANCE Signals WITH Poller <- Watcher, Screen <- {}, Window <- Period,
  Count <- Batch, Idle <- IdleAfter, MaxTime <- MaxClock,
  now <- v1, on <- v2, job <- v3, sig <- v4, rest <- v5, busy <- v6, world <- v7,
  last <- v8, since <- v9, idle <- v10, cooled <- v11, debounced <- v12,
  gathered <- v13, fired <- v14, starved <- v15

Sc == INSTANCE Signals WITH Poller <- {}, Screen <- Watcher, Pipeline <- ScreenPipeline,
  Window <- Period, Count <- Batch, Idle <- IdleAfter, MaxTime <- 1, now <- v1,
  on <- v2, job <- v3, sig <- v4, rest <- v5, busy <- v6, world <- v7, last <- v8,
  since <- v9, idle <- v10,
  cooled <- v11, debounced <- v12, gathered <- v13, fired <- v14, starved <- v15

Re == INSTANCE RelaySessions WITH Offer <- SdpOffer, running <- v1, paired <- v2, pending <- v3, inbox <- v4,
  asks <- v5, batch <- v6, token <- v7, carries <- v8, reconnect <- v9,
  failures <- v10, pc <- v11, told <- v12, sessions <- v13, finishing <- v14,
  dead <- v15, closing <- v16, loop <- v17

Hs == INSTANCE HostStreams WITH Stream <- Socket, MaxData <- MaxTexts, PromptOpen <- TRUE,
  tunnel <- v1, browser <- v2, clients <- v3, down <- v4, up <- v5, opening <- v6,
  table <- v7, forward <- v8, local <- v9, sent <- v10, answered <- v11,
  atLocal <- v12, atBrowser <- v13

Dc == INSTANCE DcProxy WITH Stream <- Channel, Req <- HttpReq, http <- v1,
  request <- v2, asked <- v3, opening <- v4, table <- v5, local <- v6, reading <- v7,
  slot <- v8, sending <- v9, texts <- v10, frames <- v11, typed <- v12, heard <- v13,
  log <- v14

Hp == INSTANCE HolePunch WITH Peer <- Puncher, Server <- StunServer,
  MaxTrouble <- MaxMishaps, nat <- v1, opened <- v2, stage <- v3, at <- v4, found <- v5,
  inbox <- v6, target <- v7, probes <- v8, heard <- v9, net <- v10, trouble <- v11

Wi == INSTANCE Wire WITH Patient <- TRUE, MaxSends <- MaxQuestions, db <- v1,
  fresh <- v2, said <- v3, asked <- v4, active <- v5, serverConvId <- v6,
  sessionId <- v7, opening <- v8, sending <- v9, calling <- v10, conversations <- v11,
  context <- v12, heard <- v13,
  made <- v14, restarts <- v15

Le == INSTANCE Lens WITH Client <- Agent, open <- v1, front <- v2, user <- v3,
  grid <- v4, got <- v5, zoomed <- v6, typing <- v7, landed <- v8, shooting <- v9,
  preview <- v10

\* The constants of every component are as it assumes.
ASSUME MCAgentsAssumption ==
  /\ Sb!SandboxAssumption /\ Ch!ChatBackendAssumption
  /\ En!EnvoyAssumption /\ Pe!PeersAssumption
  /\ Ss!SseProxyAssumption /\ Mb!McpBridgeAssumption
  /\ Mu!McpBridgeAssumption /\ Ll!LlmingsAssumption
  /\ Tg!TelegramAssumption /\ Re!RelaySessionsAssumption
  /\ Hs!HostStreamsAssumption /\ Dc!DcProxyAssumption
  /\ Wi!WireAssumption /\ Le!LensAssumption
  /\ Si!SignalsAssumption /\ Sc!SignalsAssumption /\ Hp!HolePunchAssumption

-------------------------------------------------------------------------------
Init ==
  \/ Is("sandbox")  /\ Sb!Init /\ Unused(8)
  \/ Is("chat")     /\ Ch!Init /\ Unused(13)
  \/ Is("envoy")    /\ En!Init /\ Unused(12)
  \/ Is("peers")    /\ Pe!Init /\ Unused(10)
  \/ Is("sse")      /\ Ss!Init /\ Unused(10)
  \/ Is("bridge")   /\ Mb!Init /\ Unused(9)
  \/ Is("unloads")  /\ Mu!Init /\ Unused(9)
  \/ Is("llmings")  /\ Ll!Init /\ Unused(13)
  \/ Is("telegram") /\ Tg!Init /\ Unused(16)
  \/ Is("signals")  /\ Si!Init /\ Unused(15)
  \/ Is("screens")  /\ Sc!Init /\ Unused(15)
  \/ Is("relay")    /\ Re!Init /\ Unused(17)
  \/ Is("streams")  /\ Hs!Init /\ Unused(13)
  \/ Is("proxy")    /\ Dc!Init /\ Unused(14)
  \/ Is("punch")    /\ Hp!Init /\ Unused(11)
  \/ Is("wire")     /\ Wi!Init /\ Unused(15)
  \/ Is("lens")     /\ Le!Init /\ Unused(10)

Next ==
  \/ Is("sandbox")  /\ Sb!Next /\ Resting(8)
  \/ Is("chat")     /\ Ch!Next /\ Resting(13)
  \/ Is("envoy")    /\ En!Next /\ Resting(12)
  \/ Is("peers")    /\ Pe!Next /\ Resting(10)
  \/ Is("sse")      /\ Ss!Next /\ Resting(10)
  \/ Is("bridge")   /\ Mb!Next /\ Resting(9)
  \/ Is("unloads")  /\ Mu!Next /\ Resting(9)
  \/ Is("llmings")  /\ Ll!Next /\ Resting(13)
  \/ Is("telegram") /\ Tg!Next /\ Resting(16)
  \/ Is("signals")  /\ Si!Next /\ Resting(15)
  \/ Is("screens")  /\ Sc!Next /\ Resting(15)
  \/ Is("relay")    /\ Re!Next /\ Resting(17)
  \/ Is("streams")  /\ Hs!Next /\ Resting(13)
  \/ Is("proxy")    /\ Dc!Next /\ Resting(14)
  \/ Is("punch")    /\ Hp!Next /\ Resting(11)
  \/ Is("wire")     /\ Wi!Next /\ Resting(15)
  \/ Is("lens")     /\ Le!Next /\ Resting(10)

Spec == Init /\ [][Next]_all

-------------------------------------------------------------------------------
\* The state of every component has its shape, whatever happens to it.
TypesOK ==
  /\ Is("sandbox")  => Sb!SandboxTypeOK
  /\ Is("chat")     => Ch!ChatTypeOK
  /\ Is("envoy")    => En!EnvoyTypeOK
  /\ Is("peers")    => Pe!PeersTypeOK
  /\ Is("sse")      => Ss!SseTypeOK
  /\ Is("bridge")   => Mb!BridgeTypeOK
  /\ Is("unloads")  => Mu!BridgeTypeOK
  /\ Is("llmings")  => Ll!LlmingsTypeOK
  /\ Is("telegram") => Tg!TelegramTypeOK
  /\ Is("signals")  => Si!SignalsTypeOK
  /\ Is("screens")  => Sc!SignalsTypeOK
  /\ Is("relay")    => Re!RelayTypeOK
  /\ Is("streams")  => Hs!StreamsTypeOK
  /\ Is("proxy")    => Dc!DcTypeOK
  /\ Is("punch")    => Hp!HolePunchTypeOK
  /\ Is("wire")     => Wi!WireTypeOK
  /\ Is("lens")     => Le!LensTypeOK

\* What a reaper is still to destroy has been idle longest, and the metadata of a
\* sandbox goes last, so that nothing is lost sight of; the container of every chat
\* follows the bridge to its new port, and a message is given up only when the key
\* was replaced again or docker failed; after /new a Telegram user whom no policy
\* names is not answered from the old conversation (sandbox/reaper.py, session.py,
\* ext/chat_backend.py, telegram_connector.py).
SessionsKept ==
  /\ [](Is("sandbox") => Sb!IdleLongestGoFirst)
  /\ [](Is("chat") => Ch!ContainerFollowsBridge /\ Ch!GivesUpForCause)
  /\ [][/\ Is("sandbox")  => Sb!UnlinkedIsGone
        /\ Is("telegram") => Tg!NewStartsOver]_all

\* A call through the envoy is one of AtMostOnceCalls, over reconnections of the
\* host, answers after the timeout, and calls in both directions (envoy/server.py).
ToolsRunAtMostOnce ==
  /\ Is("envoy") => En!Calls!InitCalls
  /\ [][Is("envoy") => [En!Calls!NextCalls]_(En!CallsSeen)]_all

\* A message between two sandboxed peers waits in the directory or for a prompt, or
\* has been shown; no turn passes with neither at work (sandbox/peer_orchestrator.py).
PeersNothingLost == Is("peers") => Pe!NothingLost /\ Pe!SomebodyWorks

\* Whoever asks gets what was asked for: over one MCP process for several streams,
\* in a list of tools that changes, in the conversation of the page that was open,
\* and in the cell of the grid that was seen (sandbox/mcp_proxy.py,
\* mcp/proxy_bridge.py, llming_wire/static/cards.js, llming_lens.py).
OwnAnswers ==
  /\ Is("sse")    => Ss!OwnAnswers
  /\ Is("bridge") => Mb!RunsWhatWasListed
  /\ Is("wire")   => Wi!Private
  /\ Is("lens")   => Le!ZoomShowsTheCell

\* A group of llmings whose start is cut short is not half on the bus, while the
\* start, the groups' tasks and the shutdown run at the same time (plugins.py).
GroupComesWhole == Is("llmings") => Ll!GroupComesWhole

\* Two reactions of a trigger are a cooldown apart, also when several emitters'
\* signals meet it while a reaction is awaited (signals/engine.py).
CooldownKept ==
  [][(Is("signals") => Si!CooldownKept) /\ (Is("screens") => Sc!CooldownKept)]_all

\* A WebSocket through the tunnel, or a DataChannel, carries everything in order and
\* ends at both ends; no peer connection stays open that no table knows; where hole
\* punching succeeds data goes through (access/server.py, tunnel_client.py,
\* peer2peer/dc_proxy.py, relay_poller.py, punch.py).
ConnectionsWhole ==
  /\ Is("streams") => Hs!StreamsWhole
  /\ Is("proxy")   => Dc!ViewerSeesAStream
  /\ Is("relay")   => Re!NoPeerLost
  /\ Is("punch")   => Hp!PathWorks

===============================================================================
