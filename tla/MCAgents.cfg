SPECIFICATION Spec
CONSTANTS
  m1 = m1
  m2 = m2
  m3 = m3
  m4 = m4
  m5 = m5
  None = None
  Manager = {m1}
  Sweeper = {m2}
  SandboxId = {m3, m4}
  IdleLimit = 2
  CountLimit = 1
  SpaceLimit = 1
  MaxTouches = 4
  MaxDeaths = 1
  ChatUser = {m1, m2}
  Box = {m3, m4}
  Talk = {m1}
  MaxPort = 2
  MaxKey = 2
  MaxTrouble = 1
  Person = {m1}
  Allowed = {m1}
  MaxMessages = 3
  MaxAttempts = 2
  MaxLosses = 1
  MaxContexts = 2
  MaxRequests = 1
  Device = {m1}
  Link = {m1}
  SdpOffer = {m2, m3, m4}
  MaxFailures = 1
  Socket = {m1, m2}
  MaxTexts = 1
  Channel = {m1}
  HttpReq = {m2}
  MaxData = 2
  Puncher = {m1, m2}
  StunServer <- TwoServers
  MaxProbes = 2
  MaxMishaps = 2
  Conn = {m1, m2}
  ToolCall = {m1, m2}
  LocalCall = {m3}
  Nested <- OneNested
  MaxTurns = 3
  MaxSends = 2
  Local <- TwoLocal
  Member <- TwoGroups
  Waits <- OneWaits
  Connector = {m2}
  Listens = TRUE
  Unloads = TRUE
  Client = {m1, m2}
  Id = {1, 2, 3}
  Uses <- IdsOf
  StdioTool = {m3, m4}
  Allow = {m3}
  Deny = {}
  McpSession = {m1, m2}
  Provider = {m1, m2}
  Power = {m3}
  MaxCalls = 2
  Conv = {m1, m2}
  MaxQuestions = 3
  MaxServer = 3
  MaxSession = 3
  MaxRestarts = 1
  Agent = {m1}
  Window = {m2}
  Desktop = m3
  Cell = {m3}
  Given = m4
  MaxDepth = 2
  MaxKeys = 1
  Timer = {m1}
  Watcher = {m2}
  Value = {"low", "high"}
  Trigger <- TwoTriggers
  Hears <- BothHear
  Wants <- EachWants
  Pipeline <- OneAggregates
  ScreenPipeline <- OneDebounces
  Cooldown <- OneCools
  Period = 1
  Batch = 2
  IdleAfter = 1
  MaxClock = 2
INVARIANTS TypesOK   GroupComesWhole 
PROPERTIES  ToolsRunAtMostOnce CooldownKept
\* messages, crashes and commands are bounded: a component may come to its end
CHECK_DEADLOCK FALSE
