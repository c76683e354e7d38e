SPECIFICATION Spec
CONSTANTS
  None = None
  Viewer = {m1, m2}
  MaxVersion = 3
  MaxCrashes = 1
  Process = {m1, m2}
  Doc = {m3}
  MaxCount = 1
  Crate = {m1}
  FileOf <- OwnFile
  Owner = {m2}
  Reader = {m3}
  Executor = {m1}
  Key = {m2}
  MaxKills = 2
  Cred = {m1, m2}
  Oauth = {m1}
  Checked = {m2}
  Flow = {m3}
  Keychain = "absent"
  MaxSets = 1
  MaxStarts = 3
  Call = {m1, m2}
  MaxFlows = 1
  MaxRestarts = 1
  User = {m1}
  Host = {m2}
  Home = m2
  Browser = {m3}
  Server = {m1}
  Mongo = FALSE
  FixedSecret = FALSE
  MaxAttempts = 1
  MaxFailures = 1
  MaxTokens = 2
  MaxServerStarts = 1
  App = {m1}
  Worker = {m2, m3}
  Port = {m4}
  Tab = {m1}
  MaxMade = 3
  Failing = TRUE
  Term = {m1, m2}
  Watcher = {m3}
  MaxFd = 4
  MaxOut = 2
  MaxLine = 1
  MaxId = 3
  LetGo = {0, 4}
  MaxWidth = 3
  MaxLevels = 1
  MaxLinks = 1
  MaxHistory = 2
  MachineInner = 2
  SubInner = 2
  MinInner = 2
  Floor = {0, 1}
  Edge <- TwoEdges
  Spot = {0, 1}
  Preset <- TwoPresets
  Width <- DoorsAlone
  MaxEdits = 3
INVARIANTS TypesOK    
 
\* messages, crashes and commands are bounded: a component may come to its end
CHECK_DEADLOCK FALSE
