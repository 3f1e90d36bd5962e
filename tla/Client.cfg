SPECIFICATION Spec
CONSTANTS
  MaxSignIns = 3
  MaxRotations = 2
  CachedChannels = {c1, c2, c3}
  CachedIds = {1, 2, 3}
  Sizes = {1, 2, 5}
  MessagesPerChannel = 2
  TotalBytes = 4
  Clients = {a1, a2, a3}
  CachedGuilds = {g1}
  MaxGeneration = 2
  maxClients = 2
  queueFrames = 2
  RequestIds = {q1, q2, q3}
  MaxSignedIn = 2
  MaxRenewed = 2
  MaxInFlight = 2
  MaxVersion = 3
  Workerless = {1}
  unconfirmedStarts = 2
  maxDownloads = 2
  MaxRuns = 6
  Joiners = {j1}
  MaxCalls = 2
  MaxVoiceSignIns = 2
  Runs = {r1, r2}
  NoRun = NoRun
  loopbackPorts = {p1}
  NoPort = NoPort
  maxFactorAttempts = 2
  pollBackoff = 1
  maxPollInterval = 2
  Interval = 1
  Lifetime = 2
  Commands = {k1}
  MaxProcesses = 3
  restartsWatched = 1
  NoProcess = NoProcess
  SettingValues = {v1}
  Unset = Unset
  maxAttempts = 2
  toggleAttempts = 2
  maxBackups = 1
  MaxSets = 1
  MaxSaves = 2
  MaxToggles = 1
  PortNumbers = {1, 2}
  DefaultAutomationPort = 1
  HomeInstances = {h1, h2}
  Askers = {r3, r4}
  NoOne = NoOne
  MaxOpened = 3
  Scripts = {s1, s2, s3}
  ScriptInstances = {h1, h2}
  EnabledFor = h1
  NoInstance = NoInstance
  maxPending = 1
  MaxAutomationConns = 1
  Burst = 1
INVARIANTS
  TypeOK
  SessionKept
  OneAccountEach
  
  
  

  
CHECK_DEADLOCK FALSE
