\* One component at a time; see MCServices.
CONSTANTS
  s1 = s1
  s2 = s2
  a1 = a1
  a2 = a2
  k1 = k1
  k2 = k2
  k3 = k3
  com = com
  cn = cn
  reg = reg
  iana = iana
  Unit = 10
  MaxTime = 3
  Servers = {s1, s2}
  GlobalRate = 15
  ServerRate <- RateOf
  BurstSize = 2
  Scheduled = {s1}
  DefaultInterval = 3
  MinInterval = 1
  MaxInterval = 2
  AdaptPercent = 100
  BackoffInitial = 1
  BackoffMax = 3
  BackoffPercent = 200
  UnhealthyThreshold = 2
  InitialRate = 20
  MinRate = 19
  MaxRate = 20
  RaiseAfter = 2
  KeepAfter = 1
  AdjustEvery = 1
  MaxFlying = 3
  Keys = {k1, k2}
  Admins = {a1, a2}
  PermissionSets <- NoneOrAdmin
  Terms = {"first"}
  GivenPath = "given.json"
  None = None
  Torn = Torn
  Clients = {"client"}
  KeyOf <- KeyOfClient
  RateLimits = {1, 2}
  KeyRateLimit = 1
  Window = 1
  Retention = 2
  Tlds = {com, cn}
  WhoisServers = {reg, iana}
  IanaServer = iana
  DefaultServers <- BuiltIn
  MaxFailures = 2
  NoServer = NoServer
  NoFile = NoFile
  TornFile = TornFile
  SectionTypes = {"off", "local", "custom"}
  Recorded = {"domain"}
  Registrants = {k1, k2}
  Writers = {a1, a2}
  MaxSecond = 1
  MaxSaves = 2
  NoRecord = NoRecord
  HalfWritten = HalfWritten
  Tasks = {k1, k2, k3}
  PriorityOf <- FirstOfThree
  Executors = {"main"}
  MaxConcurrency = 2
  MaxCalls = 2
  Related = {k1, k2, k3}
  WhoisInfos <- TwoRecords
  Normal <- Trimmed
  PrivateKeys = {"hidden"}
  NilInfo = NilInfo
  Absent = Absent
  Groups = {k1, k2}
  Durations = {0, 3}
  WindowSize = 2
  MaxRecords = 3
  Reporters = {a1, a2}
  MaxEvents = 2
  TraceWindow = 1
  Asns = {s1, s2}
  Ranged = {s1}
  Concurrency = 1
  MaxListed = 2
  NotCached = NotCached
  Systems = {1, 2}
  MaxLines = 3
  Names = {"plain", "private"}
  RegistrarNames = {}
  Nil = Nil
SPECIFICATION Spec
INVARIANTS
  TypeOK
  RateHeld
  BackoffHolds
  FileFollows
  WindowHeld
  CheckedServed
  SetupWired
  HistoryKept
  AnsweredOnce
  StrengthShared
  MetricsHold
  BackendsAgree
  BatchCounted
  RelationsMirror
  RecordsCompared
\* Some parts stop at their bounds, and the aggregator when it panics.
CHECK_DEADLOCK FALSE
