SPECIFICATION Spec
CONSTANTS
  Focuses = {"gate"}
  RingSize = 2
  InboundIds = {m1, m2}
  BatchSize = 2
  WriteRetries = 2
  MaxInbound = 4
  MaxWriteFaults = 2
  MaxExits = 1
  Bridge = Bridge
  Renamers = {put}
  Deleters = {del}
  NoTask = NoTask
  Absent = Absent
  Threads = 3
  Texts = {"short", "wide"}
  MaxSessionCalls = 4
  MaxSessionFaults = 1
  MaxAges = 1
  MaxReloads = 1
  TgUsers = {a}
  NoList = NoList
  TgPermits = 1
  MaxTgUpdates = 2
  MaxTgFaults = 1
  MaxTgStarts = 2
  MaxTgExits = 1
  MaxTgEvents = 4
  MaxShards = 2
  AgeLimit = 1
  FailureLimit = 2
  MaxDgErrors = 2
  MaxDgMessages = 1
  MaxDgStarts = 2
  FsEvents = {e1, e2}
  Malformed = {e2}
  MaxPushes = 2
  MaxFsDrops = 1
  MaxFsStarts = 2
  MaxCalls = 2
  MaxWxMessages = 2
  MaxWxFaults = 3
  MaxWxExpired = 2
  MaxWxFailures = 2
  MaxQqEvents = 3
  MaxQqSessions = 5
  MaxQqFaults = 3
  Callers = {c1, c2, c3}
  MaxTkRequests = 4
  MaxTkEvents = 2
  Admins = {a1, a2}
  Clients = {k1}
  MaxKeys = 3
  KeyLimit = 2
  SessionLimit = 1
  MaxAkRequests = 3
  MaxAkFaults = 1
  RgRequests = {r1, r2}
  RgSubjects = {s1, s2}
  Window = 3
  RateLimit = 1
  Burst = 1
  QuotaLimit = 1
  Lag = 1
  MaxClock = 5
  MaxRgRequests = 4
  LgRequests = {q1, q2}
  LgSubjects = {b1}
  LgEvents = {p1}
  MaxLgRequests = 3
  MaxLgFaults = 1
  ImUsers = {"a", "b"}
  RouteLimit = 2
  NameLimit = 1
  NameTtl = 2
  NegativeTtl = 1
  MaxImMessages = 4
  MaxImClock = 1
  IpCalls = {"i1", "i2"}
  MaxIpProcesses = 2
  PlPlugins = {"p1"}
  PlKeys = {"k1"}
  MaxPlVersion = 2
  MaxPlOps = 3
  MaxPlFaults = 2
  MaxUpRuns = 3
  MaxUpFaults = 2
  MaxUpWrites = 2
  EsClients = {"w1", "w2"}
  WsLimit = 1
  DropLimit = 1
  AuthLimit = 1
  MaxEsEvents = 4
  WhHooks = 2
  WhPlatforms = {"p1", "p2"}
  PostLimit = 1
  MaxWhEvents = 3
  MgServers = {"g1", "g2"}
  MgReleases = {3, 4}
  MaxMgStarts = 3
  MaxMgFaults = 2
INVARIANT RateIsBounded
CHECK_DEADLOCK FALSE
