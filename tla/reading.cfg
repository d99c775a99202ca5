CONSTANTS
  s1 = s1
  s2 = s2
  Server = {s1, s2}
  Owner = s1
  Reader = {s1}
  Crashing = {s1}
  Pages = 2
  a = a
  b = b
  k1 = k1
  k2 = k2
  r1 = r1
  r2 = r2
  i1 = i1
  i2 = i2
  i3 = i3
  Reads = {r1, r2}
  Key = {k1, k2}
  RoomBound = {k2}
  Documents <- ThreeDocuments
  Limits = {2, 3}
  MaxSessions = 2
  Expiring = TRUE
  MaxReads = 4
  Calls = {i1, i2, i3}
  Caller = {a, b}
  Serial = {a}
  KeyOf <- OneKeyEach
  MaxProcesses = 2
  MaxClients = 3
  CacheLimit = 1
  Faults = {"start", "read", "connect", "transport"}
  Deployment <- FiveEnvironments
  MaxOptional = 2
  Jobs <- MCJobs
  MaxCapture = 2
  MaxOutput = 3
  Beyond = {"far"}
  Refused = {"wait"}
  TinySource = TRUE
SPECIFICATION MCSpec
CONSTRAINT TypesHold
INVARIANTS EvidenceIsKept ReadThroughAnyClone EvidenceIsTrue PagesJoinUp AliasFollowsReader ClientsOutliveCalls CallsSurviveTheirSchemas
CHECK_DEADLOCK FALSE
