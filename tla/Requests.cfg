SPECIFICATION RequestsSpec
CONSTANTS
  None = None
  Absent = Absent
  u1 = u1
  u2 = u2
  p1 = p1
  d1 = d1
  Requests = {r1}
  Urls = {u1, u2}
  FirstWorkers <- TwoWorkers
  MaxWorkers = 3
  MaxRetries = 2
  PdRequests = {q1, q2}
  Hosts = {p1, d1}
  Prefills = {p1}
  Decodes = {d1}
  Keys <- SomeKeys
  PingTime = 1
  Deployments <- SomeDeployments
  MaxObjects = 2
  MaxEngines = 2
  MaxLoad = 2
  MaxLeaves = 1
  Proxied = {c1}
  ProxyWorkers = {w1, w2}
  NoWorker = NoWorker
  PoolChoices <- SomePools
  StartupTimeout = 1
  FailureLimit = 3
  SuccessLimit = 2
  MaxOutages = 3
INVARIANTS
  OneDispatchAtATime PdIsAccounted ReportsAreTruthful
PROPERTIES
  RequestsSettle IdentityHeals ChecksDecide HealthIsTrue
CHECK_DEADLOCK FALSE
