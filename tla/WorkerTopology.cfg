SPECIFICATION Spec
CONSTANTS
  None = None
  h1 = h1
  h2 = h2
  c1 = c1
  c2 = c2
  m1 = m1
  Hosts = {h1, h2}
  MaxDp = 2
  Configs <- SomeConfigs
  Models = {m1}
  Callers = {c1, c2}
  Pods = {h2}
  FirstHosts <- OneHost
  MaxWorkers = 4
  MaxRevision = 2
INVARIANTS
  TopologyIsCoherent CacheIsCurrent
PROPERTIES
  TargetsConverge
CHECK_DEADLOCK FALSE
