\* Programs larger than the low watermark, so that only force deadlines admit them.
SPECIFICATION ProgressSpec
CONSTANTS
  LiveParts = {"scheduler", "breaker", "limiter", "wasm"}
  None = None
  t1 = t1
  t2 = t2
  Keys = {1, 2}
  Targets = {t1}
  Pools = {"A"}
  PoolOf <- OnePool
  MaxActive = 1
  Capacity = 2
  High = 2
  Low = 2
  DecodeBuffer = 1
  AverageCompletion = 0
  HeadroomRatio = 1
  MaxSegmentRounds = 1
  ResumeOrder = "fcfs"
  GlobalQueue = FALSE
  BindingOnly = FALSE
  MaxRequests = 2
  MaxSyncs = 0
  Snapshots <- AnySnapshot
  InitialTargets = {t1}
  Contexts = {2}
  Hints <- PlainHints
  Deadlines = {"armed"}
  Estimates = {None}
  BackendWaiting = {FALSE}
  Terminations = {FALSE}
  NoThread = NoThread
  Threads = {a, b}
  FailureThreshold = 2
  SuccessThreshold = 2
  MaxCalls = 5
  Callers = {x1, x2, x3}
  BucketCapacity = 1
  Unit = 2
  Rate = 1
  QueueSize = 1
  QueueTimeout = 2
  WasmCallers = {"c1", "c2", "c3"}
  GuestWorkers = {"g1"}
  QueueCapacity = 2
INVARIANTS
  NoLostTransition BurstWithinCapacity
PROPERTIES
  ProgramsAreServed WasmIsSafe GuardsServe
CHECK_DEADLOCK FALSE
