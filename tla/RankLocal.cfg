\* Rank-local queues, count guard, one change of the pool (to no rank at all, too).
SPECIFICATION Spec
CONSTANTS
  None = None
  t1 = t1
  t2 = t2
  Keys = {1, 2}
  Targets = {t1, t2}
  Pools = {"A"}
  PoolOf <- OnePool
  MaxActive = 1
  Capacity = None
  High = 0
  Low = 0
  DecodeBuffer = 1
  AverageCompletion = 0
  HeadroomRatio = 1
  MaxSegmentRounds = 1
  ResumeOrder = "fcfs"
  GlobalQueue = FALSE
  BindingOnly = FALSE
  MaxRequests = 3
  MaxSyncs = 1
  Snapshots <- AnySnapshot
  InitialTargets = {t1}
  Contexts = {1}
  Hints <- PlainHints
  Deadlines = {"armed"}
  Estimates = {None}
  BackendWaiting = {FALSE}
  Terminations = {FALSE}
INVARIANTS
  StateIsCoherent NoLostWakeup
PROPERTIES
  PassesAreExact ImplementsService
CHECK_DEADLOCK FALSE
