SPECIFICATION Spec
CONSTANTS
  None = None
  t1 = t1
  t2 = t2
PROPERTIES
  CapacityIsKept PoolQueueIsKept
CHECK_DEADLOCK FALSE
