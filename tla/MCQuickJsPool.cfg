SPECIFICATION Spec
CONSTANTS
  Calls = {c1, c2, c3}
  MaxWorkers = 2
  Faults = TRUE
  None = None
INVARIANTS
  PendingCounts
  DropLeavesNothing
  NobodyIsStuck
PROPERTIES
  CallsAreAnswered
  PoolIsDropped
  ImplementsRuntimePool
CHECK_DEADLOCK FALSE
