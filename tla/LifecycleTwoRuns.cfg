CONSTANTS
  Executions = {e1, e2}
  Priorities = {50}
  EXECUTION_QUEUE_MAX_SIZE = 1
  Workers = {w1}
  Threads = {t1}
  MaxSequence = 2
  None = None
  MaxNodes = 1
  MaxCrashes = 1
SPECIFICATION Spec
SYMMETRY ExecutionSymmetry
INVARIANTS LifecycleInv
CHECK_DEADLOCK FALSE
