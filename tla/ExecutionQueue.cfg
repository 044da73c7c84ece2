CONSTANTS
  Executions = {e1, e2, e3}
  Priorities = {1, 5}
  EXECUTION_QUEUE_MAX_SIZE = 2
  Workers = {w1, w2}
  Threads = {t1, t2}
  MaxSequence = 4
  None = None
SPECIFICATION FairSpec
INVARIANTS QueueInv NoLostWakeup
PROPERTIES ServedInOrder OvertakenOnlyByPriority  ImplementsLine
CHECK_DEADLOCK FALSE
