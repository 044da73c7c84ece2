CONSTANTS
  Executions = {e1}
  Priorities = {50}
  EXECUTION_QUEUE_MAX_SIZE = 1
  Workers = {w1}
  Threads = {t1, t2}
  MaxSequence = 2
  None = None
  MaxNodes = 1
  MaxCrashes = 0
SPECIFICATION FairSpec
INVARIANTS ControlConsistent LiveRunsControllable HaltNotLost TerminalMeansOver
PROPERTIES RunsEnd HaltEndsRun
CHECK_DEADLOCK FALSE
