CONSTANTS
  Streams = {s1, s2}
  Threads = {}
  Loop = Loop
  EXECUTION_STREAM_QUEUE_SIZE = 3
  EXECUTION_LOG_BUFFER_SIZE = 6
  MaxEvents = 1
  MaxOpens = 1
SPECIFICATION FairSpec
PROPERTIES StreamEnds
CHECK_DEADLOCK FALSE
