CONSTANTS
  Streams = {s1}
  Threads = {t1}
  Loop = Loop
  EXECUTION_STREAM_QUEUE_SIZE = 3
  EXECUTION_LOG_BUFFER_SIZE = 4
  MaxEvents = 2
  MaxOpens = 2
SPECIFICATION FairSpec
INVARIANTS  EngineEventsInOrder
 
CHECK_DEADLOCK FALSE
