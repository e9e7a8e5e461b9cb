SPECIFICATION Spec
CONSTANTS
  v1 = v1
  v2 = v2
  v3 = v3
  Vertices = {v1, v2}
  NumWorkers = 2
  QueueCapacity = 1
  MaxSupersteps = 2
  MaxRetries = 1
  MaxCheckpoints = 1
  Vals = {0}
  InitVal = 0
  Outboxes <- NoneOrAll
  MayTimeOut = FALSE
  MayStop = FALSE
  MaxRuns = 1
  NoTask = NoTask
CHECK_DEADLOCK FALSE
PROPERTIES MessagesReachNextSuperstep
