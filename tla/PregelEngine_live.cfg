SPECIFICATION FairSpec
CONSTANTS
  v1 = v1
  v2 = v2
  v3 = v3
  Vertices = {v1, v2}
  NumWorkers = 2
  QueueCapacity = 1
  MaxSupersteps = 3
  MaxRetries = 1
  MaxCheckpoints = 1
  Vals = {0}
  InitVal = 0
  Outboxes <- NoneOrAll
  MayTimeOut = TRUE
  MayStop = TRUE
  MaxRuns = 1
  NoTask = NoTask
CHECK_DEADLOCK FALSE
INVARIANTS NoMessageOvertakes
PROPERTIES CallsReturn
