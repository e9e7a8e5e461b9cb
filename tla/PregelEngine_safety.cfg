SPECIFICATION Spec
CONSTANTS
  v1 = v1
  v2 = v2
  v3 = v3
  Vertices = {v1, v2}
  NumWorkers = 2
  QueueCapacity = 1
  MaxSupersteps = 2
  MaxRetries = 1
  MaxCheckpoints = 1
  Vals = {0, 1}
  InitVal = 0
  Outboxes <- NoMessages
  MayTimeOut = TRUE
  MayStop = FALSE
  MaxRuns = 2
  NoTask = NoTask
SYMMETRY VertexSymmetry
CHECK_DEADLOCK FALSE
INVARIANTS TypeOK ExactlyOnce Barrier ResultsNeverBlock AllOrNothing RetryBudget
