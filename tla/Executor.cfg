SPECIFICATION Spec
CONSTANTS
  a = a
  b = b
  e1 = e1
  e2 = e2
  g1 = g1
  NodeIds = {a, b}
  NoId = NoId
  Executions = {e1, e2}
  Graphs = {g1}
  NoGraph = NoGraph
  NodeChoices <- MCNodeChoices
  EdgeChoices <- MCEdgeChoices
  Literals <- MCLiterals
  MaxEdges = 2
  Requests <- MCRequests
  Inputs <- MCInputs
  DefaultMaxSteps = 3
  DefaultEvery = 2
  KeepsConfig = {TRUE, FALSE}
  MaxCheckpoints = 1
  Streaming = {e1, e2}
  Subscriptions = {1}
CHECK_DEADLOCK FALSE
INVARIANTS RegistryMatches AcyclicVisitsOnce CheckpointCountsSteps MetricsAddUp
SYMMETRY MCSymmetry
