SPECIFICATION ServicesSpec
CONSTANTS
  a = a
  b = b
  c = c
  e1 = e1
  g1 = g1
  Vertices = {a, b, c}
  MaxCount = 2
  SourceVertex = a
  RankUnit = 100
  Damping = 85
  Convergence = 1
  MaxSupersteps = 2
  NumPartitions = 2
  BlockSize = 2
  BatchSize = 2
  MaxRuns = 2
  FirstStates <- MCFirst
  MailValues <- MCMail
  MaxMail = 3
  ProgramStates <- MCProgramStates
  NodeIds = {a, b, c}
  NoId = NoId
  Executions = {e1}
  Graphs = {g1}
  NoGraph = NoGraph
  NodeChoices <- MCNodeChoices
  EdgeChoices <- MCEdgeChoices
  Literals <- MCLiterals
  MaxEdges = 5
  Requests <- MCRequests
  Inputs <- MCInputs
  DefaultMaxSteps = 2
  DefaultEvery = 2
  KeepsConfig = {TRUE, FALSE}
  MaxCheckpoints = 1
  PriorCheckpoints <- MCPrior
  Streamers = {e1}
  StreamCapacity = 2
  MaxEmitted = 6
  c1 = c1
  c2 = c2
  k1 = k1
  k2 = k2
  Clients = {c1, c2}
  NoClient = NoClient
  Keys = {k1, k2}
  NoRef = NoRef
  NoChannel = NoChannel
  MaxVersion = 1
  MaxCopies = 2
  UpdateCapacity = 1
  Interrupts = {i1}
  Responders = {r1, r2, r3}
  Nobody = Nobody
  Kinds = {"int", "string"}
  MaxArray = 4
  MaxHeld = 8
  FirstArrays <- MCArrays
  FirstHeld <- MCHeld
  NoMsg = NoMsg
  Invalid = {bad}
  Procs = {p1, p2, p3}
  Msgs = {m1, m2}
  Capacity = 2
SYMMETRY ServicesSymmetry
CHECK_DEADLOCK FALSE
INVARIANTS CombiningIsTransparent HandledInOrder OutputIsComplete LoadIsSnapshot RespondOnce CycleCheckIsExact ReduceIsPure
PROPERTIES ImplementsAtomicSupersteps ImplementsWhileOpen
