SPECIFICATION FairSpec
CONSTANTS
  b1 = b1
  b2 = b2
  p1 = p1
  p2 = p2
  Callers = {p1, p2}
  Branches = {b1, b2}
  NoBranch = NoBranch
  Strategies = {"wait_all", "wait_any", "wait_first", "timeout"}
  MayTimeOut = TRUE
  MayCancel = TRUE
  Reports = 2
CHECK_DEADLOCK FALSE
INVARIANTS TypeOK JoinIsComplete HandledOnce
PROPERTIES WaitEnds
