SPECIFICATION Spec
CONSTANTS
  p1 = p1
  p2 = p2
  c1 = c1
  c2 = c2
  NoId = NoId
  Cleaner = Cleaner
  Procs = {p1, p2}
  Ids = {c1, c2}
  Size <- SizeOne
  MaxMemory = 1
  MaxSaves = 2
CHECK_DEADLOCK FALSE
INVARIANTS EvictionProceeds
