SPECIFICATION FairSpec
CONSTANTS
  p1 = p1
  p2 = p2
  p3 = p3
  m1 = m1
  m2 = m2
  bad = bad
  NoMsg = NoMsg
  Invalid = {bad}
  Procs = {p1, p2, p3}
  Msgs = {m1, m2}
  Capacity = 2
INVARIANTS TypeOK NoLostWakeup
PROPERTIES ImplementsMessageChannel WaitersServed
