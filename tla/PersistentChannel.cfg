SPECIFICATION Spec
CONSTANTS
  m1 = m1
  m2 = m2
  NoFile = NoFile
  Msgs = {m1, m2}
  Size <- OneAndTwo
  MaxId = 4
  Radix = 3
  MaxSize = 3
  MaxMessages = 2
  EvictOldest = TRUE
  MayExpire = TRUE
  MayCompact = TRUE
  MayCrash = TRUE
  MayFail = TRUE
  MayDamage = TRUE
CHECK_DEADLOCK FALSE
INVARIANTS TypeOK AcceptedIsDurable QueueInOrder SizeIsExact
PROPERTIES NewestIsKept
