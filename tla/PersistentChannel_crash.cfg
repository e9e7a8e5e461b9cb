SPECIFICATION Spec
CONSTANTS
  m1 = m1
  m2 = m2
  NoFile = NoFile
  Msgs = {m1}
  Size <- OneEach
  MaxId = 2
  Radix = 10
  MaxSize = 3
  MaxMessages = 0
  EvictOldest = FALSE
  MayExpire = FALSE
  MayCompact = FALSE
  MayCrash = TRUE
  MayFail = FALSE
  MayDamage = FALSE
CHECK_DEADLOCK FALSE
INVARIANTS HeadIsReadable
