SPECIFICATION Spec
CONSTANTS
  t1 = t1
  t2 = t2
  b1 = b1
  b2 = b2
  s1 = s1
  s2 = s2
  NoTrigger = NoTrigger
  Ticker = {t1}
  Booter = {b1, b2}
  Schedule = {s1, s2}
  Trigger <- BothTriggers
  Lists <- TwoReleases
  Single = {}
  Operable = {}
  MaxTime = 3
CHECK_DEADLOCK FALSE
PROPERTIES SyncIsAuthoritative
