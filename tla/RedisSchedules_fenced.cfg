SPECIFICATION Spec
CONSTANTS
  t1 = t1
  t2 = t2
  b1 = b1
  b2 = b2
  s1 = s1
  s2 = s2
  NoTrigger = NoTrigger
  Ticker = {t1, t2}
  Booter = {b1}
  Schedule = {s1}
  Trigger <- BothTriggers
  Lists = {{s1}, {}}
  Single = {s1}
  Operable = {s1}
  MaxTime = 3
CHECK_DEADLOCK FALSE
PROPERTIES LeaderFenced
