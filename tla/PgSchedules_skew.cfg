SPECIFICATION Spec
CONSTANTS
  n1 = n1
  n2 = n2
  n3 = n3
  s1 = s1
  s2 = s2
  Free = Free
  NoTrigger = NoTrigger
  Ticker = {n1}
  Booter = {n2}
  Schedule = {s1}
  Trigger <- OneCron
  Lists = {}
  Single = {s1}
  Operable = {}
  Skew <- OneBehind
  MaxTime = 4
CHECK_DEADLOCK FALSE
INVARIANTS OncePerInstant
