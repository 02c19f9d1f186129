SPECIFICATION Spec
CONSTANTS
  n1 = n1
  n2 = n2
  n3 = n3
  s1 = s1
  s2 = s2
  Free = Free
  NoTrigger = NoTrigger
  Ticker = {}
  Booter = {n1, n2}
  Schedule = {s1, s2}
  Trigger <- OneCron
  Lists = {{s1}, {s2}}
  Single = {}
  Operable = {}
  Skew <- InStep
  MaxTime = 4
CHECK_DEADLOCK FALSE
PROPERTIES SyncIsAuthoritative
