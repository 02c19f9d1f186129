SPECIFICATION FairSpec
CONSTANTS
  n1 = n1
  n2 = n2
  n3 = n3
  s1 = s1
  s2 = s2
  Free = Free
  NoTrigger = NoTrigger
  Ticker = {n1}
  Booter = {n1}
  Schedule = {s1, s2}
  Trigger <- EndlessAndFinite
  Lists = {}
  Single = {s1, s2}
  Operable = {}
  Skew <- InStep
  MaxTime = 4
CHECK_DEADLOCK FALSE
PROPERTIES DueFires
