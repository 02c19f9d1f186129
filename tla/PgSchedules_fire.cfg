SPECIFICATION FairSpec
CONSTANTS
  n1 = n1
  n2 = n2
  n3 = n3
  s1 = s1
  s2 = s2
  Free = Free
  NoTrigger = NoTrigger
  Ticker = {n1, n2}
  Booter = {n3}
  Schedule = {s1}
  Trigger <- CronOrInterval
  Lists = {{s1}, {}}
  Single = {s1}
  Operable = {s1}
  Skew <- N3Behind
  MaxTime = 4
CHECK_DEADLOCK FALSE
INVARIANTS OncePerInstant ScheduleInv
PROPERTIES DisabledNeverFires DueFires
