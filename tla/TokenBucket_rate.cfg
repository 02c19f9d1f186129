SPECIFICATION FairSpec
CONSTANTS
  p1 = p1
  p2 = p2
  NotRead = NotRead
  Proc = {p1, p2}
  Backends = {"pg", "redis"}
  Rate = 2
  Period = 3
  Batch = 2
  Operated = TRUE
  MaxJobs = 3
  MaxTime = 4
CHECK_DEADLOCK FALSE
INVARIANTS BucketInv
PROPERTIES JobsStart
