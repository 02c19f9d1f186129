SPECIFICATION FairSpec
CONSTANTS
  j1 = j1
  j2 = j2
  x = x
  cb = cb
  cb2 = cb2
  p1 = p1
  p2 = p2
  q1 = q1
  g1 = g1
  b1 = b1
  b2 = b2
  k1 = k1
  NoJob = NoJob
  NoWorker = NoWorker
  NoGroup = NoGroup
  NoBatch = NoBatch
  NoKey = NoKey
  Job = {j1, j2, x, cb, cb2}
  Proc = {p1}
  Queue = {q1}
  Group = {}
  Batch = {b1, b2}
  QueueOf <- OnQ1
  GroupOf <- Ungrouped
  BatchOf <- InB1AndB2
  KeyOf <- KeyOnJ1AndX
  MaxAttempts <- Once
  MaxStalled <- OnlyJ1
  Callback <- BothCallBack
  CallbackValid <- AllValid
  RuleCap <- NoRule
  Operable = {}
  Caps = {}
  Slots = 1
  Verdicts = {"ok", "error"}
  Stoppable = {}
  MaxClaims = 2
CHECK_DEADLOCK FALSE
INVARIANTS BatchTally CallbackOnce
PROPERTIES ImplementsFanIn BatchesComplete
