SPECIFICATION Spec
CONSTANTS
  j1 = j1
  j2 = j2
  x = x
  cb = cb
  cb2 = cb2
  p1 = p1
  p2 = p2
  q1 = q1
  g1 = g1
  b1 = b1
  b2 = b2
  k1 = k1
  NoJob = NoJob
  NoWorker = NoWorker
  NoGroup = NoGroup
  NoBatch = NoBatch
  NoKey = NoKey
  Job = {j1, j2}
  Proc = {p1, p2}
  Queue = {q1}
  Group = {}
  Batch = {}
  QueueOf <- OnQ1
  GroupOf <- Ungrouped
  BatchOf <- InNoBatch
  KeyOf <- Keyless
  MaxAttempts <- Twice
  MaxStalled <- Once
  Callback <- NoCallback
  CallbackValid <- AllValid
  RuleCap <- NoRule
  Operable = {}
  Caps = {}
  Slots = 2
  Verdicts = {"ok", "error"}
  Stoppable = {p1}
  MaxClaims = 4
CHECK_DEADLOCK FALSE
PROPERTIES ReclaimsOwnJobs
