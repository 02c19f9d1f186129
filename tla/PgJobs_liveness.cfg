SPECIFICATION FairSpec
CONSTANTS
  j1 = j1
  j2 = j2
  x = x
  cb = cb
  cb2 = cb2
  p1 = p1
  p2 = p2
  q1 = q1
  g1 = g1
  b1 = b1
  b2 = b2
  k1 = k1
  NoJob = NoJob
  NoWorker = NoWorker
  NoGroup = NoGroup
  NoBatch = NoBatch
  NoKey = NoKey
  Job = {j1, j2}
  Proc = {p1, p2}
  Queue = {q1}
  Group = {g1}
  Batch = {}
  QueueOf <- OnQ1
  GroupOf <- InG1
  BatchOf <- InNoBatch
  KeyOf <- Keyless
  MaxAttempts <- Once
  MaxStalled <- OnlyJ1
  Callback <- NoCallback
  CallbackValid <- AllValid
  RuleCap <- RuleOfOne
  Operable = {}
  Caps = {}
  Slots = 1
  Verdicts = {"ok", "error"}
  Stoppable = {p2}
  MaxClaims = 6
CHECK_DEADLOCK FALSE
PROPERTIES JobsSettle
