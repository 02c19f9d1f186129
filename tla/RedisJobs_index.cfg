SPECIFICATION Spec
CONSTANTS
  j1 = j1
  j2 = j2
  p1 = p1
  p2 = p2
  q1 = q1
  g1 = g1
  k1 = k1
  NoJob = NoJob
  NoWorker = NoWorker
  NoGroup = NoGroup
  NoKey = NoKey
  Job = {j1, j2}
  Proc = {p1}
  Queue = {q1}
  Group = {g1}
  Key = {k1}
  QueueOf <- OnQ1
  GroupOf <- InG1
  KeyOf <- Keyed
  MaxAttempts <- Once
  MaxStalled <- OnlyJ2
  OnComplete <- Mixed
  OnFail <- MixedFail
  RuleCap <- RuleOfOne
  Operable = {g1}
  Caps = {1}
  Slots = 2
  Verdicts = {"ok", "retry", "cancel"}
  Stoppable = {}
  MaxClaims = 2
CHECK_DEADLOCK FALSE
INVARIANTS KeyspaceInv KeysExact
PROPERTIES FinalUnlessLate
