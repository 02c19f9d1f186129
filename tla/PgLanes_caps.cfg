SPECIFICATION Spec
CONSTANTS
  j1 = j1
  j2 = j2
  j3 = j3
  j4 = j4
  q1 = q1
  g1 = g1
  g2 = g2
  c1 = c1
  c2 = c2
  NoGroup = NoGroup
  NoCap = NoCap
  Free = Free
  Reconciler = Reconciler
  Job = {j1, j2, j3, j4}
  Queue = {q1}
  Group = {g1, g2}
  Fetcher = {c1, c2}
  QueueOf <- OnQ1
  GroupOf <- TwoGroups
  RuleCap <- RuleOfOne
  InitialCap <- CapsFromTheStart
  Operable = {g2}
  Caps = {1}
  BatchSize = 2
  Reconciles = TRUE
SYMMETRY FetcherSymmetry
CHECK_DEADLOCK FALSE
INVARIANTS CapHolds CountersExact
