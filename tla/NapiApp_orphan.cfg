SPECIFICATION Spec
CONSTANTS
  c1 = c1
  c2 = c2
  j1 = j1
  Objects = {"Eddyq", "EddyqRedis", "EddyqApp"}
  Call = {c1, c2}
  Job = {j1}
  QueueOf <- OneQueue
  Routes <- MainOnRedis
  default_provider = "redis"
  DefaultQueue = "main"
  Subscriptions <- More
  Modes = {"drain", "graceful"}
  Deaf = {}
  Backstop = FALSE
  Budget <- TwoStarts
CHECK_DEADLOCK FALSE
INVARIANTS RuntimeIsOwned
