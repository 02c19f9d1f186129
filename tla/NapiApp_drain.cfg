SPECIFICATION FairSpec
CONSTANTS
  c1 = c1
  c2 = c2
  j1 = j1
  Objects = {"EddyqRedis"}
  Call = {c1, c2}
  Job = {j1}
  QueueOf <- OneQueue
  Routes <- MainOnRedis
  default_provider = "redis"
  DefaultQueue = "main"
  Subscriptions <- More
  Modes = {"drain", "force", "abandon"}
  Deaf = {j1}
  Backstop = FALSE
  Budget <- TwoStarts
CHECK_DEADLOCK FALSE
PROPERTIES CallsReturn
