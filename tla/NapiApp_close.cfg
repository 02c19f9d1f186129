SPECIFICATION FairSpec
CONSTANTS
  c1 = c1
  c2 = c2
  j1 = j1
  Objects = {"Eddyq"}
  Call = {c1, c2}
  Job = {j1}
  QueueOf <- OneQueue
  Routes <- MainOnRedis
  default_provider = "redis"
  DefaultQueue = "main"
  Subscriptions <- More
  Modes = {"drain", "force", "abandon"}
  Deaf = {}
  Backstop = FALSE
  Budget <- CloseOnly
CHECK_DEADLOCK FALSE
PROPERTIES CloseEndsHandlers
