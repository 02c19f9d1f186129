SPECIFICATION Spec
CONSTANTS
  c1 = c1
  c2 = c2
  j1 = j1
  Objects = {"EddyqApp"}
  Call = {c1, c2}
  Job = {j1}
  QueueOf <- OneQueue
  Routes <- MainOnRedis
  default_provider = "redis"
  DefaultQueue = "main"
  Subscriptions <- Other
  Modes = {"drain", "force", "abandon"}
  Deaf = {}
  Backstop = FALSE
  Budget <- TwoStarts
CHECK_DEADLOCK FALSE
PROPERTIES SubscriptionsExtend
