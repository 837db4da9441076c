\* A queued job that can run is left to sleeping threads.
SPECIFICATION FairSpec
CONSTANTS
  a = a
  b = b
  c = c
  t1 = t1
  t2 = t2
  t3 = t3
  c1 = c1
  c2 = c2
  r1 = r1
  dep = dep
  NoJob = NoJob
  NoThread = NoThread
  Jobs = {a, b, c}
  Restrictions = {}
  DependencyPolicy = dep
  queuePolicies <- NoPolicies
  InitialDependencies = {}
  InitialCap <- NoCaps
  Threads = {t1, t2}
  Clients = {c1}
  Owner = c1
  priority <- MCpriority
  MayFail = {}
  InventoryMax = 2
  Calls = {"enqueue"}
  MaxValues = {2}
  CapValues = {1}
CHECK_DEADLOCK FALSE
PROPERTIES
  QueuedJobIsTaken
