\* All states, finish and the destructor, fair; a deleted weaver stops, so there is no deadlock check.
SPECIFICATION FairSpec
CONSTANTS
  a = a
  b = b
  c = c
  t1 = t1
  t2 = t2
  t3 = t3
  c1 = c1
  c2 = c2
  r1 = r1
  dep = dep
  NoJob = NoJob
  NoThread = NoThread
  Jobs = {a, b, c}
  Restrictions = {r1}
  DependencyPolicy = dep
  queuePolicies <- MCpolicies
  InitialDependencies <- MCdependencies
  InitialCap <- MCcap
  Threads = {t1, t2}
  Clients = {c1}
  Owner = c1
  priority <- MCpriority
  MayFail = {}
  InventoryMax = 1
  Calls = {"enqueue", "dequeue", "dequeueAll", "finish", "delete", "suspend", "resume", "setMaximumNumberOfThreads"}
  MaxValues = {2}
  CapValues = {1}
CHECK_DEADLOCK FALSE
INVARIANTS
  ActiveCountExact
  DestructorLeavesNoThread
PROPERTIES
  FinishReturns
  SuspendCompletes
  DestructorEnds
