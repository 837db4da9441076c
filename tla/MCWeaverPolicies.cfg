\* Queue, threads and policies under one client; the weaver stays in WorkingHard.
SPECIFICATION Spec
CONSTANTS
  a = a
  b = b
  c = c
  t1 = t1
  t2 = t2
  t3 = t3
  c1 = c1
  c2 = c2
  r1 = r1
  dep = dep
  NoJob = NoJob
  NoThread = NoThread
  Jobs = {a, b, c}
  Restrictions = {r1}
  DependencyPolicy = dep
  queuePolicies <- MCpolicies
  InitialDependencies <- MCdependencies
  InitialCap <- MCcap
  Threads = {t1, t2, t3}
  Clients = {c1}
  Owner = c1
  priority <- MCpriority
  MayFail = {a}
  InventoryMax = 3
  Calls = {"enqueue", "dequeue", "setCap", "deleteJob"}
  MaxValues = {3}
  CapValues = {1, 2}
SYMMETRY ThreadSymmetry
INVARIANTS
  TypeOK
  JobsAreExclusive
  PermissionsExact
  CapRespected
  DependenciesHonoured
PROPERTIES
  QueueOrder
  ImplementsScheduling
