\* With the event loop running, both collections complete; the application may stop.
SPECIFICATION FairSpec
CONSTANTS
  o = o
  i = i
  s = s
  k = k
  p = p
  q = q
  u = u
  v = v
  w = w
  t1 = t1
  t2 = t2
  r1 = r1
  dep = dep
  NoJob = NoJob
  NoThread = NoThread
  Jobs = {s, k, p, q, u, v}
  Collections = {s, k}
  Sequences = {s}
  elements <- FlatElements
  Restrictions = {r1}
  DependencyPolicy = dep
  queuePolicies <- FlatPolicies
  InitialDependencies = {}
  InitialCap <- CapOne
  Threads = {t1, t2}
  MayFail = {u}
  Calls = {"enqueue", "finish"}
CHECK_DEADLOCK FALSE
PROPERTIES
  CollectionCompletes
  FinishReturns
