\* A sequence in a sequence and a collection, queued, dequeued, finished and deleted; the application may stop.
SPECIFICATION Spec
CONSTANTS
  o = o
  i = i
  s = s
  k = k
  p = p
  q = q
  u = u
  v = v
  w = w
  t1 = t1
  t2 = t2
  r1 = r1
  dep = dep
  NoJob = NoJob
  NoThread = NoThread
  Jobs = {o, i, w, p, q, k, u, v}
  Collections = {o, i, k}
  Sequences = {o, i}
  elements <- MixedElements
  Restrictions = {r1}
  DependencyPolicy = dep
  queuePolicies <- MixedPolicies
  InitialDependencies = {}
  InitialCap <- CapOne
  Threads = {t1, t2}
  MayFail = {p, u}
  Calls = {"enqueue", "dequeue", "dequeueAll", "delete", "finish"}
SYMMETRY ThreadSymmetry
CHECK_DEADLOCK FALSE
INVARIANTS
  TypeOK
  ElementsExclusive
  CounterExact
  SequenceInOrder
  DoneIsLast
  PermissionsReturned
