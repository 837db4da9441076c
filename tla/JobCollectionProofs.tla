------------------------- MODULE JobCollectionProofs -------------------------
(***************************************************************************)
(* Theorems about JobCollection, for any number of threads, jobs and       *)
(* restrictions and any nesting of collections and sequences.              *)
(***************************************************************************)
EXTENDS JobCollection, SequenceLemmas

-----------------------------------------------------------------------------
(* The inductive invariant *)

First(c) == elements[c][1]

\* The jobs that execute, one after the other, when j does.
Chain(j) == ToSet(Asked[j])

\* j has been executed, or it is a collection with elements to be counted.
Begun(j) == j \in finished \/ (j \in Collections /\ jobCounter[j] > 0)

Holds(t, j) == job[t] = j

Idle(j) ==
  /\ ~Begun(j) /\ j \notin Queued /\ j \notin runnersDone
  /\ \A t \in Threads : ~Holds(t, j)

Open(c) == {j \in Elements(c) : j \notin runnersDone \/ j \in ToSet(events)}

\* What a thread has in its hands at each place of its program.
Place(t) ==
  /\ pc[t] = "scan" <=> m_mutex = t
  /\ pc[t] \in {"apply", "scan"} => job[t] = NoJob
  /\ pc[t] \in {"taken", "execute", "queueing", "free", "stop", "runnerDone"}
       => job[t] # NoJob
  /\ pc[t] \in {"taken", "execute"} => ~Begun(job[t])
  /\ pc[t] = "queueing" =>
       ~Plain(job[t]) /\ jobCounter[job[t]] > 0 /\ next[t] >= 2
  /\ pc[t] = "free" => Plain(job[t])
  /\ pc[t] \in {"free", "returned", "stop", "runnerDone"} /\ job[t] # NoJob
       => /\ Begun(job[t])
          /\ Plain(job[t]) \/ First(job[t]) \in runnersDone
  /\ pc[t] \in {"stop", "runnerDone"} => Parent(job[t]) # NoJob

PlaceInv == \A t \in Threads : Place(t)

HolderInv ==
  \A t, u \in Threads : job[t] # NoJob /\ job[t] = job[u] => t = u

QueueInv ==
  /\ IsInjective(m_assignments)
  /\ \A j \in Queued :
       /\ ~Begun(j)
       /\ \A t \in Threads : ~Holds(t, j)
       /\ \A c \in Collections : ~Empty(c) => j # First(c)

RunnerInv ==
  \A j \in runnersDone :
    Begun(j) /\ (Plain(j) \/ First(j) \in runnersDone)

\* An element nobody has queued or executed yet.
Ahead(c, n) ==
  \/ ~Begun(c)
  \/ \E t \in Threads : /\ pc[t] = "queueing" /\ job[t] = c
                        /\ n = 1 \/ n >= next[t]

IdleInv ==
  \A c \in Collections : \A n \in 1..Len(elements[c]) :
    Ahead(c, n) => Idle(elements[c][n])

CountInv ==
  \A c \in Collections : jobCounter[c] > 0 =>
    /\ ~Empty(c) /\ c \notin finished /\ c \in weaver
    /\ jobCounter[c] = Cardinality(Open(c))

EventInv ==
  /\ IsInjective(events)
  /\ \A j \in ToSet(events) : j \in runnersDone /\ Parent(j) # NoJob

Pending(x) ==
  \/ x \in Queued \/ x \in ToSet(events)
  \/ \E t \in Threads : job[t] \in Chain(x)

CountedInv ==
  \A x \in Jobs : Parent(x) # NoJob /\ Pending(x) => jobCounter[Parent(x)] > 0

ChainInv ==
  \A t \in Threads, x \in Jobs : job[t] \in Chain(x) => x \notin runnersDone

WeaverInv ==
  \A j \in Jobs :
    \/ j \in Queued
    \/ \E t \in Threads : /\ Holds(t, j)
                          /\ pc[t] \in {"taken", "execute", "queueing"}
    => Chain(j) \cap Collections \subseteq weaver

IInv ==
  /\ TypeOK /\ PlaceInv /\ HolderInv /\ QueueInv /\ RunnerInv /\ IdleInv
  /\ CountInv /\ EventInv /\ CountedInv /\ ChainInv /\ WeaverInv
  /\ done \subseteq finished

-----------------------------------------------------------------------------
(* Chains: collections nest, so that Asked is well defined                 *)

\* Asked, for the jobs of S.
AskedFor(S, f) ==
  f = [j \in S |-> IF Plain(j) THEN <<j>> ELSE Append(f[First(j)], j)]

\* With every composite job of S its first element is in S.
Closed(S) == \A j \in S : Plain(j) \/ First(j) \in S

LEMMA FirstIsElement ==
  ASSUME NEW c, ~Plain(c)
  PROVE  /\ c \in Collections /\ ~Empty(c) /\ elements[c] \in Seq(Jobs)
         /\ First(c) \in Elements(c) /\ First(c) \in Jobs
         /\ 1 \in 1..Len(elements[c])
<1>1. c \in Collections /\ elements[c] # <<>>
  BY DEF Plain, Empty
<1>2. elements[c] \in Seq(Jobs)
  BY <1>1, CollectionConstants
<1>3. Len(elements[c]) \in Nat /\ Len(elements[c]) # 0 /\ DOMAIN elements[c] = 1..Len(elements[c])
  BY <1>1, <1>2
<1>4. 1 \in 1..Len(elements[c])
  BY <1>3
<1>5. elements[c][1] \in Jobs
  BY <1>2, <1>4
<1> QED BY <1>1, <1>2, <1>3, <1>4, <1>5 DEF First, Elements, ToSet, Empty

\* Induction along chains: a set of jobs has one that is plain or whose
\* first element is not in the set.
LEMMA ChainBottom ==
  ASSUME NEW Bad, Bad \subseteq Jobs, Bad # {}
  PROVE  \E k \in Bad : Plain(k) \/ First(k) \notin Bad
<1>1. CASE \E k \in Bad : Plain(k)
  BY <1>1
<1>2. CASE \A k \in Bad : ~Plain(k)
  <2>1. Bad \in SUBSET Collections
    BY <1>2, FirstIsElement
  <2>2. PICK c \in Bad : ToSet(elements[c]) \cap Bad = {}
    BY <2>1, CollectionsNest
  <2>3. First(c) \notin Bad
    BY <1>2, <2>2, FirstIsElement DEF Elements
  <2> QED BY <2>3
<1> QED BY <1>1, <1>2

LEMMA AskedExists ==
  \E f : AskedFor(Jobs, f)
<1> DEFINE Good(S) == Closed(S) /\ \E f : AskedFor(S, f)
           Left == {U \in SUBSET Jobs : Good(Jobs \ U)}
<1>1. Jobs \in Left
  <2>1. AskedFor({}, [j \in {} |-> <<>>])
    BY DEF AskedFor
  <2>2. Jobs \ Jobs = {}
    OBVIOUS
  <2>3. Closed({})
    BY DEF Closed
  <2> QED BY <2>1, <2>2, <2>3
<1>2. PICK U \in Left : IsFiniteSet(U) /\ \A x \in U : U \ {x} \notin Left
  <2>1. Left \subseteq SUBSET Jobs
    OBVIOUS
  <2> HIDE DEF Left
  <2> QED BY <1>1, <2>1, JobsFinite, SmallestSet
<1>3. U = {}
  <2>1. SUFFICES ASSUME U # {} PROVE FALSE
    OBVIOUS
  <2>2. U \subseteq Jobs /\ Closed(Jobs \ U)
    OBVIOUS
  <2>3. PICK f : AskedFor(Jobs \ U, f)
    OBVIOUS
  <2>4. PICK k \in U : Plain(k) \/ First(k) \notin U
    BY <2>1, <2>2, ChainBottom
  <2> DEFINE T == (Jobs \ U) \cup {k}
             g == [j \in T |-> IF j = k THEN IF Plain(k) THEN <<k>>
                                             ELSE Append(f[First(k)], k)
                               ELSE f[j]]
  <2>5. T = Jobs \ (U \ {k})
    BY <2>2, <2>4
  <2>6. Plain(k) \/ First(k) \in Jobs \ U
    BY <2>4, FirstIsElement
  <2>7. Closed(T)
    BY <2>2, <2>6 DEF Closed
  <2>8. ASSUME NEW j \in T
        PROVE  g[j] = IF Plain(j) THEN <<j>> ELSE Append(g[First(j)], j)
    <3>1. CASE j = k
      <4>1. CASE Plain(k)
        BY <3>1, <4>1
      <4>2. CASE ~Plain(k)
        <5>1. First(k) \in Jobs \ U /\ First(k) # k
          BY <2>4, <2>6, <4>2
        <5>2. g[First(k)] = f[First(k)]
          BY <5>1
        <5> QED BY <3>1, <4>2, <5>2
      <4> QED BY <4>1, <4>2
    <3>2. CASE j # k
      <4>1. j \in Jobs \ U /\ g[j] = f[j]
        BY <3>2
      <4>2. f[j] = IF Plain(j) THEN <<j>> ELSE Append(f[First(j)], j)
        BY <2>3, <4>1 DEF AskedFor
      <4>3. CASE Plain(j)
        BY <4>1, <4>2, <4>3
      <4>4. CASE ~Plain(j)
        <5>1. First(j) \in Jobs \ U /\ First(j) # k
          BY <2>2, <2>4, <4>1, <4>4 DEF Closed
        <5>2. g[First(j)] = f[First(j)]
          BY <5>1
        <5> QED BY <4>1, <4>2, <4>4, <5>2
      <4> QED BY <4>3, <4>4
    <3> QED BY <3>1, <3>2
  <2>9. AskedFor(T, g)
    <3>1. g = [j \in T |-> g[j]]
      OBVIOUS
    <3>2. [j \in T |-> g[j]] = [j \in T |-> IF Plain(j) THEN <<j>> ELSE Append(g[First(j)], j)]
      <4> HIDE DEF g, T
      <4> QED BY <2>8
    <3> QED BY <3>1, <3>2, Zenon DEF AskedFor
  <2>10. Good(T)
    <3> HIDE DEF g, T
    <3> QED BY <2>7, <2>9
  <2>11. U \ {k} \in Left
    <3> HIDE DEF T, Good
    <3> QED BY <2>2, <2>5, <2>10
  <2> QED BY <1>2, <2>4, <2>11
<1>4. Jobs \ U = Jobs
  BY <1>3
<1> QED BY <1>2, <1>4

LEMMA AskedIs ==
  /\ Asked = [j \in Jobs |-> Asked[j]]
  /\ \A j \in Jobs :
       Asked[j] = IF Plain(j) THEN <<j>> ELSE Append(Asked[First(j)], j)
<1>1. Asked = CHOOSE f : AskedFor(Jobs, f)
  BY DEF Asked, AskedFor, First
<1>2. AskedFor(Jobs, Asked)
  BY <1>1, AskedExists, Zenon
<1> QED BY <1>2 DEF AskedFor

\* What Asked lists ends with the job itself.
LEMMA AskedTypes ==
  ASSUME NEW j \in Jobs
  PROVE  /\ Asked[j] \in Seq(Jobs)
         /\ Len(Asked[j]) \in Nat \ {0}
         /\ Asked[j][Len(Asked[j])] = j
<1> DEFINE Good(k, q) == /\ q \in Seq(Jobs)
                         /\ Len(q) \in Nat \ {0}
                         /\ q[Len(q)] = k
           Bad == {k \in Jobs : ~Good(k, Asked[k])}
<1>1. SUFFICES ASSUME Bad # {} PROVE FALSE
  OBVIOUS
<1>2. PICK k \in Bad : Plain(k) \/ First(k) \notin Bad
  <2>1. Bad \subseteq Jobs
    OBVIOUS
  <2> HIDE DEF Bad
  <2> QED BY <1>1, <2>1, ChainBottom
<1>3. CASE Plain(k)
  <2>1. Asked[k] = <<k>>
    BY <1>3, AskedIs
  <2>2. <<k>> \in Seq(Jobs) /\ Len(<<k>>) = 1 /\ <<k>>[1] = k
    OBVIOUS
  <2>3. Good(k, <<k>>)
    BY <2>2
  <2> HIDE DEF Good
  <2> QED BY <1>2, <2>1, <2>3
<1>4. CASE ~Plain(k)
  <2>1. Asked[k] = Append(Asked[First(k)], k)
    BY <1>4, AskedIs
  <2>2. First(k) \in Jobs /\ First(k) \notin Bad
    BY <1>2, <1>4, FirstIsElement
  <2>3. PICK q : q = Asked[First(k)]
    OBVIOUS
  <2>4. q \in Seq(Jobs) /\ Len(q) \in Nat
    BY <2>2, <2>3
  <2>5. /\ Append(q, k) \in Seq(Jobs) /\ Len(Append(q, k)) = Len(q) + 1
        /\ Append(q, k)[Len(q) + 1] = k
    BY <2>4
  <2>6. Good(k, Append(q, k))
    BY <2>4, <2>5
  <2> HIDE DEF Good
  <2> QED BY <1>2, <2>1, <2>3, <2>6
<1> QED BY <1>2, <1>3, <1>4

LEMMA ChainIs ==
  ASSUME NEW j \in Jobs
  PROVE  /\ Chain(j) = IF Plain(j) THEN {j} ELSE Chain(First(j)) \cup {j}
         /\ Chain(j) \subseteq Jobs
         /\ j \in Chain(j)
<1>1. CASE Plain(j)
  <2>1. Asked[j] = <<j>>
    BY <1>1, AskedIs
  <2>2. ToSet(<<j>>) = {j}
    BY DEF ToSet
  <2> QED BY <1>1, <2>1, <2>2 DEF Chain
<1>2. CASE ~Plain(j)
  <2>1. Asked[j] = Append(Asked[First(j)], j)
    BY <1>2, AskedIs
  <2>2. First(j) \in Jobs /\ Asked[First(j)] \in Seq(Jobs)
    BY <1>2, FirstIsElement, AskedTypes
  <2>3. ToSet(Append(Asked[First(j)], j)) = ToSet(Asked[First(j)]) \cup {j}
    BY <2>2, AppendSet
  <2>4. ToSet(Asked[First(j)]) \subseteq Jobs
    BY <2>2 DEF ToSet
  <2> QED BY <1>2, <2>1, <2>3, <2>4 DEF Chain
<1> QED BY <1>1, <1>2

\* The parent of an element is the one collection that lists it.
LEMMA ParentIs ==
  ASSUME NEW c \in Collections, NEW j \in Elements(c)
  PROVE  Parent(j) = c
<1>1. \A d, e \in Collections : j \in Elements(d) /\ j \in Elements(e) => d = e
  <2>1. SUFFICES ASSUME NEW d \in Collections, NEW e \in Collections,
                        j \in Elements(d), j \in Elements(e)
                 PROVE  d = e
    OBVIOUS
  <2>2. /\ DOMAIN elements[d] = 1..Len(elements[d])
        /\ DOMAIN elements[e] = 1..Len(elements[e])
    BY CollectionConstants
  <2>3. PICK m \in 1..Len(elements[d]), n \in 1..Len(elements[e]) :
          elements[d][m] = j /\ elements[e][n] = j
    BY <2>1, <2>2 DEF Elements, ToSet
  <2> QED BY <2>3, ElementsOnce
<1>2. \E d \in Collections : j \in Elements(d)
  OBVIOUS
<1>3. Parent(j) = CHOOSE d \in Collections : j \in Elements(d)
  BY <1>2 DEF Parent
<1>4. Parent(j) \in Collections /\ j \in Elements(Parent(j))
  BY <1>2, <1>3
<1> QED BY <1>1, <1>4

LEMMA ParentTypes ==
  ASSUME NEW j, Parent(j) # NoJob
  PROVE  /\ Parent(j) \in Collections /\ j \in Elements(Parent(j))
         /\ j \in Jobs /\ ~Plain(Parent(j)) /\ Parent(j) \in Jobs
<1>1. PICK c \in Collections : j \in Elements(c)
  BY DEF Parent
<1>2. Parent(j) = c
  BY <1>1, ParentIs
<1>3. elements[c] \in Seq(Jobs) /\ c \in Jobs
  BY CollectionConstants
<1>4. elements[c] # <<>> /\ j \in Jobs
  BY <1>1, <1>3 DEF Elements, ToSet
<1> QED BY <1>1, <1>2, <1>3, <1>4 DEF Plain, Empty

LEMMA FirstsParent ==
  ASSUME NEW c, ~Plain(c)
  PROVE  Parent(First(c)) = c
BY FirstIsElement, ParentIs

\* Who is in a chain below its top is the first element of the next.
LEMMA ChainUp ==
  ASSUME NEW y \in Jobs, NEW x \in Chain(y), x # y
  PROVE  /\ Parent(x) # NoJob /\ x = First(Parent(x))
         /\ Parent(x) \in Chain(y)
<1> DEFINE Up(a, b) == /\ Parent(a) # NoJob /\ a = First(Parent(a))
                       /\ Parent(a) \in Chain(b)
           Bad == {b \in Jobs : \E a \in Chain(b) : a # b /\ ~Up(a, b)}
<1>1. SUFFICES ASSUME Bad # {} PROVE FALSE
  OBVIOUS
<1>2. PICK b \in Bad : Plain(b) \/ First(b) \notin Bad
  <2>1. Bad \subseteq Jobs
    OBVIOUS
  <2> HIDE DEF Bad
  <2> QED BY <1>1, <2>1, ChainBottom
<1>3. PICK a \in Chain(b) : a # b /\ ~Up(a, b)
  OBVIOUS
<1>4. ~Plain(b) /\ a \in Chain(First(b)) /\ First(b) \in Jobs
      /\ Chain(First(b)) \subseteq Chain(b) /\ b \in Chain(b)
  <2>1. ~Plain(b)
    BY <1>3, ChainIs
  <2> QED BY <1>3, <2>1, ChainIs, FirstIsElement
<1>5. CASE a = First(b)
  <2>1. Parent(a) = b /\ b # NoJob
    BY <1>4, <1>5, FirstsParent, CollectionConstants
  <2> QED BY <1>3, <1>4, <1>5, <2>1
<1>6. CASE a # First(b)
  <2>1. First(b) \notin Bad
    BY <1>2, <1>4
  <2>2. Up(a, First(b))
    BY <1>4, <1>6, <2>1
  <2> QED BY <1>3, <1>4, <2>2
<1> QED BY <1>5, <1>6

LEMMA ChainsNest ==
  ASSUME NEW y \in Jobs, NEW x \in Chain(y)
  PROVE  x \in Jobs /\ Chain(x) \subseteq Chain(y)
<1> DEFINE Bad == {b \in Jobs : \E a \in Chain(b) : ~(Chain(a) \subseteq Chain(b))}
<1>0. x \in Jobs
  BY ChainIs
<1>1. SUFFICES ASSUME Bad # {} PROVE FALSE
  BY <1>0
<1>2. PICK b \in Bad : Plain(b) \/ First(b) \notin Bad
  <2>1. Bad \subseteq Jobs
    OBVIOUS
  <2> HIDE DEF Bad
  <2> QED BY <1>1, <2>1, ChainBottom
<1>3. PICK a \in Chain(b) : ~(Chain(a) \subseteq Chain(b))
  OBVIOUS
<1>4. ~Plain(b) /\ a \in Chain(First(b)) /\ First(b) \in Jobs
      /\ Chain(First(b)) \subseteq Chain(b)
  <2>1. a # b
    BY <1>3
  <2>2. ~Plain(b)
    BY <1>3, <2>1, ChainIs
  <2> QED BY <1>3, <2>1, <2>2, ChainIs, FirstIsElement
<1>5. Chain(a) \subseteq Chain(First(b))
  BY <1>2, <1>4
<1> QED BY <1>3, <1>4, <1>5

\* Chains go one way: nobody is below an element of his.
LEMMA ChainAcyclic ==
  ASSUME NEW c \in Jobs, ~Plain(c)
  PROVE  c \notin Chain(First(c))
<1> DEFINE Bad == {b \in Jobs : ~Plain(b) /\ b \in Chain(First(b))}
<1>1. SUFFICES ASSUME Bad # {} PROVE FALSE
  OBVIOUS
<1>2. PICK b \in Bad : Plain(b) \/ First(b) \notin Bad
  <2>1. Bad \subseteq Jobs
    OBVIOUS
  <2> HIDE DEF Bad
  <2> QED BY <1>1, <2>1, ChainBottom
<1>3. ~Plain(b) /\ b \in Chain(First(b)) /\ First(b) \in Jobs
  BY FirstIsElement
<1>4. CASE b = First(b)
  <2>1. b \in Collections /\ {b} \in SUBSET Collections
    BY <1>3, FirstIsElement
  <2>2. ToSet(elements[b]) \cap {b} = {}
    BY <2>1, CollectionsNest
  <2>3. b \in ToSet(elements[b])
    BY <1>3, <1>4, FirstIsElement DEF Elements
  <2> QED BY <2>2, <2>3
<1>5. CASE b # First(b)
  <2>1. ~Plain(First(b))
    BY <1>3, <1>5, ChainIs
  <2>2. b \in Chain(First(First(b)))
    BY <1>3, <1>5, <2>1, ChainIs
  <2>3. First(First(b)) \in Jobs
    BY <2>1, FirstIsElement
  <2>4. Chain(b) \subseteq Chain(First(First(b)))
    BY <2>2, <2>3, ChainsNest
  <2>5. First(b) \in Chain(b)
    BY <1>3, ChainIs
  <2> QED BY <1>2, <1>3, <2>1, <2>4, <2>5
<1> QED BY <1>4, <1>5

\* Two chains that meet are parts of one.
LEMMA ChainsMeet ==
  ASSUME NEW j \in Jobs, NEW k \in Jobs, Chain(j) \cap Chain(k) # {}
  PROVE  j \in Chain(k) \/ k \in Chain(j)
<1> DEFINE Bad == {b \in Jobs : Chain(j) \cap Chain(b) # {}
                                 /\ j \notin Chain(b) /\ b \notin Chain(j)}
<1>1. SUFFICES ASSUME Bad # {} PROVE FALSE
  OBVIOUS
<1>2. PICK b \in Bad : Plain(b) \/ First(b) \notin Bad
  <2>1. Bad \subseteq Jobs
    OBVIOUS
  <2> HIDE DEF Bad
  <2> QED BY <1>1, <2>1, ChainBottom
<1>3. PICK a : a \in Chain(j) /\ a \in Chain(b)
  OBVIOUS
<1>4. ~Plain(b) /\ First(b) \in Jobs /\ a \in Chain(First(b))
      /\ Chain(First(b)) \subseteq Chain(b) /\ First(b) \in Chain(First(b))
  <2>1. a # b
    BY <1>3
  <2>2. ~Plain(b)
    BY <1>3, <2>1, ChainIs
  <2> QED BY <1>3, <2>1, <2>2, ChainIs, FirstIsElement
<1>5. First(b) \in Chain(j) /\ First(b) # j
  BY <1>2, <1>3, <1>4
<1>6. Parent(First(b)) \in Chain(j)
  BY <1>5, ChainUp
<1> QED BY <1>4, <1>6, FirstsParent

-----------------------------------------------------------------------------
(* Types                                                                   *)

LEMMA FreeTypes ==
  ASSUME PolicyTypeOK, NEW j \in Jobs, NEW success,
         freeQueuePolicyResources(j, success)
  PROVE  PolicyTypeOK'
<1>1. ASSUME NEW r \in Restrictions
      PROVE  (IF r \in RestrictionsOf(j) THEN RemoveFirst(customers[r], j)
                                         ELSE customers[r]) \in Seq(Jobs)
  <2>1. customers[r] \in Seq(Jobs)
    BY DEF PolicyTypeOK
  <2> QED BY <2>1, RemoveFirstSet
<1>2. customers' \in [Restrictions -> Seq(Jobs)]
  BY <1>1 DEF freeQueuePolicyResources
<1>3. dependencies' \subseteq Jobs \X Jobs /\ cap' \in [Restrictions -> Int]
  BY DEF PolicyTypeOK, freeQueuePolicyResources, resolveDependencies
<1> QED BY <1>2, <1>3 DEF PolicyTypeOK

LEMMA AcquireTypes ==
  ASSUME PolicyTypeOK, NEW j \in Jobs, acquireAll(j)
  PROVE  PolicyTypeOK'
BY DEF PolicyTypeOK, acquireAll

LEMMA EnqueueTypes ==
  ASSUME TypeOK, NEW j \in Jobs, enqueue(j)
  PROVE  /\ PolicyTypeOK' /\ m_assignments' \in Seq(Jobs)
         /\ weaver' \subseteq Collections
<1>1. ASSUME NEW c \in Collections
      PROVE  SequenceDependencies(c) \subseteq Jobs \X Jobs
  <2>1. \A n \in 1..Len(elements[c]) : elements[c][n] \in Jobs
    BY CollectionConstants
  <2>2. \A n \in 2..Len(elements[c]) : n \in 1..Len(elements[c]) /\ n - 1 \in 1..Len(elements[c])
    BY CollectionConstants
  <2> QED BY <2>1, <2>2 DEF SequenceDependencies
<1>2. dependencies' \subseteq Jobs \X Jobs
  BY <1>1 DEF TypeOK, PolicyTypeOK, enqueue
<1>3. weaver' \subseteq Collections
  BY DEF TypeOK, enqueue
<1>4. m_assignments' \in Seq(Jobs)
  BY AppendSet DEF TypeOK, enqueue
<1> QED BY <1>2, <1>3, <1>4 DEF TypeOK, PolicyTypeOK, enqueue

\* The steps of a thread keep the types.
LEMMA WorkerTypes ==
  ASSUME TypeOK, PlaceInv, NEW t \in Threads, Worker(t)
  PROVE  TypeOK'
<1> USE DEF Goto, At, Busy, queueVars, doneVars, policyVars
<1>0. \A l \in {"taken", "execute", "queueing", "free", "stop", "runnerDone"} :
        pc[t] = l => job[t] \in Jobs
  BY DEF TypeOK, PlaceInv, Place
<1>1. CASE LockQueue(t)
  BY <1>1 DEF LockQueue, TypeOK, PolicyTypeOK
<1>2. CASE AskNext(t)
  <2>0. level \in 1..Len(Asked[Scanned]) /\ Scanned \in Jobs
    <3>1. Scanned \in Jobs
      BY <1>2 DEF AskNext, Scanning, Scanned, TypeOK
    <3> QED BY <1>2, <3>1, AskedTypes DEF AskNext, TypeOK
  <2>1. PICK j \in Jobs : j = Asked[Scanned][level]
    BY <2>0, AskedTypes
  <2>2. PolicyTypeOK'
    <3>1. CASE acquireAll(j)
      BY <3>1, AcquireTypes DEF TypeOK
    <3>2. CASE UNCHANGED policyVars
      BY <3>2 DEF TypeOK, PolicyTypeOK
    <3> QED BY <1>2, <2>1, <3>1, <3>2 DEF AskNext
  <2>3. agreed' = agreed \/ agreed' = FALSE
    BY <1>2 DEF AskNext
  <2>4. agreed' \in BOOLEAN
    BY <2>3 DEF TypeOK
  <2>5. level' \in Nat \ {0}
    BY <1>2 DEF AskNext, TypeOK
  <2> QED BY <1>2, <2>2, <2>4, <2>5 DEF AskNext, TypeOK
<1>3. CASE TakeJob(t)
  <2>1. Scanned \in Jobs /\ RemoveAt(m_assignments, index) \in Seq(Jobs)
    BY <1>3, RemoveAtFacts DEF TakeJob, Scanning, Scanned, TypeOK
  <2> QED BY <1>3, <2>1 DEF TakeJob, TypeOK, PolicyTypeOK
<1>4. CASE SkipJob(t)
  BY <1>4 DEF SkipJob, TypeOK, PolicyTypeOK
<1>5. CASE NothingAvailable(t)
  BY <1>5 DEF NothingAvailable, TypeOK, PolicyTypeOK
<1>6. CASE IncActive(t)
  BY <1>6 DEF IncActive, TypeOK, PolicyTypeOK
<1>7. CASE RunJob(t)
  BY <1>0, <1>7 DEF RunJob, TypeOK, PolicyTypeOK
<1>8. CASE FreeJob(t)
  <2>1. job[t] \in Jobs
    BY <1>0, <1>8 DEF FreeJob
  <2>2. PICK j \in Jobs : j = job[t]
    BY <2>1
  <2>3. PICK success : success = (j \in succeeded)
    OBVIOUS
  <2>4. freeQueuePolicyResources(j, success)
    BY <1>8, <2>2, <2>3 DEF FreeJob, freeQueuePolicyResources
  <2>5. PolicyTypeOK'
    BY <2>4, FreeTypes DEF TypeOK
  <2> QED BY <1>8, <2>5 DEF FreeJob, TypeOK
<1>9. CASE StartCollection(t)
  <2>1. job[t] \in Collections /\ Len(elements[job[t]]) \in Nat
    BY <1>9, FirstIsElement DEF StartCollection
  <2> QED BY <1>9, <2>1 DEF StartCollection, TypeOK, PolicyTypeOK
<1>10. CASE QueueElement(t)
  <2>1. job[t] \in Jobs /\ ~Plain(job[t]) /\ next[t] \in Nat \ {0}
    BY <1>0, <1>10 DEF QueueElement, PlaceInv, Place, TypeOK
  <2>2. elements[job[t]] \in Seq(Jobs) /\ next[t] <= Len(elements[job[t]])
    BY <1>10, <2>1, FirstIsElement DEF QueueElement
  <2>3. PICK j \in Jobs : j = elements[job[t]][next[t]]
    BY <2>1, <2>2
  <2>4. enqueue(j)
    BY <1>10, <2>3 DEF QueueElement, enqueue
  <2>5. PolicyTypeOK' /\ m_assignments' \in Seq(Jobs) /\ weaver' \subseteq Collections
    BY <2>4, EnqueueTypes
  <2> QED BY <1>10, <2>5 DEF QueueElement, TypeOK
<1>11. CASE ExecuteFirst(t)
  <2>1. elements[job[t]][1] \in Jobs
    BY <1>0, <1>11, FirstIsElement DEF ExecuteFirst, PlaceInv, Place, First
  <2> QED BY <1>11, <2>1 DEF ExecuteFirst, TypeOK, PolicyTypeOK
<1>12. CASE Returned(t)
  BY <1>12 DEF Returned, TypeOK, PolicyTypeOK
<1>13. CASE StopSequence(t)
  <2>1. m_assignments' \in Seq(Jobs) /\ weaver' \subseteq Collections
    BY <1>13, RemoveFirstSet DEF StopSequence, dequeue, TypeOK
  <2> QED BY <1>13, <2>1 DEF StopSequence, TypeOK, PolicyTypeOK
<1>14. CASE RunnerDone(t)
  <2>1. job[t] \in Jobs /\ Parent(job[t]) # NoJob
    BY <1>0, <1>14 DEF RunnerDone, PlaceInv, Place
  <2>2. Parent(job[t]) \in Jobs
    BY <2>1, ParentTypes
  <2>3. events' \in Seq(Jobs)
    BY <1>14, <2>1, AppendSet DEF RunnerDone, TypeOK
  <2> QED BY <1>14, <2>1, <2>2, <2>3 DEF RunnerDone, TypeOK, PolicyTypeOK
<1> QED BY <1>1, <1>2, <1>3, <1>4, <1>5, <1>6, <1>7, <1>8, <1>9, <1>10, <1>11,
           <1>12, <1>13, <1>14 DEF Worker

\* So do the main thread's.
LEMMA MainTypes ==
  ASSUME TypeOK, EventInv, FinishReturn \/ JobRunnerDone \/ MainCall
  PROVE  TypeOK'
<1> USE DEF Calling, Busy, queueVars, doneVars, policyVars
<1>1. CASE FinishReturn
  BY <1>1 DEF FinishReturn, TypeOK, PolicyTypeOK
<1>2. CASE JobRunnerDone
  <2>1. PICK c : c = Parent(Head(events))
    OBVIOUS
  <2>2. events # <<>> /\ events' = Tail(events)
    BY <1>2 DEF JobRunnerDone
  <2>3. events' \in Seq(Jobs) /\ Head(events) \in ToSet(events)
    BY <2>2, TailSet DEF TypeOK
  <2>4. c \in Collections /\ c \in Jobs
    BY <2>1, <2>3, ParentTypes DEF EventInv
  <2>5. PolicyTypeOK'
    <3>1. CASE freeQueuePolicyResources(c, TRUE)
      BY <2>4, <3>1, FreeTypes DEF TypeOK
    <3>2. CASE UNCHANGED policyVars
      BY <3>2 DEF TypeOK, PolicyTypeOK
    <3> QED BY <1>2, <2>1, <3>1, <3>2 DEF JobRunnerDone
  <2>6. jobCounter' \in [Collections -> Nat]
    <3>1. \/ jobCounter' = jobCounter
          \/ /\ jobCounter[c] > 1
             /\ jobCounter' = [jobCounter EXCEPT ![c] = jobCounter[c] - 1]
          \/ jobCounter' = [jobCounter EXCEPT ![c] = 0]
      BY <1>2, <2>1 DEF JobRunnerDone
    <3>2. jobCounter \in [Collections -> Nat] /\ jobCounter[c] \in Nat
      BY <2>4 DEF TypeOK
    <3> QED BY <3>1, <3>2
  <2>7. /\ weaver' \subseteq Collections /\ done' \subseteq Collections
        /\ finished' \subseteq Jobs /\ succeeded' \subseteq finished'
    <3>1. /\ weaver' = weaver \/ weaver' = weaver \ {c}
          /\ done' = done \/ done' = done \cup {c}
          /\ finished' = finished \/ finished' = finished \cup {c}
          /\ succeeded' = succeeded
      BY <1>2, <2>1 DEF JobRunnerDone
    <3>2. /\ weaver \subseteq Collections /\ done \subseteq Collections
          /\ finished \subseteq Jobs /\ succeeded \subseteq finished
      BY DEF TypeOK
    <3>3. weaver' \subseteq Collections /\ done' \subseteq Collections
      BY <2>4, <3>1, <3>2
    <3>4. finished' \subseteq Jobs /\ succeeded' \subseteq finished'
      BY <2>4, <3>1, <3>2
    <3> QED BY <3>3, <3>4
  <2> QED BY <1>2, <2>3, <2>5, <2>6, <2>7 DEF JobRunnerDone, TypeOK
<1>3. ASSUME NEW j \in Jobs, Enqueue(j) PROVE TypeOK'
  <2>1. enqueue(j)
    BY <1>3 DEF Enqueue
  <2>2. PolicyTypeOK' /\ m_assignments' \in Seq(Jobs) /\ weaver' \subseteq Collections
    BY <2>1, EnqueueTypes
  <2> QED BY <1>3, <2>2 DEF Enqueue, TypeOK
<1>4. ASSUME NEW j \in Jobs, Dequeue(j) PROVE TypeOK'
  <2>1. m_assignments' \in Seq(Jobs) /\ weaver' \subseteq Collections
    BY <1>4, RemoveFirstSet DEF Dequeue, dequeue, TypeOK
  <2> QED BY <1>4, <2>1 DEF Dequeue, TypeOK, PolicyTypeOK
<1>5. ASSUME NEW c \in Jobs, Delete(c) PROVE TypeOK'
  <2>1. PolicyTypeOK'
    BY <1>5, FreeTypes DEF Delete, TypeOK
  <2>2. m_assignments' \in Seq(Jobs) /\ events' \in Seq(Jobs)
    BY <1>5, WithoutSet DEF Delete, TypeOK
  <2>3. /\ jobCounter' \in [Collections -> Nat]
        /\ finished' \subseteq Jobs /\ finished \subseteq finished'
    BY <1>5 DEF Delete, TypeOK
  <2>4. weaver' \cup deleted' \subseteq Collections
    BY <1>5 DEF Delete, TypeOK
  <2> QED BY <1>5, <2>1, <2>2, <2>3, <2>4 DEF Delete, TypeOK
<1>6. CASE DequeueAll
  <2>1. <<>> \in Seq(Jobs)
    OBVIOUS
  <2> QED BY <1>6, <2>1 DEF DequeueAll, TypeOK, PolicyTypeOK
<1>7. CASE Finish
  BY <1>7 DEF Finish, TypeOK, PolicyTypeOK
<1> QED BY <1>1, <1>2, <1>3, <1>4, <1>5, <1>6, <1>7 DEF MainCall

-----------------------------------------------------------------------------
(* The invariant is inductive                                              *)

\* What would execute with k is idle as long as k has not begun ...
LEMMA BelowIdle ==
  ASSUME IdleInv, NEW k \in Jobs, ~Begun(k), NEW x \in Chain(k), x # k
  PROVE  Idle(x)
<1> DEFINE Bad == {b \in Jobs : ~Begun(b) /\ \E a \in Chain(b) : a # b /\ ~Idle(a)}
<1>1. SUFFICES ASSUME Bad # {} PROVE FALSE
  OBVIOUS
<1>2. PICK b \in Bad : Plain(b) \/ First(b) \notin Bad
  <2>1. Bad \subseteq Jobs
    OBVIOUS
  <2> HIDE DEF Bad
  <2> QED BY <1>1, <2>1, ChainBottom
<1>3. PICK a \in Chain(b) : a # b /\ ~Idle(a)
  OBVIOUS
<1>4. ~Plain(b) /\ a \in Chain(First(b)) /\ First(b) \in Jobs
  BY <1>3, ChainIs, FirstIsElement
<1>5. Idle(First(b))
  BY <1>4, FirstIsElement DEF IdleInv, Ahead, First
<1>6. ~Begun(First(b))
  BY <1>5 DEF Idle
<1> QED BY <1>2, <1>3, <1>4, <1>5, <1>6

\* ... and while its other elements are queued.
LEMMA BelowQueueing ==
  ASSUME IdleInv, NEW t \in Threads, pc[t] = "queueing", job[t] \in Jobs,
         ~Plain(job[t]), NEW x \in Chain(job[t]), x # job[t]
  PROVE  Idle(x)
<1>1. PICK c \in Jobs : c = job[t]
  OBVIOUS
<1>2. ~Plain(c) /\ x \in Chain(First(c)) /\ First(c) \in Jobs
  BY <1>1, ChainIs, FirstIsElement
<1>3. Ahead(c, 1)
  BY <1>1 DEF Ahead
<1>4. Idle(First(c))
  BY <1>2, <1>3, FirstIsElement DEF IdleInv, First
<1>5. ~Begun(First(c))
  BY <1>4 DEF Idle
<1> QED BY <1>2, <1>4, <1>5, BelowIdle

LEMMA HeldTypes ==
  ASSUME TypeOK, NEW t \in Threads
  PROVE  /\ job[t] \in Jobs <=> job[t] # NoJob
         /\ \A x \in Jobs : job[t] \in Chain(x) => job[t] \in Jobs
         /\ job[t] \in Jobs => job[t] \in Chain(job[t])
BY ChainIs, CollectionConstants DEF TypeOK

\* A step that leaves the queue, the counters and the signals alone: a thread
\* goes on, or gives its job out of its hands.
LEMMA QuietStep ==
  ASSUME IInv, TypeOK', PlaceInv', done' \subseteq finished,
         UNCHANGED <<m_assignments, next, events, weaver, jobCounter, finished,
                     runnersDone>>,
         \A t \in Threads :
           /\ job'[t] = job[t] \/ job'[t] = NoJob
           /\ pc'[t] = "queueing" => pc[t] = "queueing" /\ job'[t] = job[t]
           /\ pc'[t] \in {"taken", "execute"}
                => pc[t] \in {"taken", "execute"} /\ job'[t] = job[t]
  PROVE  IInv'
<1> USE DEF IInv
<1>0. /\ \A x : Begun(x)' <=> Begun(x)
      /\ Queued' = Queued
      /\ \A c : Open(c)' = Open(c)
      /\ \A t \in Threads, x \in Jobs : Holds(t, x)' => Holds(t, x)
      /\ \A t \in Threads, x \in Jobs : job'[t] \in Chain(x) => job[t] \in Chain(x)
  <2>1. \A x \in Jobs : NoJob \notin Chain(x)
    BY ChainIs, CollectionConstants
  <2>2. NoJob \notin Jobs
    BY CollectionConstants
  <2> QED BY <2>1, <2>2 DEF Begun, Queued, Open, Holds
<1>1. HolderInv'
  BY DEF HolderInv
<1>2. QueueInv'
  <2>1. Queued \subseteq Jobs
    BY DEF Queued, TypeOK, ToSet
  <2> QED BY <1>0, <2>1 DEF QueueInv
<1>3. RunnerInv'
  BY <1>0 DEF RunnerInv
<1>4. IdleInv'
  <2>1. \A c, n : Ahead(c, n)' => Ahead(c, n)
    BY <1>0 DEF Ahead
  <2>2. \A x \in Jobs : Idle(x) => Idle(x)'
    BY <1>0 DEF Idle
  <2>3. \A c \in Collections : \A n \in 1..Len(elements[c]) : elements[c][n] \in Jobs
    BY CollectionConstants
  <2> QED BY <2>1, <2>2, <2>3 DEF IdleInv
<1>5. CountInv'
  BY <1>0 DEF CountInv
<1>6. EventInv'
  BY DEF EventInv
<1>7. CountedInv'
  <2>1. \A x \in Jobs : Pending(x)' => Pending(x)
    BY <1>0 DEF Pending
  <2> QED BY <2>1 DEF CountedInv
<1>8. ChainInv'
  BY <1>0 DEF ChainInv
<1>9. WeaverInv'
  BY <1>0 DEF WeaverInv, Holds
<1> QED BY <1>1, <1>2, <1>3, <1>4, <1>5, <1>6, <1>7, <1>8, <1>9

LEMMA PlaceKept ==
  ASSUME NEW t \in Threads, Place(t),
         pc'[t] = pc[t], job'[t] = job[t], next'[t] = next[t],
         m_mutex' = t <=> m_mutex = t, runnersDone \subseteq runnersDone',
         Begun(job[t]) => Begun(job[t])',
         pc[t] \in {"taken", "execute"} => ~Begun(job[t])',
         pc[t] = "queueing" => jobCounter'[job[t]] > 0
  PROVE  Place(t)'
<1>1. PICK j : j = job[t]
  OBVIOUS
<1>2. Begun(job[t])' <=> Begun(j)'
  BY <1>1 DEF Begun
<1> QED BY <1>1, <1>2 DEF Place

LEMMA OnlyOne ==
  ASSUME TypeOK, PlaceInv, NEW t \in Threads, m_mutex = t \/ MutexFree,
         NEW u \in Threads, u # t
  PROVE  pc[u] # "scan"
BY CollectionConstants DEF PlaceInv, Place, MutexFree

\* The steps of the scan and those that only move a thread on.
LEMMA ScanSteps ==
  ASSUME IInv, TypeOK', NEW t \in Threads,
         \/ LockQueue(t) \/ AskNext(t) \/ SkipJob(t) \/ NothingAvailable(t)
         \/ IncActive(t) \/ FreeJob(t) \/ Returned(t) \/ StopSequence(t)
  PROVE  IInv'
<1> USE DEF IInv, Goto, At, queueVars, doneVars
<1>0. /\ t # NoThread
      /\ pc \in [Threads -> Busy \cup {"apply", "scan", "taken"}]
      /\ job \in [Threads -> Jobs \cup {NoJob}]
      /\ next \in [Threads -> Nat \ {0}]
  BY CollectionConstants DEF TypeOK
<1>1. Place(t)
  BY DEF PlaceInv
<1>2. CASE StopSequence(t)
  <2>1. PICK c : c = Parent(job[t])
    OBVIOUS
  <2>2. c # NoJob /\ job[t] \in Jobs /\ pc[t] = "stop"
    BY <1>0, <1>1, <1>2, <2>1 DEF StopSequence, Place
  <2>3. c \in Jobs /\ c \in Collections /\ ~Plain(c)
    BY <2>1, <2>2, ParentTypes
  <2>4. jobCounter[c] > 0
    BY <2>1, <2>2, ChainIs DEF CountedInv, Pending
  <2>5. c \notin Queued
    BY <2>3, <2>4 DEF QueueInv, Begun
  <2>6. dequeue(c)
    BY <1>2, <2>1 DEF StopSequence, dequeue
  <2>7. UNCHANGED <<m_assignments, weaver>>
    BY <2>5, <2>6 DEF dequeue
  <2>8. Place(t)'
    BY <1>0, <1>1, <1>2 DEF StopSequence, Place, Begun
  <2>9. ASSUME NEW u \in Threads, u # t PROVE Place(u)'
    <3>1. Begun(job[u])' <=> Begun(job[u])
      BY <1>0, <1>2, <2>9 DEF StopSequence, Begun
    <3> QED BY <1>0, <1>2, <2>9, <3>1, PlaceKept DEF StopSequence, PlaceInv, Place
  <2>10. PlaceInv'
    BY <2>8, <2>9 DEF PlaceInv
  <2> QED BY <1>0, <1>2, <2>7, <2>10, QuietStep DEF StopSequence
<1>3. CASE FreeJob(t)
  <2>1. Plain(job[t]) /\ job[t] \in Jobs /\ Begun(job[t]) /\ pc[t] = "free"
    BY <1>0, <1>1, <1>3 DEF FreeJob, Place
  <2>2. job[t] \in finished
    BY <2>1 DEF Begun, CountInv, Plain
  <2>3. done' \subseteq finished
    BY <1>3, <2>2 DEF FreeJob
  <2>4. Place(t)'
    BY <1>0, <1>1, <1>3 DEF FreeJob, Place, Begun
  <2>5. ASSUME NEW u \in Threads, u # t PROVE Place(u)'
    <3>1. Begun(job[u])' <=> Begun(job[u])
      BY <1>0, <1>3, <2>5 DEF FreeJob, Begun
    <3> QED BY <1>0, <1>3, <2>5, <3>1, PlaceKept DEF FreeJob, PlaceInv, Place
  <2>6. PlaceInv'
    BY <2>4, <2>5 DEF PlaceInv
  <2> QED BY <1>0, <1>3, <2>3, <2>6, QuietStep DEF FreeJob
<1>4. CASE Returned(t)
  <2>1. Place(t)'
    <3>1. pc[t] = "returned" /\ m_mutex' = m_mutex /\ m_mutex # t
      BY <1>1, <1>4 DEF Returned, Place
    <3>2. CASE Parent(job[t]) = NoJob
      BY <1>0, <1>4, <3>1, <3>2 DEF Returned, Place
    <3>3. CASE Parent(job[t]) # NoJob
      <4>1. job[t] \in Jobs /\ job[t] # NoJob
        BY <3>3, ParentTypes, CollectionConstants
      <4>2. PICK j : j = job[t]
        OBVIOUS
      <4>3. job'[t] = j /\ pc'[t] \in {"stop", "runnerDone"}
            /\ runnersDone' = runnersDone /\ UNCHANGED <<finished, jobCounter>>
        BY <1>0, <1>4, <3>3, <4>2 DEF Returned
      <4>4. Begun(j) /\ (Plain(j) \/ First(j) \in runnersDone)
        BY <1>1, <3>1, <4>1, <4>2 DEF Place
      <4>5. Begun(j)'
        BY <4>3, <4>4 DEF Begun
      <4>6. Begun(job[t])'
        BY <4>3, <4>5 DEF Begun
      <4> QED BY <3>1, <3>3, <4>1, <4>2, <4>3, <4>4, <4>6 DEF Place
    <3> QED BY <3>2, <3>3
  <2>2. ASSUME NEW u \in Threads, u # t PROVE Place(u)'
    <3>1. Begun(job[u])' <=> Begun(job[u])
      BY <1>0, <1>4, <2>2 DEF Returned, Begun
    <3> QED BY <1>0, <1>4, <2>2, <3>1, PlaceKept DEF Returned, PlaceInv, Place
  <2>3. PlaceInv'
    BY <2>1, <2>2 DEF PlaceInv
  <2> QED BY <1>0, <1>4, <2>3, QuietStep DEF Returned
<1>5. ASSUME LockQueue(t) \/ AskNext(t) \/ SkipJob(t) \/ NothingAvailable(t)
             \/ IncActive(t)
      PROVE  IInv'
  <2> USE DEF LockQueue, AskNext, SkipJob, NothingAvailable, IncActive, Scanning
  <2>1. m_mutex = t \/ MutexFree
    BY <1>1, <1>5 DEF Place
  <2>2. Place(t)'
    <3>1. Begun(job[t])' <=> Begun(job[t])
      BY <1>0, <1>5 DEF Begun
    <3> QED BY <1>0, <1>1, <1>5, <3>1 DEF Place, MutexFree
  <2>3. ASSUME NEW u \in Threads, u # t PROVE Place(u)'
    <3>1. Begun(job[u])' <=> Begun(job[u])
      BY <1>0, <1>5 DEF Begun
    <3>2. Place(u) /\ pc[u] # "scan" /\ u # NoThread
      BY <2>1, <2>3, OnlyOne, CollectionConstants DEF PlaceInv
    <3>3. pc'[u] = pc[u] /\ job'[u] = job[u] /\ next'[u] = next[u] /\ m_mutex # u
          /\ m_mutex' # u /\ runnersDone' = runnersDone /\ jobCounter' = jobCounter
      BY <1>0, <1>5, <2>1, <2>3, <3>2 DEF MutexFree
    <3> QED BY <3>1, <3>2, <3>3, PlaceKept DEF Place
  <2>4. PlaceInv'
    BY <2>2, <2>3 DEF PlaceInv
  <2>5. UNCHANGED <<m_assignments, next, events, weaver, jobCounter, finished,
                    runnersDone, job, done>>
    BY <1>5
  <2>6. \A u \in Threads :
          /\ pc'[u] = "queueing" => pc[u] = "queueing"
          /\ pc'[u] \in {"taken", "execute"} => pc[u] \in {"taken", "execute"}
    BY <1>0, <1>5
  <2> QED BY <2>4, <2>5, <2>6, QuietStep
<1> QED BY <1>2, <1>3, <1>4, <1>5

\* The chains of what is held and what is queued do not meet.
LEMMA QueuedApart ==
  ASSUME TypeOK, QueueInv, IdleInv, NEW k \in Queued, NEW x \in Jobs, k \in Chain(x)
  PROVE  x = k
<1>1. k \in Jobs
  BY DEF Queued, ToSet, TypeOK
<1>2. SUFFICES ASSUME x # k PROVE FALSE
  OBVIOUS
<1>3. Parent(k) # NoJob /\ k = First(Parent(k))
  BY <1>2, ChainUp
<1>4. Parent(k) \in Collections /\ ~Empty(Parent(k))
  BY <1>3, ParentTypes DEF Plain
<1> QED BY <1>3, <1>4 DEF QueueInv

LEMMA TakeJobStep ==
  ASSUME IInv, TypeOK', NEW t \in Threads, TakeJob(t)
  PROVE  IInv'
<1> USE DEF IInv, Goto, At, queueVars, doneVars
<1>0. /\ t # NoThread
      /\ pc \in [Threads -> Busy \cup {"apply", "scan", "taken"}]
      /\ job \in [Threads -> Jobs \cup {NoJob}]
      /\ NoJob \notin Jobs
  BY CollectionConstants DEF TypeOK
<1>1. Place(t) /\ pc[t] = "scan" /\ m_mutex = t /\ job[t] = NoJob
  BY DEF PlaceInv, Place, TakeJob, Scanning
<1>2. PICK j : j = Scanned
  OBVIOUS
<1>3. j \in Queued /\ j \in Jobs /\ index \in 1..Len(m_assignments)
      /\ m_assignments[index] = j
  BY <1>2 DEF TakeJob, Scanning, Scanned, Queued, ToSet, TypeOK
<1>4. /\ pc' = [pc EXCEPT ![t] = "taken"] /\ job' = [job EXCEPT ![t] = j]
      /\ m_mutex' = NoThread /\ m_assignments' = RemoveAt(m_assignments, index)
      /\ UNCHANGED <<next, events, weaver, jobCounter, finished, runnersDone, done>>
  BY <1>2 DEF TakeJob
<1>5. IsInjective(m_assignments') /\ Queued' = Queued \ {j}
  BY <1>3, <1>4, RemoveAtSet DEF QueueInv, TypeOK, Queued
<1>6. /\ \A x : Begun(x)' <=> Begun(x)
      /\ \A c : Open(c)' = Open(c)
      /\ \A u \in Threads, x \in Jobs : Holds(u, x)' <=> Holds(u, x) \/ (u = t /\ x = j)
  BY <1>0, <1>1, <1>4 DEF Begun, Open, Holds
<1>7. /\ ~Begun(j) /\ \A u \in Threads : job[u] # j
      /\ \A c \in Collections : ~Empty(c) => j # First(c)
  BY <1>3 DEF QueueInv, Holds
<1>8. j \notin runnersDone
  BY <1>7 DEF RunnerInv
<1>9. \A u \in Threads, x \in Jobs :
        job'[u] \in Chain(x) => job[u] \in Chain(x) \/ (u = t /\ x = j)
  BY <1>0, <1>3, <1>4, QueuedApart
<1>10. PlaceInv'
  <2>1. Place(t)'
    <3>1. ~Begun(job[t])'
      BY <1>0, <1>4, <1>7 DEF Begun
    <3> QED BY <1>0, <1>3, <1>4, <3>1 DEF Place
  <2>2. ASSUME NEW u \in Threads, u # t PROVE Place(u)'
    <3>1. Begun(job[u])' <=> Begun(job[u])
      BY <1>0, <1>4, <2>2 DEF Begun
    <3>2. Place(u) /\ u # NoThread
      BY CollectionConstants DEF PlaceInv
    <3> QED BY <1>0, <1>1, <1>4, <2>2, <3>1, <3>2, PlaceKept DEF Place
  <2> QED BY <2>1, <2>2 DEF PlaceInv
<1>11. HolderInv'
  BY <1>0, <1>3, <1>4, <1>7 DEF HolderInv
<1>12. QueueInv'
  <2>1. Queued \subseteq Jobs
    BY DEF Queued, ToSet, TypeOK
  <2> QED BY <1>5, <1>6, <2>1 DEF QueueInv
<1>13. RunnerInv'
  BY <1>4, <1>6 DEF RunnerInv
<1>14. IdleInv'
  <2>1. \A c, n : Ahead(c, n)' => Ahead(c, n)
    BY <1>0, <1>4, <1>6 DEF Ahead
  <2>2. \A x \in Jobs : Idle(x) => Idle(x)'
    <3>1. ~Idle(j)
      BY <1>3 DEF Idle
    <3> QED BY <1>4, <1>5, <1>6, <3>1 DEF Idle
  <2>3. \A c \in Collections : \A n \in 1..Len(elements[c]) : elements[c][n] \in Jobs
    BY CollectionConstants
  <2> QED BY <2>1, <2>2, <2>3 DEF IdleInv
<1>15. CountInv'
  BY <1>4, <1>6 DEF CountInv
<1>16. EventInv'
  BY <1>4 DEF EventInv
<1>17. CountedInv'
  <2>1. \A x \in Jobs : Pending(x)' => Pending(x)
    BY <1>3, <1>4, <1>5, <1>9 DEF Pending
  <2> QED BY <1>4, <2>1 DEF CountedInv
<1>18. ChainInv'
  BY <1>4, <1>8, <1>9 DEF ChainInv
<1>19. WeaverInv'
  <2>1. SUFFICES ASSUME NEW x \in Jobs,
                        \/ x \in Queued'
                        \/ \E u \in Threads : /\ Holds(u, x)'
                             /\ pc'[u] \in {"taken", "execute", "queueing"}
                 PROVE  Chain(x) \cap Collections \subseteq weaver
    BY <1>4 DEF WeaverInv
  <2>2. \/ x \in Queued
        \/ \E u \in Threads : Holds(u, x) /\ pc[u] \in {"taken", "execute", "queueing"}
    BY <1>0, <1>1, <1>3, <1>4, <1>5, <1>6, <2>1 DEF Holds
  <2> QED BY <2>2 DEF WeaverInv
<1> QED BY <1>4, <1>10, <1>11, <1>12, <1>13, <1>14, <1>15, <1>16, <1>17, <1>18, <1>19

LEMMA RunJobStep ==
  ASSUME IInv, TypeOK', NEW t \in Threads, RunJob(t)
  PROVE  IInv'
<1> USE DEF IInv, Goto, At, queueVars, doneVars
<1>0. /\ pc \in [Threads -> Busy \cup {"apply", "scan", "taken"}]
      /\ job \in [Threads -> Jobs \cup {NoJob}]
      /\ NoJob \notin Jobs
  BY CollectionConstants DEF TypeOK
<1>1. PICK j : j = job[t]
  OBVIOUS
<1>2. Place(t) /\ pc[t] = "execute" /\ j \in Jobs /\ Plain(j) /\ ~Begun(j)
  BY <1>0, <1>1 DEF PlaceInv, Place, RunJob
<1>3. /\ pc' = [pc EXCEPT ![t] = "free"] /\ finished' = finished \cup {j}
      /\ UNCHANGED <<m_assignments, m_mutex, job, next, events, weaver,
                     jobCounter, runnersDone, done>>
  BY <1>1 DEF RunJob
<1>4. /\ Queued' = Queued
      /\ \A x : Begun(x)' <=> Begun(x) \/ x = j
      /\ \A c : Open(c)' = Open(c)
      /\ \A u \in Threads, x \in Jobs : Holds(u, x)' <=> Holds(u, x)
  BY <1>3 DEF Begun, Queued, Open, Holds
<1>5. PlaceInv'
  <2>1. Place(t)'
    <3>1. Begun(job[t])'
      BY <1>1, <1>3 DEF Begun
    <3> QED BY <1>0, <1>1, <1>2, <1>3, <3>1 DEF Place
  <2>2. ASSUME NEW u \in Threads, u # t PROVE Place(u)'
    <3>1. PICK x : x = job[u]
      OBVIOUS
    <3>2. x # j
      BY <1>0, <1>1, <1>2, <2>2, <3>1 DEF HolderInv
    <3>3. Begun(job[u])' <=> Begun(job[u])
      BY <1>3, <3>1, <3>2 DEF Begun
    <3>4. Place(u)
      BY DEF PlaceInv
    <3> QED BY <1>0, <1>3, <2>2, <3>3, <3>4, PlaceKept DEF Place
  <2> QED BY <2>1, <2>2 DEF PlaceInv
<1>6. HolderInv'
  BY <1>3 DEF HolderInv
<1>7. QueueInv'
  <2>0. j \notin Queued
    BY <1>1 DEF QueueInv, Holds
  <2>1. j \notin Queued /\ Queued \subseteq Jobs
    BY <2>0 DEF Queued, ToSet, TypeOK
  <2> QED BY <1>3, <1>4, <2>1 DEF QueueInv
<1>8. RunnerInv'
  BY <1>3, <1>4 DEF RunnerInv
<1>9. IdleInv'
  <2>1. \A c, n : Ahead(c, n)' => Ahead(c, n)
    BY <1>0, <1>3, <1>4 DEF Ahead
  <2>2. \A x \in Jobs : Idle(x) => Idle(x)'
    <3>1. ~Idle(j)
      BY <1>1 DEF Idle, Holds
    <3> QED BY <1>3, <1>4, <3>1 DEF Idle
  <2>3. \A c \in Collections : \A n \in 1..Len(elements[c]) : elements[c][n] \in Jobs
    BY CollectionConstants
  <2> QED BY <2>1, <2>2, <2>3 DEF IdleInv
<1>10. CountInv'
  BY <1>2, <1>3, <1>4 DEF CountInv, Plain
<1>11. EventInv'
  BY <1>3 DEF EventInv
<1>12. CountedInv'
  BY <1>3, <1>4 DEF CountedInv, Pending
<1>13. ChainInv'
  BY <1>3 DEF ChainInv
<1>14. WeaverInv'
  BY <1>0, <1>3, <1>4 DEF WeaverInv
<1> QED BY <1>3, <1>5, <1>6, <1>7, <1>8, <1>9, <1>10, <1>11, <1>12, <1>13, <1>14

\* A collection counts the elements its list has, no entry being there twice.
LEMMA ElementsCounted ==
  ASSUME NEW c \in Collections
  PROVE  IsFiniteSet(Elements(c)) /\ Cardinality(Elements(c)) = Len(elements[c])
<1> DEFINE q == elements[c]
           I == 1..Len(q)
<1>1. q \in Seq(Jobs) /\ Len(q) \in Nat /\ DOMAIN q = I
  BY CollectionConstants
<1>2. \A m, n \in I : q[m] = q[n] => m = n
  BY ElementsOnce
<1>3. Elements(c) = {q[n] : n \in I}
  BY <1>1 DEF Elements, ToSet
<1>4. IsFiniteSet(I) /\ Cardinality(I) = Len(q)
  BY <1>1, FS_Interval
<1> DEFINE f == [n \in I |-> q[n]]
<1>5. f \in Bijection(I, Elements(c))
  <2>1. f \in [I -> Elements(c)]
    BY <1>3
  <2>2. f \in Injection(I, Elements(c))
    <3> HIDE DEF q, I
    <3> QED BY <1>2, <2>1 DEF Injection, IsInjective
  <2>3. f \in Surjection(I, Elements(c))
    <3> HIDE DEF q, I
    <3> QED BY <1>3, <2>1 DEF Surjection
  <2> QED BY <2>2, <2>3 DEF Bijection
<1> HIDE DEF f, I
<1>6. ExistsBijection(I, Elements(c))
  BY <1>5 DEF ExistsBijection
<1> QED BY <1>4, <1>6, FS_Bijection

LEMMA ElementTypes ==
  \A c \in Collections : \A n \in 1..Len(elements[c]) :
    /\ elements[c][n] \in Jobs /\ elements[c][n] \in Elements(c)
    /\ Parent(elements[c][n]) = c /\ Parent(elements[c][n]) # NoJob
<1> SUFFICES ASSUME NEW c \in Collections, NEW n \in 1..Len(elements[c])
             PROVE  /\ elements[c][n] \in Jobs /\ elements[c][n] \in Elements(c)
                    /\ Parent(elements[c][n]) = c /\ Parent(elements[c][n]) # NoJob
  OBVIOUS
<1>1. elements[c] \in Seq(Jobs) /\ c \in Jobs /\ NoJob \notin Jobs
  BY CollectionConstants
<1>2. elements[c][n] \in Jobs /\ elements[c][n] \in Elements(c)
  BY <1>1 DEF Elements, ToSet
<1> QED BY <1>1, <1>2, ParentIs

LEMMA StartCollectionStep ==
  ASSUME IInv, TypeOK', NEW t \in Threads, StartCollection(t)
  PROVE  IInv'
<1> USE DEF IInv, Goto, At, queueVars, doneVars
<1>0. /\ pc \in [Threads -> Busy \cup {"apply", "scan", "taken"}]
      /\ job \in [Threads -> Jobs \cup {NoJob}]
      /\ next \in [Threads -> Nat \ {0}]
      /\ jobCounter \in [Collections -> Nat]
      /\ NoJob \notin Jobs
  BY CollectionConstants DEF TypeOK
<1>1. PICK c : c = job[t]
  OBVIOUS
<1>2. /\ Place(t) /\ pc[t] = "execute" /\ c \in Jobs /\ ~Plain(c) /\ ~Begun(c)
      /\ c \in Collections /\ ~Empty(c)
      /\ Len(elements[c]) \in Nat /\ Len(elements[c]) > 0
  <2>1. Place(t) /\ pc[t] = "execute" /\ c \in Jobs /\ ~Plain(c) /\ ~Begun(c)
    BY <1>0, <1>1 DEF PlaceInv, Place, StartCollection
  <2> QED BY <2>1, FirstIsElement
<1>3. /\ pc' = [pc EXCEPT ![t] = "queueing"] /\ next' = [next EXCEPT ![t] = 2]
      /\ jobCounter' = [jobCounter EXCEPT ![c] = Len(elements[c])]
      /\ UNCHANGED <<m_assignments, m_mutex, job, finished, events, weaver,
                     runnersDone, done>>
  BY <1>1 DEF StartCollection
<1>4. /\ Queued' = Queued
      /\ \A x : Begun(x)' <=> Begun(x) \/ x = c
      /\ \A d : Open(d)' = Open(d)
      /\ \A u \in Threads, x \in Jobs : Holds(u, x)' <=> Holds(u, x)
      /\ \A d \in Collections :
           jobCounter'[d] = IF d = c THEN Len(elements[c]) ELSE jobCounter[d]
  BY <1>0, <1>2, <1>3 DEF Begun, Queued, Open, Holds
<1>5. PlaceInv'
  <2>1. Place(t)'
    BY <1>0, <1>1, <1>2, <1>3, <1>4 DEF Place
  <2>2. ASSUME NEW u \in Threads, u # t PROVE Place(u)'
    <3>1. PICK x : x = job[u]
      OBVIOUS
    <3>2. x # c
      BY <1>0, <1>1, <1>2, <2>2, <3>1 DEF HolderInv
    <3>3. Begun(job[u])' <=> Begun(job[u])
      <4>1. Begun(x)' <=> Begun(x)
        BY <1>4, <3>2
      <4> QED BY <1>3, <3>1, <4>1 DEF Begun
    <3>4. Place(u)
      BY DEF PlaceInv
    <3>5. pc[u] = "queueing" => jobCounter'[job[u]] > 0
      BY <1>4, <3>1, <3>2, <3>4, FirstIsElement DEF Place
    <3> QED BY <1>0, <1>3, <2>2, <3>3, <3>4, <3>5, PlaceKept DEF Place
  <2> QED BY <2>1, <2>2 DEF PlaceInv
<1>6. HolderInv'
  BY <1>3 DEF HolderInv
<1>7. QueueInv'
  <2>0. c \notin Queued
    BY <1>1 DEF QueueInv, Holds
  <2>1. c \notin Queued /\ Queued \subseteq Jobs
    BY <2>0 DEF Queued, ToSet, TypeOK
  <2> QED BY <1>3, <1>4, <2>1 DEF QueueInv
<1>8. RunnerInv'
  BY <1>3, <1>4 DEF RunnerInv
<1>9. IdleInv'
  <2>1. \A d, n : Ahead(d, n)' => Ahead(d, n)
    BY <1>0, <1>1, <1>2, <1>3, <1>4 DEF Ahead
  <2>2. \A x \in Jobs : Idle(x) => Idle(x)'
    <3>1. ~Idle(c)
      BY <1>1 DEF Idle, Holds
    <3> QED BY <1>3, <1>4, <3>1 DEF Idle
  <2> QED BY <2>1, <2>2, ElementTypes DEF IdleInv
<1>10. CountInv'
  <2>1. Open(c) = Elements(c)
    <3>1. ASSUME NEW x \in Elements(c) PROVE x \notin runnersDone
      <4>1. PICK n \in 1..Len(elements[c]) : x = elements[c][n]
        BY <1>2, CollectionConstants DEF Elements, ToSet
      <4>2. Idle(x)
        BY <1>2, <4>1 DEF IdleInv, Ahead
      <4> QED BY <4>2 DEF Idle
    <3> QED BY <3>1 DEF Open
  <2>2. jobCounter'[c] = Cardinality(Open(c))
    BY <1>2, <1>4, <2>1, ElementsCounted
  <2>3. c \in weaver
    <3>1. c \in Chain(c)
      BY <1>2, ChainIs
    <3> QED BY <1>1, <1>2, <3>1 DEF WeaverInv, Holds
  <2>4. c \notin finished
    BY <1>2 DEF Begun
  <2> QED BY <1>2, <1>3, <1>4, <2>2, <2>3, <2>4 DEF CountInv
<1>11. EventInv'
  BY <1>3 DEF EventInv
<1>12. CountedInv'
  BY <1>2, <1>3, <1>4, ParentTypes DEF CountedInv, Pending
<1>13. ChainInv'
  BY <1>3 DEF ChainInv
<1>14. WeaverInv'
  BY <1>0, <1>2, <1>3, <1>4 DEF WeaverInv
<1> QED BY <1>3, <1>5, <1>6, <1>7, <1>8, <1>9, <1>10, <1>11, <1>12, <1>13, <1>14

LEMMA QueueElementStep ==
  ASSUME IInv, TypeOK', NEW t \in Threads, QueueElement(t)
  PROVE  IInv'
<1> USE DEF IInv, Goto, At, queueVars, doneVars
<1>0. /\ job \in [Threads -> Jobs \cup {NoJob}]
      /\ next \in [Threads -> Nat \ {0}]
      /\ NoJob \notin Jobs
  BY CollectionConstants DEF TypeOK
<1>1. PICK c : c = job[t]
  OBVIOUS
<1>2. /\ Place(t) /\ pc[t] = "queueing" /\ c \in Jobs /\ ~Plain(c)
      /\ jobCounter[c] > 0 /\ next[t] >= 2 /\ next[t] <= Len(elements[c])
    BY <1>0, <1>1 DEF PlaceInv, Place, QueueElement
<1>3. /\ c \in Collections /\ Len(elements[c]) \in Nat /\ Begun(c)
  BY <1>2, FirstIsElement DEF Begun
<1>4. PICK n \in 2..Len(elements[c]) : n = next[t]
  BY <1>0, <1>2, <1>3
<1>5. PICK x : x = elements[c][n]
  OBVIOUS
<1>6. x \in Jobs /\ Parent(x) = c /\ n \in 1..Len(elements[c])
  BY <1>3, <1>4, <1>5, ElementTypes
<1>7. /\ m_assignments' = Append(m_assignments, x)
      /\ weaver' = weaver \cup (Chain(x) \cap Collections)
      /\ next' = [next EXCEPT ![t] = n + 1]
      /\ UNCHANGED <<m_mutex, pc, job, finished, events, jobCounter,
                     runnersDone, done>>
  BY <1>1, <1>4, <1>5 DEF QueueElement, enqueue, Chain
<1>8. Idle(x)
  BY <1>1, <1>2, <1>3, <1>4, <1>5, <1>6 DEF IdleInv, Ahead
<1>9. /\ Queued' = Queued \cup {x} /\ IsInjective(m_assignments')
  BY <1>6, <1>7, <1>8, AppendSet DEF Queued, Idle, QueueInv, TypeOK
<1>10. /\ \A y : Begun(y)' <=> Begun(y)
       /\ \A d : Open(d)' = Open(d)
       /\ \A u \in Threads, y \in Jobs : Holds(u, y)' <=> Holds(u, y)
  BY <1>7 DEF Begun, Open, Holds
<1>11. PlaceInv'
  <2>1. Place(t)'
    BY <1>0, <1>1, <1>2, <1>3, <1>4, <1>7 DEF Place
  <2>2. ASSUME NEW u \in Threads, u # t PROVE Place(u)'
    <3>1. Begun(job[u])' <=> Begun(job[u])
      BY <1>7 DEF Begun
    <3>2. Place(u)
      BY DEF PlaceInv
    <3> QED BY <1>0, <1>7, <2>2, <3>1, <3>2, PlaceKept DEF Place
  <2> QED BY <2>1, <2>2 DEF PlaceInv
<1>12. HolderInv'
  BY <1>7 DEF HolderInv
<1>13. QueueInv'
  <2>1. ASSUME NEW d \in Collections, ~Empty(d) PROVE x # First(d)
    <3>1. 1 \in 1..Len(elements[d])
      BY <2>1, FirstIsElement DEF Plain
    <3> QED BY <1>3, <1>4, <1>5, <1>6, <3>1, ElementsOnce DEF First
  <2>2. Queued \subseteq Jobs
    BY DEF Queued, ToSet, TypeOK
  <2> QED BY <1>6, <1>8, <1>9, <1>10, <2>1, <2>2 DEF QueueInv, Idle
<1>14. RunnerInv'
  BY <1>7, <1>10 DEF RunnerInv
<1>15. IdleInv'
  <2>1. ASSUME NEW d \in Collections, NEW m \in 1..Len(elements[d]), Ahead(d, m)'
        PROVE  Ahead(d, m) /\ elements[d][m] # x
    <3>1. Ahead(d, m) /\ (d # c \/ m # n)
      <4>1. CASE ~Begun(d)'
        BY <1>3, <1>10, <4>1 DEF Ahead
      <4>2. CASE Begun(d)'
        <5>1. PICK u \in Threads : pc'[u] = "queueing" /\ job'[u] = d
                                   /\ (m = 1 \/ m >= next'[u])
          BY <2>1, <4>2 DEF Ahead
        <5>2. m = 1 \/ m >= next[u]
          BY <1>0, <1>4, <1>7, <5>1, CollectionConstants
        <5>3. Ahead(d, m)
          BY <1>7, <5>1, <5>2 DEF Ahead
        <5>4. ASSUME d = c, m = n PROVE FALSE
          <6>1. u = t
            BY <1>0, <1>1, <1>2, <1>7, <5>1, <5>4 DEF HolderInv
          <6> QED BY <1>0, <1>4, <1>7, <5>1, <5>4, <6>1
        <5> QED BY <5>3, <5>4
      <4> QED BY <4>1, <4>2
    <3> QED BY <1>3, <1>5, <1>6, <3>1, ElementsOnce
  <2>2. \A y \in Jobs : Idle(y) /\ y # x => Idle(y)'
    BY <1>7, <1>9, <1>10 DEF Idle
  <2> QED BY <2>1, <2>2, ElementTypes DEF IdleInv
<1>16. CountInv'
  BY <1>7, <1>10 DEF CountInv
<1>17. EventInv'
  BY <1>7 DEF EventInv
<1>18. CountedInv'
  <2>1. \A y \in Jobs : Pending(y)' => Pending(y) \/ y = x
    BY <1>7, <1>9 DEF Pending
  <2> QED BY <1>2, <1>6, <1>7, <2>1 DEF CountedInv
<1>19. ChainInv'
  BY <1>7 DEF ChainInv
<1>20. WeaverInv'
  BY <1>7, <1>9, <1>10 DEF WeaverInv
<1> QED BY <1>7, <1>11, <1>12, <1>13, <1>14, <1>15, <1>16, <1>17, <1>18, <1>19, <1>20

LEMMA ExecuteFirstStep ==
  ASSUME IInv, TypeOK', NEW t \in Threads, ExecuteFirst(t)
  PROVE  IInv'
<1> USE DEF IInv, Goto, At, queueVars, doneVars
<1>0. /\ pc \in [Threads -> Busy \cup {"apply", "scan", "taken"}]
      /\ job \in [Threads -> Jobs \cup {NoJob}]
      /\ next \in [Threads -> Nat \ {0}]
      /\ NoJob \notin Jobs
  BY CollectionConstants DEF TypeOK
<1>1. PICK c : c = job[t]
  OBVIOUS
<1>2. Place(t) /\ pc[t] = "queueing" /\ c \in Jobs /\ ~Plain(c) /\ jobCounter[c] > 0
  BY <1>0, <1>1 DEF PlaceInv, Place, ExecuteFirst
<1>3. c \in Collections /\ Begun(c) /\ 1 \in 1..Len(elements[c])
  BY <1>2, FirstIsElement DEF Begun
<1>4. PICK x : x = First(c)
  OBVIOUS
<1>5. x \in Jobs /\ Parent(x) = c /\ elements[c][1] = x
  BY <1>3, <1>4, ElementTypes DEF First
<1>6. /\ pc' = [pc EXCEPT ![t] = "execute"] /\ job' = [job EXCEPT ![t] = x]
      /\ next' = [next EXCEPT ![t] = 1]
      /\ UNCHANGED <<m_assignments, m_mutex, finished, events, weaver,
                     jobCounter, runnersDone, done>>
  BY <1>1, <1>5 DEF ExecuteFirst
<1>7. Idle(x)
  BY <1>1, <1>2, <1>3, <1>5 DEF IdleInv, Ahead
<1>8. /\ Queued' = Queued
      /\ \A y : Begun(y)' <=> Begun(y)
      /\ \A d : Open(d)' = Open(d)
      /\ \A u \in Threads, y \in Jobs : Holds(u, y)' => Holds(u, y) \/ y = x
  BY <1>0, <1>6 DEF Begun, Queued, Open, Holds
<1>9. \A u \in Threads, y \in Jobs :
        job'[u] \in Chain(y) => y = x \/ \E v \in Threads : job[v] \in Chain(y)
  <2>1. SUFFICES ASSUME NEW u \in Threads, NEW y \in Jobs, job'[u] \in Chain(y), y # x
                 PROVE  \E v \in Threads : job[v] \in Chain(y)
    OBVIOUS
  <2>2. CASE u # t
    BY <1>0, <1>6, <2>1, <2>2
  <2>3. CASE u = t
    <3>1. x \in Chain(y)
      BY <1>0, <1>6, <2>1, <2>3
    <3>2. c \in Chain(y)
      BY <1>5, <2>1, <3>1, ChainUp
    <3> QED BY <1>1, <3>2
  <2> QED BY <2>2, <2>3
<1>10. PlaceInv'
  <2>1. Place(t)'
    <3>1. ~Begun(job[t])'
      BY <1>0, <1>6, <1>7 DEF Idle, Begun
    <3> QED BY <1>0, <1>2, <1>5, <1>6, <3>1 DEF Place
  <2>2. ASSUME NEW u \in Threads, u # t PROVE Place(u)'
    <3>1. Begun(job[u])' <=> Begun(job[u])
      BY <1>0, <1>6, <2>2 DEF Begun
    <3>2. Place(u)
      BY DEF PlaceInv
    <3> QED BY <1>0, <1>6, <2>2, <3>1, <3>2, PlaceKept DEF Place
  <2> QED BY <2>1, <2>2 DEF PlaceInv
<1>11. HolderInv'
  BY <1>0, <1>6, <1>7 DEF HolderInv, Idle, Holds
<1>12. QueueInv'
  <2>1. x \notin Queued
    BY <1>7 DEF Idle
  <2>2. Queued \subseteq Jobs
    BY DEF Queued, ToSet, TypeOK
  <2> QED BY <1>6, <1>8, <2>1, <2>2 DEF QueueInv
<1>13. RunnerInv'
  BY <1>6, <1>8 DEF RunnerInv
<1>14. IdleInv'
  <2>1. ASSUME NEW d \in Collections, NEW m \in 1..Len(elements[d]), Ahead(d, m)'
        PROVE  Ahead(d, m) /\ elements[d][m] # x
    <3>1. Ahead(d, m) /\ d # c
      <4>1. CASE ~Begun(d)'
        BY <1>3, <1>8, <4>1 DEF Ahead
      <4>2. CASE Begun(d)'
        <5>1. PICK u \in Threads : pc'[u] = "queueing" /\ job'[u] = d
                                   /\ (m = 1 \/ m >= next'[u])
          BY <2>1, <4>2 DEF Ahead
        <5>2. u # t /\ pc[u] = "queueing" /\ job[u] = d /\ next'[u] = next[u]
          BY <1>0, <1>6, <5>1
        <5>3. d # c
          BY <1>0, <1>1, <1>2, <5>2 DEF HolderInv
        <5> QED BY <5>1, <5>2, <5>3 DEF Ahead
      <4> QED BY <4>1, <4>2
    <3> QED BY <1>3, <1>5, <3>1, ElementsOnce
  <2>2. \A y \in Jobs : Idle(y) /\ y # x => Idle(y)'
    BY <1>6, <1>8 DEF Idle
  <2> QED BY <2>1, <2>2, ElementTypes DEF IdleInv
<1>15. CountInv'
  BY <1>6, <1>8 DEF CountInv
<1>16. EventInv'
  BY <1>6 DEF EventInv
<1>17. CountedInv'
  <2>1. \A y \in Jobs : Pending(y)' => Pending(y) \/ y = x
    BY <1>6, <1>8, <1>9 DEF Pending
  <2> QED BY <1>2, <1>5, <1>6, <2>1 DEF CountedInv
<1>18. ChainInv'
  BY <1>6, <1>7, <1>9 DEF ChainInv, Idle
<1>19. WeaverInv'
  <2>1. Chain(x) \cap Collections \subseteq weaver
    <3>1. Chain(c) \cap Collections \subseteq weaver
      BY <1>1, <1>2 DEF WeaverInv, Holds
    <3>2. Chain(x) \subseteq Chain(c)
      BY <1>2, <1>4, ChainIs
    <3> QED BY <3>1, <3>2
  <2>2. ASSUME NEW y \in Jobs, y # x,
               \/ y \in Queued'
               \/ \E u \in Threads : /\ Holds(u, y)'
                    /\ pc'[u] \in {"taken", "execute", "queueing"}
        PROVE  \/ y \in Queued
               \/ \E u \in Threads : /\ Holds(u, y)
                    /\ pc[u] \in {"taken", "execute", "queueing"}
    <3>1. \A u \in Threads : job'[u] = y => u # t /\ job[u] = y /\ pc'[u] = pc[u]
      BY <1>0, <1>6, <2>2
    <3> QED BY <1>8, <2>2, <3>1 DEF Holds
  <2> QED BY <1>6, <2>1, <2>2 DEF WeaverInv
<1> QED BY <1>6, <1>10, <1>11, <1>12, <1>13, <1>14, <1>15, <1>16, <1>17, <1>18, <1>19

LEMMA RunnerDoneStep ==
  ASSUME IInv, TypeOK', NEW t \in Threads, RunnerDone(t)
  PROVE  IInv'
<1> USE DEF IInv, Goto, At, queueVars, doneVars
<1>0. /\ pc \in [Threads -> Busy \cup {"apply", "scan", "taken"}]
      /\ job \in [Threads -> Jobs \cup {NoJob}]
      /\ NoJob \notin Jobs
  BY CollectionConstants DEF TypeOK
<1>1. PICK j, c : j = job[t] /\ c = Parent(j)
  OBVIOUS
<1>2. /\ Place(t) /\ pc[t] = "runnerDone" /\ j \in Jobs /\ c # NoJob /\ Begun(j)
      /\ Plain(j) \/ First(j) \in runnersDone
  BY <1>0, <1>1 DEF PlaceInv, Place, RunnerDone
<1>3. /\ c \in Collections /\ c \in Jobs /\ ~Plain(c) /\ 1 \in 1..Len(elements[c])
      /\ j \in Elements(c)
  BY <1>1, <1>2, ParentTypes, FirstIsElement
<1>4. jobCounter[c] > 0 /\ j \notin runnersDone /\ Begun(c)
  <2>1. job[t] \in Chain(j)
    BY <1>1, <1>2, ChainIs
  <2> QED BY <1>1, <1>2, <1>3, <2>1 DEF CountedInv, Pending, ChainInv, Begun
<1>5. PICK k : k = IF j = First(c) THEN c ELSE NoJob
  OBVIOUS
<1>6. /\ pc' = [pc EXCEPT ![t] = "returned"] /\ job' = [job EXCEPT ![t] = k]
      /\ runnersDone' = runnersDone \cup {j} /\ events' = Append(events, j)
      /\ UNCHANGED <<m_assignments, m_mutex, next, finished, weaver,
                     jobCounter, done>>
  BY <1>1, <1>5 DEF RunnerDone, First
<1>7. j \notin ToSet(events) /\ ToSet(events') = ToSet(events) \cup {j}
      /\ IsInjective(events')
  BY <1>2, <1>4, <1>6, AppendSet DEF EventInv, TypeOK
<1>8. /\ Queued' = Queued
      /\ \A y : Begun(y)' <=> Begun(y)
      /\ \A d : Open(d)' = Open(d)
  BY <1>4, <1>6, <1>7 DEF Begun, Queued, Open
<1>9. k # NoJob => k = c /\ j = First(c) /\ \A u \in Threads : job[u] # c
  <2>1. SUFFICES ASSUME j = First(c), NEW u \in Threads, job[u] = c PROVE FALSE
    BY <1>5
  <2>2. u # t
    <3>1. c \notin Chain(j) /\ j \in Chain(j)
      BY <1>2, <1>3, <2>1, ChainAcyclic, ChainIs
    <3> QED BY <1>1, <2>1, <3>1
  <2>3. First(c) \notin runnersDone
    BY <1>4, <2>1
  <2>4. pc[u] # "queueing"
    <3>1. SUFFICES ASSUME pc[u] = "queueing" PROVE FALSE
      OBVIOUS
    <3>2. Idle(j)
      BY <1>3, <2>1, <3>1 DEF IdleInv, Ahead, First
    <3> QED BY <1>1, <3>2 DEF Idle, Holds
  <2>5. Place(u) /\ c # NoJob
    BY <1>2 DEF PlaceInv
  <2> QED BY <1>0, <1>3, <1>4, <2>1, <2>3, <2>4, <2>5 DEF Place, Busy
<1>10. \A u \in Threads, y \in Jobs : Holds(u, y)' => Holds(u, y) \/ (y = c /\ y = k)
  BY <1>0, <1>6, <1>9 DEF Holds
<1>11. \A u \in Threads, y \in Jobs :
         job'[u] \in Chain(y) =>
           \/ u # t /\ job[u] \in Chain(y)
           \/ u = t /\ k = c /\ c \in Chain(y) /\ j \in Chain(y) /\ y # j
  <2>1. SUFFICES ASSUME NEW u \in Threads, NEW y \in Jobs, job'[u] \in Chain(y)
                 PROVE  \/ u # t /\ job[u] \in Chain(y)
                        \/ u = t /\ k = c /\ c \in Chain(y) /\ j \in Chain(y) /\ y # j
    OBVIOUS
  <2>2. CASE u # t
    BY <1>0, <1>6, <2>1, <2>2
  <2>3. CASE u = t
    <3>1. k \in Chain(y) /\ k # NoJob
      BY <1>0, <1>6, <2>1, <2>3, ChainIs
    <3>2. k = c /\ j = First(c)
      BY <1>9, <3>1
    <3>3. j \in Chain(c)
      BY <1>2, <1>3, <3>2, ChainIs
    <3>4. j \in Chain(y)
      BY <3>1, <3>2, <3>3, ChainsNest
    <3>5. y # j
      BY <1>3, <3>1, <3>2, ChainAcyclic
    <3> QED BY <2>3, <3>1, <3>2, <3>4, <3>5
  <2> QED BY <2>2, <2>3
<1>12. PlaceInv'
  <2>1. Place(t)'
    <3>1. k # NoJob => Begun(job[t])'
      BY <1>0, <1>4, <1>6, <1>8, <1>9 DEF Begun
    <3> QED BY <1>0, <1>2, <1>5, <1>6, <1>9, <3>1 DEF Place
  <2>2. ASSUME NEW u \in Threads, u # t PROVE Place(u)'
    <3>1. Begun(job[u])' <=> Begun(job[u])
      BY <1>0, <1>6, <2>2 DEF Begun
    <3>2. Place(u)
      BY DEF PlaceInv
    <3> QED BY <1>0, <1>6, <2>2, <3>1, <3>2, PlaceKept DEF Place
  <2> QED BY <2>1, <2>2 DEF PlaceInv
<1>13. HolderInv'
  BY <1>0, <1>6, <1>9 DEF HolderInv
<1>14. QueueInv'
  <2>1. c \notin Queued
    BY <1>4 DEF QueueInv
  <2>2. Queued \subseteq Jobs
    BY DEF Queued, ToSet, TypeOK
  <2> QED BY <1>6, <1>8, <1>10, <2>1, <2>2 DEF QueueInv
<1>15. RunnerInv'
  BY <1>2, <1>6, <1>8 DEF RunnerInv
<1>16. IdleInv'
  <2>1. \A d, m : Ahead(d, m)' => Ahead(d, m)
    <3>1. \A u \in Threads : pc'[u] = "queueing" => u # t /\ pc[u] = "queueing"
                               /\ job'[u] = job[u] /\ next'[u] = next[u]
      BY <1>0, <1>6
    <3> QED BY <1>8, <3>1 DEF Ahead
  <2>2. \A y \in Jobs : Idle(y) => Idle(y)'
    <3>1. ~Idle(j) /\ ~Idle(c)
      BY <1>1, <1>4 DEF Idle, Holds
    <3> QED BY <1>6, <1>8, <1>10, <3>1 DEF Idle
  <2> QED BY <2>1, <2>2, ElementTypes DEF IdleInv
<1>17. CountInv'
  BY <1>6, <1>8 DEF CountInv
<1>18. EventInv'
  BY <1>1, <1>2, <1>6, <1>7 DEF EventInv
<1>19. CountedInv'
  <2>1. \A y \in Jobs : Pending(y)' => Pending(y) \/ y = j
    BY <1>1, <1>6, <1>7, <1>8, <1>11 DEF Pending
  <2> QED BY <1>1, <1>4, <1>6, <2>1 DEF CountedInv
<1>20. ChainInv'
  <2>1. ASSUME NEW u \in Threads, u # t PROVE job[u] \notin Chain(j)
    <3>1. job[u] # j
      BY <1>0, <1>1, <1>2, <2>1 DEF HolderInv
    <3>2. CASE Plain(j)
      BY <1>2, <3>1, <3>2, ChainIs
    <3>3. CASE ~Plain(j)
      <4>1. First(j) \in runnersDone /\ First(j) \in Jobs
        BY <1>2, <3>3, FirstIsElement
      <4>2. job[u] \notin Chain(First(j))
        BY <4>1 DEF ChainInv
      <4> QED BY <1>2, <3>1, <3>3, <4>2, ChainIs
    <3> QED BY <3>2, <3>3
  <2>2. SUFFICES ASSUME NEW u \in Threads, NEW y \in Jobs, job'[u] \in Chain(y)
                 PROVE  y \notin runnersDone /\ y # j
    BY <1>6 DEF ChainInv
  <2>3. CASE u # t
    BY <1>11, <2>1, <2>2, <2>3 DEF ChainInv
  <2>4. CASE u = t
    BY <1>1, <1>11, <2>2, <2>4 DEF ChainInv
  <2> QED BY <2>3, <2>4
<1>21. WeaverInv'
  <2>1. \A u \in Threads : pc'[u] \in {"taken", "execute", "queueing"} =>
          u # t /\ pc'[u] = pc[u] /\ job'[u] = job[u]
    BY <1>0, <1>6
  <2> QED BY <1>6, <1>8, <2>1 DEF WeaverInv, Holds
<1> QED BY <1>6, <1>12, <1>13, <1>14, <1>15, <1>16, <1>17, <1>18, <1>19, <1>20, <1>21

\* The steps of the main thread that leave the threads, their jobs and what
\* has begun alone; PlaceInv and HolderInv follow at once.
LEMMA PlacesStay ==
  ASSUME PlaceInv, UNCHANGED <<m_mutex, pc, job, next, runnersDone>>,
         \A x : Begun(x)' <=> Begun(x),
         \A t \in Threads : pc[t] = "queueing" => jobCounter'[job[t]] > 0
  PROVE  PlaceInv'
<1> SUFFICES ASSUME NEW t \in Threads PROVE Place(t)'
  BY DEF PlaceInv
<1>1. PICK x : x = job[t]
  OBVIOUS
<1>2. Begun(job[t])' <=> Begun(x)'
  BY <1>1 DEF Begun
<1>3. Begun(job[t])' <=> Begun(job[t])
  BY <1>1, <1>2
<1> QED BY <1>3, PlaceKept DEF PlaceInv, Place

\* A job in the hands of a thread that has not left its elements to others.
Prepares(x) ==
  \E t \in Threads : Holds(t, x) /\ pc[t] \in {"taken", "execute", "queueing"}

\* Two jobs that are queued or about to execute have nothing in common.
LEMMA ChainsApart ==
  ASSUME TypeOK, QueueInv, IdleInv, NEW k \in Queued,
         NEW x \in Jobs, x # k, x \in Queued \/ Prepares(x)
  PROVE  Chain(x) \cap Chain(k) = {}
<1>1. k \in Jobs /\ ~Begun(k)
  BY DEF Queued, ToSet, TypeOK, QueueInv
<1>2. k \notin Chain(x)
  BY QueuedApart
<1>3. x \notin Chain(k)
  <2>1. SUFFICES ASSUME x \in Chain(k) PROVE FALSE
    OBVIOUS
  <2>2. Idle(x)
    BY <1>1, <2>1, BelowIdle
  <2> QED BY <2>2 DEF Idle, Prepares
<1> QED BY <1>1, <1>2, <1>3, ChainsMeet

\* What has begun is in no such chain, but at its top.
LEMMA BegunApart ==
  ASSUME TypeOK, PlaceInv, QueueInv, IdleInv, NEW c \in Jobs, Begun(c),
         NEW x \in Jobs, x \in Queued \/ Prepares(x), c \in Chain(x)
  PROVE  x = c /\ \E t \in Threads : Holds(t, c) /\ pc[t] = "queueing"
<1>1. CASE ~Begun(x)
  <2>1. Idle(c)
    BY <1>1, BelowIdle
  <2> QED BY <2>1 DEF Idle
<1>2. CASE Begun(x)
  <2>1. PICK t \in Threads : Holds(t, x) /\ pc[t] \in {"taken", "execute", "queueing"}
    BY <1>2 DEF QueueInv, Prepares
  <2>2. pc[t] = "queueing" /\ job[t] = x /\ ~Plain(job[t])
    BY <1>2, <2>1 DEF PlaceInv, Place, Holds
  <2>3. x = c
    <3>1. SUFFICES ASSUME x # c PROVE FALSE
      OBVIOUS
    <3>2. Idle(c)
      BY <2>2, <3>1, BelowQueueing
    <3> QED BY <3>2 DEF Idle
  <2> QED BY <2>2, <2>3 DEF Holds
<1> QED BY <1>1, <1>2

LEMMA EnqueueStep ==
  ASSUME IInv, TypeOK', NEW j \in Jobs, Enqueue(j)
  PROVE  IInv'
<1> USE DEF IInv, queueVars, doneVars
<1>1. /\ m_assignments' = Append(m_assignments, j)
      /\ weaver' = weaver \cup (Chain(j) \cap Collections)
      /\ UNCHANGED <<m_mutex, pc, job, next, events, jobCounter, finished,
                     runnersDone, done>>
      /\ Fresh(j)
  BY DEF Enqueue, enqueue, Chain
<1>2. /\ Parent(j) = NoJob /\ j \notin Queued /\ j \notin finished
      /\ j \notin weaver /\ \A t \in Threads : ~Holds(t, j)
  BY <1>1 DEF Fresh, TopLevel, Holds
<1>3. ~Begun(j)
  BY <1>2 DEF Begun, CountInv
<1>4. Queued' = Queued \cup {j} /\ IsInjective(m_assignments')
  BY <1>1, <1>2, AppendSet DEF Queued, QueueInv, TypeOK
<1>5. /\ \A y : Begun(y)' <=> Begun(y)
      /\ \A d : Open(d)' = Open(d)
      /\ \A u \in Threads, y \in Jobs : Holds(u, y)' <=> Holds(u, y)
  BY <1>1 DEF Begun, Open, Holds
<1>6. PlaceInv'
  BY <1>1, <1>5, PlacesStay DEF PlaceInv, Place
<1>7. HolderInv'
  BY <1>1 DEF HolderInv
<1>8. QueueInv'
  <2>1. \A c \in Collections : ~Empty(c) => j # First(c)
    BY <1>2, FirstIsElement, FirstsParent, CollectionConstants DEF Plain
  <2>2. Queued \subseteq Jobs
    BY DEF Queued, ToSet, TypeOK
  <2> QED BY <1>2, <1>3, <1>4, <1>5, <2>1, <2>2 DEF QueueInv
<1>9. RunnerInv'
  BY <1>1, <1>5 DEF RunnerInv
<1>10. IdleInv'
  <2>1. \A d, m : Ahead(d, m)' => Ahead(d, m)
    BY <1>1, <1>5 DEF Ahead
  <2>2. \A y \in Jobs : Idle(y) /\ y # j => Idle(y)'
    BY <1>1, <1>4, <1>5 DEF Idle
  <2>3. \A c \in Collections : \A n \in 1..Len(elements[c]) : elements[c][n] # j
    BY <1>2, ElementTypes
  <2> QED BY <2>1, <2>2, <2>3, ElementTypes DEF IdleInv
<1>11. CountInv'
  BY <1>1, <1>5 DEF CountInv
<1>12. EventInv'
  BY <1>1 DEF EventInv
<1>13. CountedInv'
  <2>1. \A y \in Jobs : Pending(y)' => Pending(y) \/ y = j
    BY <1>1, <1>4 DEF Pending
  <2> QED BY <1>1, <1>2, <2>1 DEF CountedInv
<1>14. ChainInv'
  BY <1>1 DEF ChainInv
<1>15. WeaverInv'
  BY <1>1, <1>4, <1>5 DEF WeaverInv
<1> QED BY <1>1, <1>6, <1>7, <1>8, <1>9, <1>10, <1>11, <1>12, <1>13, <1>14, <1>15

\* Jobs leave the queue, with what would execute with them.
LEMMA LeaveQueue ==
  ASSUME IInv, TypeOK', NEW R, R \subseteq Queued,
         Queued' \subseteq Queued \ R, IsInjective(m_assignments'),
         weaver' = weaver \ UNION {Chain(k) : k \in R},
         UNCHANGED <<m_mutex, pc, job, next, events, jobCounter, finished,
                     runnersDone, done>>
  PROVE  IInv'
<1> USE DEF IInv
<1>0. Queued \subseteq Jobs
  BY DEF Queued, ToSet, TypeOK
<1>1. /\ \A y : Begun(y)' <=> Begun(y)
      /\ \A d : Open(d)' = Open(d)
      /\ \A u \in Threads, y \in Jobs : Holds(u, y)' <=> Holds(u, y)
  BY DEF Begun, Open, Holds
<1>2. PlaceInv'
  BY <1>1, PlacesStay DEF PlaceInv, Place
<1>3. HolderInv'
  BY DEF HolderInv
<1>4. QueueInv'
  BY <1>0, <1>1 DEF QueueInv
<1>5. RunnerInv'
  BY <1>1 DEF RunnerInv
<1>6. IdleInv'
  <2>1. \A d, m : Ahead(d, m)' => Ahead(d, m)
    BY <1>1 DEF Ahead
  <2>2. \A y \in Jobs : Idle(y) => Idle(y)'
    BY <1>1 DEF Idle
  <2> QED BY <2>1, <2>2, ElementTypes DEF IdleInv
<1>7. CountInv'
  <2>1. ASSUME NEW c \in Collections, jobCounter[c] > 0, NEW k \in R
        PROVE  c \notin Chain(k)
    <3>1. Begun(c) /\ c \in Jobs /\ k \in Jobs /\ k \in Queued
      BY <1>0, <2>1, CollectionConstants DEF Begun
    <3>2. \A t \in Threads : ~Holds(t, k)
      BY <3>1 DEF QueueInv
    <3> QED BY <3>1, <3>2, BegunApart
  <2> QED BY <1>1, <2>1 DEF CountInv
<1>8. EventInv'
  BY DEF EventInv
<1>9. CountedInv'
  BY DEF CountedInv, Pending
<1>10. ChainInv'
  BY DEF ChainInv
<1>11. WeaverInv'
  <2>1. SUFFICES ASSUME NEW x \in Jobs, x \in Queued' \/ Prepares(x)
                 PROVE  Chain(x) \cap Collections \subseteq weaver'
    BY <1>1 DEF WeaverInv, Prepares
  <2>2. Chain(x) \cap Collections \subseteq weaver
    BY <2>1 DEF WeaverInv, Prepares
  <2>3. ASSUME NEW k \in R PROVE Chain(x) \cap Chain(k) = {}
    <3>1. x # k
      BY <2>1 DEF QueueInv, Prepares
    <3> QED BY <2>1, <3>1, ChainsApart
  <2> QED BY <2>2, <2>3
<1> QED BY <1>2, <1>3, <1>4, <1>5, <1>6, <1>7, <1>8, <1>9, <1>10, <1>11

LEMMA DequeueSteps ==
  ASSUME IInv, TypeOK', DequeueAll \/ \E j \in Jobs : Dequeue(j)
  PROVE  IInv'
<1> USE DEF queueVars, doneVars
<1>1. CASE DequeueAll
  <2>1. /\ m_assignments' = <<>>
        /\ weaver' = weaver \ UNION {Chain(k) : k \in Queued}
        /\ UNCHANGED <<m_mutex, pc, job, next, events, jobCounter, finished,
                       runnersDone, done>>
    BY <1>1 DEF DequeueAll, Chain
  <2>2. Queued' = {} /\ IsInjective(m_assignments')
    BY <2>1 DEF Queued, ToSet, IsInjective
  <2> QED BY <2>1, <2>2, LeaveQueue
<1>2. ASSUME NEW j \in Jobs, Dequeue(j) PROVE IInv'
  <2>1. /\ j \in Queued /\ m_assignments' = RemoveFirst(m_assignments, j)
        /\ weaver' = weaver \ Chain(j)
        /\ UNCHANGED <<m_mutex, pc, job, next, events, jobCounter, finished,
                       runnersDone, done>>
    BY <1>2 DEF Dequeue, dequeue, Chain
  <2>2. Queued' = Queued \ {j} /\ IsInjective(m_assignments')
    BY <2>1, RemoveFirstSet DEF IInv, QueueInv, TypeOK, Queued
  <2>3. UNION {Chain(k) : k \in {j}} = Chain(j)
    OBVIOUS
  <2> QED BY <2>1, <2>2, <2>3, LeaveQueue
<1> QED BY <1>1, <1>2

LEMMA JobRunnerDoneStep ==
  ASSUME IInv, TypeOK', JobRunnerDone
  PROVE  IInv'
<1> USE DEF IInv, queueVars, doneVars
<1>1. PICK j, c : j = Head(events) /\ c = Parent(j)
  OBVIOUS
<1>2. /\ events # <<>> /\ events' = Tail(events) /\ ~Locked(c)
      /\ UNCHANGED <<m_assignments, m_mutex, pc, job, next, runnersDone>>
  BY <1>1 DEF JobRunnerDone
<1>3. /\ events \in Seq(Jobs) /\ jobCounter \in [Collections -> Nat]
      /\ NoJob \notin Jobs /\ Queued \subseteq Jobs
  BY CollectionConstants DEF TypeOK, Queued, ToSet
<1>4. /\ j \in ToSet(events) /\ ToSet(events') = ToSet(events) \ {j}
      /\ IsInjective(events')
  BY <1>1, <1>2, <1>3, TailSet DEF EventInv
<1>5. j \in runnersDone /\ c # NoJob
  BY <1>1, <1>4 DEF EventInv
<1>6. c \in Collections /\ c \in Jobs /\ j \in Elements(c) /\ j \in Jobs
  BY <1>1, <1>5, ParentTypes
<1>7. jobCounter[c] > 0 /\ jobCounter[c] \in Nat
  BY <1>1, <1>3, <1>4, <1>5, <1>6 DEF CountedInv, Pending
<1>8. Begun(c) /\ c \in weaver /\ c \notin finished
      /\ jobCounter[c] = Cardinality(Open(c))
  BY <1>6, <1>7 DEF Begun, CountInv
<1>9. \/ /\ jobCounter[c] > 1
         /\ jobCounter' = [jobCounter EXCEPT ![c] = jobCounter[c] - 1]
         /\ weaver' = weaver /\ finished' = finished /\ done' = done
      \/ /\ jobCounter[c] = 1
         /\ jobCounter' = [jobCounter EXCEPT ![c] = 0]
         /\ finished' = finished \cup {c}
         /\ weaver' = weaver \ {c} /\ done' = done \cup {c}
  <2>1. jobCounter[c] # 0
    BY <1>7
  <2> QED BY <1>1, <2>1 DEF JobRunnerDone
<1>10. /\ \A d \in Collections : d # c => jobCounter'[d] = jobCounter[d]
       /\ jobCounter'[c] = jobCounter[c] - 1
       /\ jobCounter[c] # 1 => weaver' = weaver /\ finished' = finished
       /\ \A d \in weaver : d # c => d \in weaver'
  BY <1>3, <1>6, <1>9
<1>11. /\ finished \subseteq finished'
       /\ finished' \subseteq finished \cup {c}
       /\ jobCounter[c] = 1 => c \in finished'
  BY <1>9
<1>12. \A y : Begun(y)' <=> Begun(y)
  <2>1. Begun(c)'
    BY <1>6, <1>7, <1>10, <1>11 DEF Begun
  <2>2. \A y : y # c => (Begun(y)' <=> Begun(y))
    BY <1>10, <1>11 DEF Begun
  <2> QED BY <1>8, <2>1, <2>2
<1>13. /\ Queued' = Queued
       /\ \A u \in Threads, y \in Jobs : Holds(u, y)' <=> Holds(u, y)
  BY <1>2 DEF Queued, Holds
<1>14. \A d \in Collections : d # c => Open(d)' = Open(d)
  <2>1. \A d \in Collections : d # c => j \notin Elements(d)
    BY <1>1, ParentIs
  <2> QED BY <1>2, <1>4, <2>1 DEF Open
<1>15. /\ j \in Open(c) /\ Open(c)' = Open(c) \ {j}
       /\ IsFiniteSet(Open(c))
  <2>1. Open(c) \subseteq Elements(c)
    BY DEF Open
  <2>2. IsFiniteSet(Open(c))
    BY <1>6, <2>1, ElementsCounted, FS_Subset
  <2> QED BY <1>2, <1>4, <1>5, <1>6, <2>2 DEF Open
<1>16. Cardinality(Open(c)') = Cardinality(Open(c)) - 1
  BY <1>15, FS_RemoveElement
\* The holder of c is not queueing its elements.
<1>17. \A t \in Threads : pc[t] = "queueing" => job[t] # c /\ jobCounter'[job[t]] > 0
  <2>1. SUFFICES ASSUME NEW t \in Threads, pc[t] = "queueing"
                 PROVE  job[t] # c /\ jobCounter'[job[t]] > 0
    OBVIOUS
  <2>2. job[t] # c
    BY <1>2, <2>1 DEF Locked
  <2>3. ~Plain(job[t]) /\ jobCounter[job[t]] > 0
    BY <2>1 DEF PlaceInv, Place
  <2>4. job[t] \in Collections
    BY <2>3, FirstIsElement
  <2> QED BY <1>10, <2>2, <2>3, <2>4
<1>18. PlaceInv'
  BY <1>2, <1>12, <1>17, PlacesStay
<1>19. HolderInv'
  BY <1>2 DEF HolderInv
<1>20. QueueInv'
  BY <1>2, <1>3, <1>12, <1>13 DEF QueueInv
<1>21. RunnerInv'
  BY <1>2, <1>12 DEF RunnerInv
<1>22. IdleInv'
  <2>1. \A d, m : Ahead(d, m)' => Ahead(d, m)
    BY <1>2, <1>12 DEF Ahead
  <2>2. \A y \in Jobs : Idle(y) => Idle(y)'
    BY <1>2, <1>12, <1>13 DEF Idle
  <2> QED BY <2>1, <2>2, ElementTypes DEF IdleInv
<1>23. CountInv'
  <2>1. SUFFICES ASSUME NEW d \in Collections, jobCounter'[d] > 0
                 PROVE  /\ ~Empty(d) /\ d \notin finished' /\ d \in weaver'
                        /\ jobCounter'[d] = Cardinality(Open(d)')
    BY DEF CountInv
  <2>2. CASE d = c
    <3>1. jobCounter[c] # 1
      BY <1>7, <1>10, <2>1, <2>2
    <3> QED BY <1>6, <1>7, <1>8, <1>10, <1>16, <2>2, <3>1 DEF CountInv
  <2>3. CASE d # c
    <3>1. jobCounter[d] > 0
      BY <1>10, <2>1, <2>3
    <3> QED BY <1>10, <1>11, <1>14, <2>3, <3>1 DEF CountInv
  <2> QED BY <2>2, <2>3
<1>24. EventInv'
  BY <1>2, <1>4 DEF EventInv
<1>25. CountedInv'
  <2>1. SUFFICES ASSUME NEW y \in Jobs, Parent(y) # NoJob, Pending(y)'
                 PROVE  jobCounter'[Parent(y)] > 0
    BY DEF CountedInv
  <2>2. Pending(y)
    BY <1>2, <1>4, <1>13, <2>1 DEF Pending
  <2>3. jobCounter[Parent(y)] > 0 /\ Parent(y) \in Collections /\ y \in Elements(Parent(y))
    BY <2>1, <2>2, ParentTypes DEF CountedInv
  <2>4. CASE Parent(y) # c
    BY <1>10, <2>3, <2>4
  <2>5. CASE Parent(y) = c
    <3>1. y \in Queued \/ (\E t \in Threads : job[t] \in Chain(y)) => y \notin runnersDone
      BY <2>1 DEF QueueInv, RunnerInv, ChainInv
    <3>2. y # j
      BY <1>2, <1>4, <1>5, <1>13, <2>1, <3>1 DEF Pending
    <3>3. y \in Open(c)
      BY <2>2, <2>3, <2>5, <3>1 DEF Open, Pending
    <3>4. jobCounter[c] # 1
      <4>1. SUFFICES ASSUME Cardinality(Open(c)) = 1 PROVE FALSE
        BY <1>8
      <4>2. \E x : Open(c) = {x}
        BY <1>15, <4>1, FS_Singleton
      <4> QED BY <1>15, <3>2, <3>3, <4>2
    <3> QED BY <1>7, <1>10, <2>5, <3>4
  <2> QED BY <2>4, <2>5
<1>26. ChainInv'
  BY <1>2 DEF ChainInv
<1>27. WeaverInv'
  <2>1. SUFFICES ASSUME NEW x \in Jobs, x \in Queued \/ Prepares(x)
                 PROVE  Chain(x) \cap Collections \subseteq weaver'
    BY <1>2, <1>13 DEF WeaverInv, Prepares
  <2>2. Chain(x) \cap Collections \subseteq weaver
    BY <2>1 DEF WeaverInv, Prepares
  <2>3. c \notin Chain(x)
    <3>1. SUFFICES ASSUME c \in Chain(x) PROVE FALSE
      OBVIOUS
    <3>2. \E t \in Threads : Holds(t, c) /\ pc[t] = "queueing"
      BY <1>6, <1>8, <2>1, <3>1, BegunApart
    <3> QED BY <1>17, <3>2 DEF Holds
  <2> QED BY <1>10, <2>2, <2>3
<1>28. done' \subseteq finished'
  BY <1>9
<1> QED BY <1>18, <1>19, <1>20, <1>21, <1>22, <1>23, <1>24, <1>25, <1>26, <1>27, <1>28

LEMMA DeleteStep ==
  ASSUME IInv, TypeOK', NEW c \in Jobs, Delete(c)
  PROVE  IInv'
<1> USE DEF IInv, queueVars, doneVars
<1>1. /\ c \in Collections
      /\ events' = Without(events, Elements(c)) /\ weaver' = weaver \ {c}
      /\ UNCHANGED <<m_mutex, pc, job, next, runnersDone, done>>
  BY DEF Delete
<1>2. /\ events \in Seq(Jobs) /\ m_assignments \in Seq(Jobs)
      /\ jobCounter \in [Collections -> Nat] /\ finished \subseteq Jobs
      /\ NoJob \notin Jobs /\ Queued \subseteq Jobs
  BY CollectionConstants DEF TypeOK, Queued, ToSet
<1>3. /\ ToSet(events') = ToSet(events) \ Elements(c)
      /\ IsInjective(events')
  BY <1>1, <1>2, WithoutSet DEF EventInv
<1>4. \/ /\ c \in weaver /\ m_assignments' = Without(m_assignments, Elements(c))
         /\ jobCounter' = [jobCounter EXCEPT ![c] = 0]
         /\ finished' = finished \cup (IF jobCounter[c] # 0 THEN {c} ELSE {})
      \/ /\ c \notin weaver /\ m_assignments' = m_assignments
         /\ jobCounter' = jobCounter /\ finished' = finished
  BY DEF Delete
<1>5. /\ Queued' \subseteq Queued /\ IsInjective(m_assignments')
      /\ c \in weaver => Queued' \cap Elements(c) = {}
  <2>1. CASE m_assignments' = m_assignments /\ c \notin weaver
    BY <2>1 DEF Queued, QueueInv
  <2>2. CASE m_assignments' = Without(m_assignments, Elements(c))
    BY <1>2, <2>2, WithoutSet DEF Queued, QueueInv
  <2> QED BY <1>4, <2>1, <2>2
<1>6. c \notin weaver => jobCounter[c] = 0
  BY <1>1, <1>2 DEF CountInv
<1>7. /\ jobCounter'[c] = 0
      /\ \A d \in Collections : d # c => jobCounter'[d] = jobCounter[d]
  BY <1>1, <1>2, <1>4, <1>6
<1>8. finished \subseteq finished' /\ finished' \subseteq finished \cup {c}
  BY <1>4
<1>9. \A y : Begun(y)' <=> Begun(y)
  <2>1. Begun(c)' <=> Begun(c)
    <3>1. c \in finished' <=> c \in finished \/ jobCounter[c] > 0
      BY <1>1, <1>2, <1>4, <1>6
    <3> QED BY <1>1, <1>7, <3>1 DEF Begun
  <2>2. \A y : y # c => (Begun(y)' <=> Begun(y))
    BY <1>7, <1>8 DEF Begun
  <2> QED BY <2>1, <2>2
\* It is done and counts nothing, or nobody has anything to do.
<1>10. \/ c \in finished /\ jobCounter[c] = 0
       \/ Queued = {} /\ \A t \in Threads : job[t] = NoJob
  <2>1. CASE c \in done
    BY <1>1, <1>2, <2>1 DEF CountInv
  <2>2. CASE m_assignments = <<>> /\ \A t \in Threads : job[t] = NoJob
    BY <2>2 DEF Queued, ToSet
  <2> QED BY <2>1, <2>2 DEF Delete
<1>11. /\ \A u \in Threads, y \in Jobs : Holds(u, y)' <=> Holds(u, y)
       /\ \A d \in Collections : d # c => Open(d)' = Open(d)
  <2>1. \A d \in Collections : d # c => Elements(d) \cap Elements(c) = {}
    <3>1. SUFFICES ASSUME NEW d \in Collections, NEW y \in Elements(d), y \in Elements(c)
                   PROVE  d = c
      OBVIOUS
    <3> QED BY <1>1, <3>1, ParentIs
  <2> QED BY <1>1, <1>3, <2>1 DEF Open, Holds
<1>12. \A t \in Threads : pc[t] = "queueing" => job[t] # c /\ jobCounter'[job[t]] > 0
  <2>1. SUFFICES ASSUME NEW t \in Threads, pc[t] = "queueing"
                 PROVE  job[t] # c /\ jobCounter'[job[t]] > 0
    OBVIOUS
  <2>2. job[t] # NoJob /\ ~Plain(job[t]) /\ jobCounter[job[t]] > 0
    BY <2>1 DEF PlaceInv, Place
  <2>3. job[t] \in Collections
    BY <2>2, FirstIsElement
  <2>4. job[t] # c
    <3>1. SUFFICES ASSUME job[t] = c PROVE FALSE
      OBVIOUS
    <3>2. jobCounter[c] > 0
      BY <2>2, <3>1
    <3> QED BY <1>10, <2>2, <3>2
  <2> QED BY <1>7, <2>2, <2>3, <2>4
<1>13. PlaceInv'
  BY <1>1, <1>9, <1>12, PlacesStay
<1>14. HolderInv'
  BY <1>1 DEF HolderInv
<1>15. QueueInv'
  BY <1>2, <1>5, <1>9, <1>11 DEF QueueInv
<1>16. RunnerInv'
  BY <1>1, <1>9 DEF RunnerInv
<1>17. IdleInv'
  <2>1. \A d, m : Ahead(d, m)' => Ahead(d, m)
    BY <1>1, <1>9 DEF Ahead
  <2>2. \A y \in Jobs : Idle(y) => Idle(y)'
    BY <1>1, <1>5, <1>9, <1>11 DEF Idle
  <2> QED BY <2>1, <2>2, ElementTypes DEF IdleInv
<1>18. CountInv'
  <2>1. SUFFICES ASSUME NEW d \in Collections, jobCounter'[d] > 0
                 PROVE  /\ ~Empty(d) /\ d \notin finished' /\ d \in weaver'
                        /\ jobCounter'[d] = Cardinality(Open(d)')
    BY DEF CountInv
  <2>2. d # c /\ jobCounter[d] > 0
    BY <1>7, <2>1
  <2> QED BY <1>1, <1>7, <1>8, <1>11, <2>2 DEF CountInv
<1>19. EventInv'
  BY <1>1, <1>3 DEF EventInv
<1>20. CountedInv'
  <2>1. SUFFICES ASSUME NEW y \in Jobs, Parent(y) # NoJob, Pending(y)'
                 PROVE  jobCounter'[Parent(y)] > 0
    BY DEF CountedInv
  <2>2. Pending(y)
    BY <1>1, <1>3, <1>5, <2>1 DEF Pending
  <2>3. jobCounter[Parent(y)] > 0 /\ Parent(y) \in Collections /\ y \in Elements(Parent(y))
    BY <2>1, <2>2, ParentTypes DEF CountedInv
  <2>4. CASE Parent(y) # c
    BY <1>7, <2>3, <2>4
  <2>5. CASE Parent(y) = c
    <3>1. \A t \in Threads : job[t] = NoJob
      <4>1. jobCounter[c] # 0
        BY <2>3, <2>5
      <4> QED BY <1>10, <4>1
    <3>2. \A t \in Threads : job'[t] \notin Chain(y)
      BY <1>1, <1>2, <3>1, ChainIs
    <3>3. c \in weaver /\ y \in Elements(c)
      BY <1>6, <2>3, <2>5
    <3> QED BY <1>3, <1>5, <2>1, <3>2, <3>3 DEF Pending
  <2> QED BY <2>4, <2>5
<1>21. ChainInv'
  BY <1>1 DEF ChainInv
<1>22. WeaverInv'
  <2>1. SUFFICES ASSUME NEW x \in Jobs, x \in Queued' \/ Prepares(x)
                 PROVE  Chain(x) \cap Collections \subseteq weaver'
    BY <1>1, <1>11 DEF WeaverInv, Prepares
  <2>2. x \in Queued \/ Prepares(x)
    BY <1>5, <2>1
  <2>3. Chain(x) \cap Collections \subseteq weaver
    BY <2>2 DEF WeaverInv, Prepares
  <2>4. c \notin Chain(x)
    <3>1. SUFFICES ASSUME c \in Chain(x) PROVE FALSE
      OBVIOUS
    <3>2. c \in finished
      BY <1>2, <1>10, <2>2 DEF Prepares, Holds
    <3>3. Begun(c)
      BY <3>2 DEF Begun
    <3>4. \E t \in Threads : Holds(t, c) /\ pc[t] = "queueing"
      BY <2>2, <3>1, <3>3, BegunApart
    <3> QED BY <1>12, <3>4 DEF Holds
  <2> QED BY <1>1, <2>3, <2>4
<1>23. done' \subseteq finished'
  BY <1>1, <1>8
<1> QED BY <1>13, <1>14, <1>15, <1>16, <1>17, <1>18, <1>19, <1>20, <1>21, <1>22, <1>23

LEMMA InitInv ==
  Init => IInv
<1> SUFFICES ASSUME Init PROVE IInv
  OBVIOUS
<1> USE DEF Init
<1>0. /\ NoJob \notin Jobs /\ NoThread \notin Threads /\ Collections \subseteq Jobs
      /\ ToSet(<<>>) = {} /\ IsInjective(<<>>)
  BY CollectionConstants DEF ToSet, IsInjective
<1>1. TypeOK
  <2>1. PolicyTypeOK
    BY DependenciesAssigned, CapsAreNumbers DEF PolicyInit, PolicyTypeOK
  <2> QED BY <2>1 DEF TypeOK, Busy
<1>2. /\ Queued = {} /\ \A x : ~Begun(x)
      /\ \A t \in Threads, x \in Jobs : ~Holds(t, x) /\ job[t] \notin Chain(x)
  <2>1. \A x \in Jobs : NoJob \notin Chain(x)
    BY <1>0, ChainIs
  <2> QED BY <1>0, <2>1 DEF Queued, Begun, Holds
<1>3. PlaceInv
  BY <1>0 DEF PlaceInv, Place
<1>4. HolderInv /\ QueueInv /\ RunnerInv
  BY <1>0, <1>2 DEF HolderInv, QueueInv, RunnerInv
<1>5. IdleInv
  BY <1>2, ElementTypes DEF IdleInv, Idle
<1>6. CountInv /\ EventInv
  BY <1>0 DEF CountInv, EventInv
<1>7. CountedInv /\ ChainInv /\ WeaverInv
  BY <1>0, <1>2 DEF CountedInv, Pending, ChainInv, WeaverInv
<1> QED BY <1>1, <1>3, <1>4, <1>5, <1>6, <1>7 DEF IInv

LEMMA NextTypes ==
  ASSUME IInv, [Next]_vars
  PROVE  TypeOK'
<1>1. CASE \E t \in Threads : Worker(t)
  BY <1>1, WorkerTypes DEF IInv
<1>2. CASE FinishReturn \/ JobRunnerDone \/ MainCall
  BY <1>2, MainTypes DEF IInv
<1>3. CASE UNCHANGED vars
  BY <1>3 DEF IInv, TypeOK, PolicyTypeOK, vars, queueVars, doneVars, policyVars, Busy
<1> QED BY <1>1, <1>2, <1>3 DEF Next

LEMMA NextInv ==
  IInv /\ [Next]_vars => IInv'
<1> SUFFICES ASSUME IInv, [Next]_vars PROVE IInv'
  OBVIOUS
<1>0. TypeOK'
  BY NextTypes
<1>1. ASSUME NEW t \in Threads, Worker(t) PROVE IInv'
  BY <1>0, <1>1, ScanSteps, TakeJobStep, RunJobStep, StartCollectionStep,
     QueueElementStep, ExecuteFirstStep, RunnerDoneStep DEF Worker
<1>2. CASE UNCHANGED vars \/ FinishReturn \/ Finish
  <2>1. UNCHANGED <<m_assignments, m_mutex, pc, job, next, events, weaver,
                    jobCounter, finished, done, runnersDone>>
    BY <1>2 DEF vars, FinishReturn, Finish, queueVars, doneVars
  <2>2. \A x : Begun(x)' <=> Begun(x)
    BY <2>1 DEF Begun
  <2>3. PlaceInv'
    BY <2>1, <2>2, PlacesStay DEF IInv, PlaceInv, Place
  <2>4. done' \subseteq finished
    BY <2>1 DEF IInv
  <2> QED BY <1>0, <2>1, <2>3, <2>4, QuietStep
<1>3. CASE JobRunnerDone
  BY <1>0, <1>3, JobRunnerDoneStep
<1>4. CASE MainCall
  BY <1>0, <1>2, <1>4, EnqueueStep, DequeueSteps, DeleteStep DEF MainCall
<1> QED BY <1>1, <1>2, <1>3, <1>4 DEF Next

-----------------------------------------------------------------------------
(* What always holds                                                       *)

THEOREM Invariance == Spec => []IInv
BY InitInv, NextInv, PTL DEF Spec

\* The queue holds jobs, the events in the main thread's loop are done()
\* signals of runners, the counters of the collections never fall below zero
\* and a job succeeds only when it is finished.
THEOREM Typing == Spec => []TypeOK
<1>1. IInv => TypeOK
  BY DEF IInv
<1> QED BY Invariance, <1>1, PTL

\* An element is queued once or executed by one thread, not both, never
\* again after its execution, and only while its collection still counts it:
\* execute() of a collection, the threads that take its elements, the event
\* loop that ends it and the destructor never get into each other's way.
THEOREM ElementsAreExclusive == Spec => []ElementsExclusive
<1>1. IInv => ElementsExclusive
  <2> SUFFICES ASSUME IInv PROVE ElementsExclusive
    OBVIOUS
  <2> USE DEF IInv
  <2>1. Queued \subseteq Jobs
    BY DEF TypeOK, Queued, ToSet
  <2>2. Queued \cap finished = {}
    BY DEF QueueInv, Begun
  <2>3. \A t \in Threads : job[t] \notin Queued
    BY DEF QueueInv, Holds
  <2>4. ASSUME NEW j \in Queued \ TopLevel
        PROVE  Parent(j) \in weaver /\ jobCounter[Parent(j)] > 0
    <3>1. j \in Jobs /\ Parent(j) # NoJob
      BY <2>1, <2>4 DEF TopLevel
    <3>2. jobCounter[Parent(j)] > 0 /\ Parent(j) \in Collections
      BY <2>4, <3>1, ParentTypes DEF CountedInv, Pending
    <3> QED BY <3>2 DEF CountInv
  <2> QED BY <2>2, <2>3, <2>4 DEF ElementsExclusive, QueueInv, HolderInv
<1> QED BY Invariance, <1>1, PTL

\* m_jobCounter, set by the thread that executes the collection and
\* decremented by jobRunnerDone in the main thread, is at any time the number
\* of elements whose runner has not ended or whose done() is not delivered.
THEOREM CountersAreExact == Spec => []CounterExact
<1>1. IInv => CounterExact
  <2> SUFFICES ASSUME IInv, NEW c \in Collections, jobCounter[c] # 0
               PROVE  jobCounter[c] = Cardinality(Open(c))
    BY DEF CounterExact, Open
  <2>1. jobCounter[c] > 0
    BY DEF IInv, TypeOK
  <2> QED BY <2>1 DEF IInv, CountInv
<1> QED BY Invariance, <1>1, PTL

-----------------------------------------------------------------------------
(* The order of a sequence, and what a collection waits for                 *)

\* The dependency aboutToBeQueued gives element n of s.
Preceded(s, n) == <<elements[s][n], elements[s][n - 1]>> \in dependencies

Over(j) == j \in finished /\ Success(j)

\* A sequence that has been told of the weaver has its dependencies, but for
\* those that are resolved.
ToldInv ==
  \A s \in Sequences : \A n \in 2..Len(elements[s]) :
    s \in weaver \/ Begun(s) => Preceded(s, n) \/ Over(elements[s][n - 1])

\* The job that is about to be taken has no dependencies left: the mutex is
\* held since it was asked, and nobody adds one without it.
AgreedInv ==
  m_mutex # NoThread /\ agreed /\ index <= Len(m_assignments)
    /\ level > Len(Asked[Scanned])
    /\ DependencyPolicy \in ToSet(queuePolicies[Scanned])
  => ~hasUnresolvedDependencies(Scanned)

OrderInv ==
  \A s \in Sequences : \A n \in 2..Len(elements[s]) :
    Begun(elements[s][n]) \/ (\E t \in Threads : Holds(t, elements[s][n]))
      => Over(elements[s][n - 1])

LastInv == \A c \in done : Elements(c) \subseteq runnersDone

SeqInv == IInv /\ ToldInv /\ AgreedInv /\ OrderInv /\ LastInv

\* How a job comes to have begun, and into the hands of a thread.
LEMMA BeginFacts ==
  ASSUME IInv, [Next]_vars
  PROVE  /\ finished \subseteq finished' /\ succeeded \subseteq succeeded'
         /\ runnersDone \subseteq runnersDone'
         /\ \A x \in Jobs : Begun(x)' =>
              Begun(x) \/ \E t \in Threads : Holds(t, x) /\ pc[t] = "execute"
<1> USE DEF IInv, doneVars, queueVars, At
<1>0. /\ jobCounter \in [Collections -> Nat] /\ succeeded \subseteq finished
      /\ NoJob \notin Jobs
  BY CollectionConstants DEF TypeOK
<1>1. ASSUME NEW t \in Threads, RunJob(t) \/ StartCollection(t)
      PROVE  /\ finished \subseteq finished' /\ succeeded \subseteq succeeded'
             /\ runnersDone \subseteq runnersDone'
             /\ \A x \in Jobs : Begun(x)' =>
                  Begun(x) \/ \E u \in Threads : Holds(u, x) /\ pc[u] = "execute"
  <2>1. pc[t] = "execute" /\ Holds(t, job[t])
    BY <1>1 DEF RunJob, StartCollection, Holds
  <2>2. \A x \in Jobs : x # job[t] /\ Begun(x)' => Begun(x)
    BY <1>0, <1>1 DEF RunJob, StartCollection, Begun
  <2>3. /\ finished \subseteq finished' /\ succeeded \subseteq succeeded'
        /\ runnersDone \subseteq runnersDone'
    BY <1>1 DEF RunJob, StartCollection
  <2> QED BY <2>1, <2>2, <2>3
<1>2. CASE JobRunnerDone
  <2>1. PICK c : c = Parent(Head(events))
    OBVIOUS
  <2>2. /\ \/ finished' = finished
           \/ jobCounter[c] = 1 /\ finished' = finished \cup {c}
        /\ \/ jobCounter' = jobCounter
           \/ jobCounter[c] > 1 /\ jobCounter' = [jobCounter EXCEPT ![c] = jobCounter[c] - 1]
           \/ jobCounter' = [jobCounter EXCEPT ![c] = 0]
        /\ succeeded' = succeeded /\ runnersDone' = runnersDone
    BY <1>2, <2>1 DEF JobRunnerDone
  <2>3. c \in Collections
    <3>1. Head(events) \in ToSet(events)
      BY <1>2, TailSet DEF JobRunnerDone, TypeOK
    <3> QED BY <2>1, <3>1, ParentTypes DEF EventInv
  <2>4. \A x \in Collections : jobCounter'[x] > 0 => jobCounter[x] > 0
    BY <1>0, <2>2, <2>3
  <2>5. \A x \in Jobs : x \in finished' => Begun(x)
    BY <2>2, <2>3 DEF Begun
  <2> QED BY <2>2, <2>4, <2>5 DEF Begun
<1>3. ASSUME NEW c \in Jobs, Delete(c)
      PROVE  /\ finished \subseteq finished' /\ succeeded \subseteq succeeded'
             /\ runnersDone \subseteq runnersDone'
             /\ \A x \in Jobs : Begun(x)' => Begun(x)
  <2>1. /\ finished' = finished
           \/ finished' = finished \cup (IF jobCounter[c] # 0 THEN {c} ELSE {})
        /\ jobCounter' = jobCounter \/ jobCounter' = [jobCounter EXCEPT ![c] = 0]
        /\ succeeded' = succeeded /\ runnersDone' = runnersDone /\ c \in Collections
    BY <1>3 DEF Delete
  <2>2. \A x \in Collections : jobCounter'[x] > 0 => jobCounter[x] > 0
    BY <1>0, <2>1
  <2>3. \A x \in Jobs : x \in finished' => Begun(x)
    BY <1>0, <2>1 DEF Begun
  <2> QED BY <2>1, <2>2, <2>3 DEF Begun
<1>4. CASE UNCHANGED <<finished, succeeded, jobCounter>> /\ runnersDone \subseteq runnersDone'
  BY <1>4 DEF Begun
<1>5. ASSUME NEW t \in Threads, Worker(t), ~RunJob(t), ~StartCollection(t)
      PROVE  /\ UNCHANGED <<finished, succeeded, jobCounter>>
             /\ runnersDone \subseteq runnersDone'
  BY <1>5 DEF Worker, LockQueue, AskNext, TakeJob, SkipJob, NothingAvailable,
     IncActive, FreeJob, QueueElement, ExecuteFirst, Returned, StopSequence, RunnerDone
<1>6. CASE MainCall /\ ~(\E j \in Jobs : Delete(j))
  BY <1>4, <1>6 DEF MainCall, Enqueue, Dequeue, DequeueAll, Finish
<1>7. CASE FinishReturn \/ UNCHANGED vars
  BY <1>4, <1>7 DEF FinishReturn, vars
<1> QED BY <1>1, <1>2, <1>3, <1>4, <1>5, <1>6, <1>7, Zenon DEF Next, MainCall

LEMMA HoldFacts ==
  ASSUME IInv, [Next]_vars, NEW t \in Threads, NEW x \in Jobs, Holds(t, x)'
  PROVE  \/ Holds(t, x) \/ Begun(x)
         \/ TakeJob(t) /\ x = Scanned
         \/ \E c : ~Plain(c) /\ x = First(c)
<1> USE DEF IInv, doneVars, queueVars, At
<1>0. job \in [Threads -> Jobs \cup {NoJob}] /\ NoJob \notin Jobs
  BY CollectionConstants DEF TypeOK
<1>1. CASE \A u \in Threads : job'[u] = job[u] \/ job'[u] = NoJob
  BY <1>0, <1>1 DEF Holds
<1>2. ASSUME NEW u \in Threads, TakeJob(u)
      PROVE  Holds(t, x) \/ (TakeJob(t) /\ x = Scanned)
  BY <1>0, <1>2 DEF TakeJob, Holds
<1>3. ASSUME NEW u \in Threads, ExecuteFirst(u)
      PROVE  Holds(t, x) \/ \E c : ~Plain(c) /\ x = First(c)
  <2>1. ~Plain(job[u])
    BY <1>3 DEF ExecuteFirst, PlaceInv, Place
  <2> QED BY <1>0, <1>3, <2>1 DEF ExecuteFirst, Holds, First
<1>4. ASSUME NEW u \in Threads, RunnerDone(u) PROVE Holds(t, x) \/ Begun(x)
  <2>1. PICK j, c : j = job[u] /\ c = Parent(j)
    OBVIOUS
  <2>2. j \in Jobs /\ c # NoJob
    BY <1>0, <1>4, <2>1 DEF RunnerDone, PlaceInv, Place
  <2>3. j \in Chain(j) /\ c \in Collections
    BY <2>1, <2>2, ChainIs, ParentTypes
  <2>4. Begun(c)
    BY <2>1, <2>2, <2>3 DEF CountedInv, Pending, Begun
  <2>5. job' = [job EXCEPT ![u] = IF j = elements[c][1] THEN c ELSE NoJob]
    BY <1>4, <2>1 DEF RunnerDone
  <2> QED BY <1>0, <2>4, <2>5 DEF Holds
<1>5. ASSUME NEW u \in Threads, Worker(u),
             ~TakeJob(u), ~ExecuteFirst(u), ~RunnerDone(u)
      PROVE  \A y \in Threads : job'[y] = job[y] \/ job'[y] = NoJob
  BY <1>0, <1>5 DEF Worker, LockQueue, AskNext, SkipJob, NothingAvailable,
     IncActive, RunJob, FreeJob, StartCollection, QueueElement, Returned, StopSequence
<1>6. CASE FinishReturn \/ JobRunnerDone \/ MainCall \/ UNCHANGED vars
  BY <1>1, <1>6 DEF FinishReturn, JobRunnerDone, MainCall, Enqueue, Dequeue, Delete,
     DequeueAll, Finish, vars
<1> QED BY <1>1, <1>2, <1>3, <1>4, <1>5, <1>6, Zenon DEF Next

LEMMA FreeDependencies ==
  ASSUME NEW j, NEW success, freeQueuePolicyResources(j, success)
  PROVE  /\ dependencies' \subseteq dependencies
         /\ \A d \in dependencies : d \in dependencies' \/ (success /\ d[2] = j)
BY DEF freeQueuePolicyResources, resolveDependencies

\* Who adds and who resolves dependencies.
LEMMA DependencyFacts ==
  ASSUME IInv, [Next]_vars
  PROVE  /\ \A s \in Sequences : s \in weaver' =>
              s \in weaver \/ SequenceDependencies(s) \subseteq dependencies'
         /\ \A d \in dependencies :
              \/ d \in dependencies' \/ Parent(d[2]) = NoJob
              \/ d[2] \in finished' /\ (d[2] \in Collections \/ d[2] \in succeeded')
<1> USE DEF IInv, doneVars, queueVars, policyVars, At
<1>1. CASE weaver' \subseteq weaver /\ UNCHANGED policyVars
  BY <1>1
<1>2. ASSUME NEW j \in Jobs, enqueue(j)
      PROVE  /\ dependencies \subseteq dependencies'
             /\ \A s \in Sequences : s \in weaver' =>
                  s \in weaver \/ SequenceDependencies(s) \subseteq dependencies'
  BY <1>2 DEF enqueue
<1>3. ASSUME NEW t \in Threads, QueueElement(t)
      PROVE  \E j \in Jobs : enqueue(j)
  <2>1. job[t] # NoJob /\ ~Plain(job[t]) /\ next[t] \in Nat \ {0}
    BY <1>3 DEF QueueElement, PlaceInv, Place, TypeOK
  <2>2. elements[job[t]] \in Seq(Jobs) /\ next[t] <= Len(elements[job[t]])
    BY <1>3, <2>1, FirstIsElement DEF QueueElement
  <2>3. PICK j \in Jobs : j = elements[job[t]][next[t]]
    BY <2>1, <2>2
  <2>4. enqueue(j)
    BY <1>3, <2>3 DEF QueueElement, enqueue
  <2> QED BY <2>4
<1>4. ASSUME NEW t \in Threads, FreeJob(t)
      PROVE  /\ weaver' = weaver
             /\ \A d \in dependencies :
                  d \in dependencies' \/ (d[2] \in finished' /\ d[2] \in succeeded')
  <2>1. PICK j : j = job[t]
    OBVIOUS
  <2>2. PICK success : success = (j \in succeeded)
    OBVIOUS
  <2>3. freeQueuePolicyResources(j, success)
    BY <1>4, <2>1, <2>2 DEF FreeJob, freeQueuePolicyResources
  <2>4. UNCHANGED <<weaver, finished, succeeded>> /\ succeeded \subseteq finished
    BY <1>4 DEF FreeJob, TypeOK
  <2>5. \A d \in dependencies : d \in dependencies' \/ (success /\ d[2] = j)
    BY <2>3, FreeDependencies
  <2>6. success => j \in finished' /\ j \in succeeded'
    BY <2>2, <2>4
  <2> QED BY <2>4, <2>5, <2>6
<1>5. CASE JobRunnerDone
  <2>1. PICK c : c = Parent(Head(events))
    OBVIOUS
  <2>2. Head(events) \in ToSet(events)
    BY <1>5, TailSet DEF JobRunnerDone, TypeOK
  <2>3. c \in Collections
    BY <2>1, <2>2, ParentTypes DEF EventInv
  <2>4. /\ weaver' = weaver \/ weaver' = weaver \ {c}
        /\ \/ UNCHANGED policyVars
           \/ freeQueuePolicyResources(c, TRUE) /\ c \in finished'
    BY <1>5, <2>1 DEF JobRunnerDone
  <2>5. \A d \in dependencies : d \in dependencies' \/ (d[2] = c /\ c \in finished')
    BY <2>4, FreeDependencies
  <2> QED BY <2>3, <2>4, <2>5
<1>6. ASSUME NEW c \in Jobs, Delete(c)
      PROVE  /\ weaver' \subseteq weaver
             /\ \A d \in dependencies : d \in dependencies' \/ Parent(d[2]) = NoJob
  <2>1. Parent(c) = NoJob /\ freeQueuePolicyResources(c, TRUE) /\ weaver' \subseteq weaver
    BY <1>6 DEF Delete, TopLevel
  <2> QED BY <2>1, FreeDependencies
<1>7. ASSUME NEW t \in Threads, AskNext(t)
      PROVE  weaver' = weaver /\ dependencies' = dependencies
  BY <1>7 DEF AskNext, acquireAll
<1>8. ASSUME NEW t \in Threads, Worker(t), ~QueueElement(t), ~FreeJob(t), ~AskNext(t)
      PROVE  weaver' \subseteq weaver /\ UNCHANGED policyVars
  BY <1>8 DEF Worker, LockQueue, TakeJob, SkipJob, NothingAvailable, IncActive, RunJob,
     StartCollection, ExecuteFirst, Returned, StopSequence, RunnerDone, dequeue
<1>9. ASSUME NEW t \in Threads, Worker(t)
      PROVE  /\ \A s \in Sequences : s \in weaver' =>
                  s \in weaver \/ SequenceDependencies(s) \subseteq dependencies'
             /\ \A d \in dependencies :
                  d \in dependencies' \/ (d[2] \in finished' /\ d[2] \in succeeded')
  <2>1. CASE QueueElement(t)
    BY <1>2, <1>3, <2>1
  <2>2. CASE FreeJob(t)
    BY <1>4, <2>2
  <2>3. CASE AskNext(t)
    BY <1>7, <2>3
  <2>4. CASE ~QueueElement(t) /\ ~FreeJob(t) /\ ~AskNext(t)
    BY <1>8, <1>9, <2>4
  <2> QED BY <2>1, <2>2, <2>3, <2>4
<1>10. CASE FinishReturn \/ Finish \/ DequeueAll \/ (\E j \in Jobs : Dequeue(j))
            \/ UNCHANGED vars
  <2>1. weaver' \subseteq weaver /\ UNCHANGED policyVars
    BY <1>10 DEF FinishReturn, Finish, DequeueAll, Dequeue, dequeue, vars
  <2> QED BY <1>1, <2>1
<1>11. ASSUME NEW j \in Jobs, Enqueue(j) PROVE enqueue(j)
  BY <1>11 DEF Enqueue
<1> QED BY <1>2, <1>5, <1>6, <1>9, <1>10, <1>11, Zenon DEF Next, MainCall

LEMMA OverKept ==
  ASSUME IInv, [Next]_vars
  PROVE  \A j : Over(j) => Over(j)'
BY BeginFacts DEF Over, Success

LEMMA ToldStep ==
  ASSUME IInv, ToldInv, [Next]_vars
  PROVE  ToldInv'
<1> SUFFICES ASSUME NEW s \in Sequences, NEW n \in 2..Len(elements[s]),
                    s \in weaver' \/ Begun(s)'
             PROVE  Preceded(s, n)' \/ Over(elements[s][n - 1])'
  BY DEF ToldInv
<1> USE DEF IInv
<1>1. PICK b, d : b = elements[s][n - 1] /\ d = <<elements[s][n], b>>
  OBVIOUS
<1>2. s \in Collections /\ s \in Jobs /\ n - 1 \in 1..Len(elements[s])
  BY CollectionConstants
<1>3. Parent(b) # NoJob /\ d[2] = b
  BY <1>1, <1>2, ElementTypes
<1>4. d \in SequenceDependencies(s)
  BY <1>1 DEF SequenceDependencies
<1>5. s \in weaver \/ Begun(s) \/ d \in dependencies'
  <2>1. CASE s \in weaver'
    BY <1>4, <2>1, DependencyFacts
  <2>2. CASE Begun(s)'
    <3>1. Begun(s) \/ \E t \in Threads : Holds(t, s) /\ pc[t] = "execute"
      BY <1>2, <2>2, BeginFacts
    <3>2. s \in Chain(s)
      BY <1>2, ChainIs
    <3> QED BY <1>2, <3>1, <3>2 DEF WeaverInv
  <2> QED BY <2>1, <2>2
<1>6. d \in dependencies' \/ d \in dependencies \/ Over(b)
  BY <1>1, <1>5 DEF ToldInv, Preceded
<1>7. d \in dependencies => d \in dependencies' \/ Over(b)'
  BY <1>3, DependencyFacts DEF Over, Success
<1>8. d \in dependencies' \/ Over(b)'
  BY <1>6, <1>7, OverKept
<1> QED BY <1>1, <1>8 DEF Preceded, Over, Success

\* While a thread scans the queue, it stays as it is, and no dependency is
\* added.
LEMMA ScanFacts ==
  ASSUME IInv, [Next]_vars
  PROVE  \/ \E t \in Threads : \/ LockQueue(t) \/ AskNext(t) \/ TakeJob(t)
                               \/ SkipJob(t) \/ NothingAvailable(t)
         \/ /\ UNCHANGED queueVars
            /\ m_mutex # NoThread => /\ m_assignments' = m_assignments
                                     /\ dependencies' \subseteq dependencies
<1> USE DEF doneVars, queueVars, policyVars, MutexFree
<1>1. ASSUME NEW t \in Threads, FreeJob(t)
      PROVE  UNCHANGED <<queueVars, m_assignments>> /\ dependencies' \subseteq dependencies
  BY <1>1 DEF FreeJob, freeQueuePolicyResources, resolveDependencies
<1>2. CASE JobRunnerDone
  <2>1. UNCHANGED <<queueVars, m_assignments>>
    BY <1>2 DEF JobRunnerDone
  <2>2. dependencies' \subseteq dependencies
    BY <1>2 DEF JobRunnerDone, freeQueuePolicyResources, resolveDependencies
  <2> QED BY <2>1, <2>2
<1>3. ASSUME NEW c \in Jobs, Delete(c)
      PROVE  /\ UNCHANGED queueVars
             /\ m_mutex # NoThread => /\ m_assignments' = m_assignments
                                      /\ dependencies' \subseteq dependencies
  BY <1>3 DEF Delete, freeQueuePolicyResources, resolveDependencies
<1>4. ASSUME NEW t \in Threads, Worker(t), ~LockQueue(t), ~AskNext(t), ~TakeJob(t),
             ~SkipJob(t), ~NothingAvailable(t), ~FreeJob(t)
      PROVE  /\ UNCHANGED queueVars
             /\ m_mutex # NoThread => /\ m_assignments' = m_assignments
                                      /\ dependencies' \subseteq dependencies
  BY <1>4 DEF Worker, IncActive, RunJob, StartCollection, QueueElement, ExecuteFirst,
     Returned, StopSequence, RunnerDone
<1>5. CASE FinishReturn \/ Finish \/ DequeueAll
            \/ (\E j \in Jobs : Enqueue(j) \/ Dequeue(j)) \/ UNCHANGED vars
  BY <1>5 DEF FinishReturn, Finish, DequeueAll, Enqueue, Dequeue, vars
<1> QED BY <1>1, <1>2, <1>3, <1>4, <1>5, Zenon DEF Next, MainCall

\* The last job that is asked is the queued one.
LEMMA LastAsked ==
  ASSUME TypeOK, index <= Len(m_assignments)
  PROVE  /\ Scanned \in Jobs /\ Scanned \in Queued
         /\ Len(Asked[Scanned]) \in Nat \ {0}
         /\ Asked[Scanned][Len(Asked[Scanned])] = Scanned
<1>1. Scanned \in Jobs /\ Scanned \in Queued
  BY DEF TypeOK, Scanned, Queued, ToSet
<1> QED BY <1>1, AskedTypes

LEMMA AgreedStep ==
  ASSUME IInv, AgreedInv, [Next]_vars
  PROVE  AgreedInv'
<1> USE DEF IInv, queueVars, policyVars
<1>1. PICK k : k = Scanned'
  OBVIOUS
<1>2. SUFFICES ASSUME m_mutex' # NoThread, agreed', index' <= Len(m_assignments'),
                      level' > Len(Asked[k]), DependencyPolicy \in ToSet(queuePolicies[k])
               PROVE  \A d \in dependencies' : d[1] # k
  BY <1>1 DEF AgreedInv, hasUnresolvedDependencies
<1>3. ASSUME NEW t \in Threads, LockQueue(t) \/ TakeJob(t) \/ SkipJob(t) \/ NothingAvailable(t)
      PROVE  FALSE
  <2>1. TypeOK'
    BY NextTypes
  <2>2. k \in Jobs
    BY <1>1, <1>2, <2>1 DEF TypeOK, Scanned
  <2>3. Len(Asked[k]) \in Nat \ {0}
    BY <2>2, AskedTypes
  <2>4. level' = 1 \/ m_mutex' = NoThread
    BY <1>3 DEF LockQueue, TakeJob, SkipJob, NothingAvailable
  <2> QED BY <1>2, <2>3, <2>4
<1>4. ASSUME NEW t \in Threads, AskNext(t) PROVE \A d \in dependencies' : d[1] # k
  <2>1. /\ index <= Len(m_assignments) /\ level <= Len(Asked[Scanned])
        /\ level' = level + 1 /\ m_assignments' = m_assignments /\ index' = index
    BY <1>4 DEF AskNext, Scanning
  <2>2. k = Scanned
    BY <1>1, <2>1 DEF Scanned
  <2>3. level = Len(Asked[k]) /\ Asked[k][level] = k /\ k \in Jobs
    <3>1. level \in Nat /\ Len(Asked[k]) \in Nat /\ Asked[k][Len(Asked[k])] = k /\ k \in Jobs
      BY <2>1, <2>2, LastAsked DEF TypeOK
    <3> QED BY <1>2, <2>1, <2>2, <3>1
  <2>4. canBeExecuted(k) /\ acquireAll(k)
    <3>1. Asked[Scanned][level] = k
      BY <2>2, <2>3
    <3> QED BY <1>2, <1>4, <3>1 DEF AskNext
  <2>5. canRun(DependencyPolicy, k)
    <3>1. queuePolicies[k] \in Seq(Policies)
      BY <2>3, PoliciesAssigned
    <3>2. PICK n \in 1..Len(queuePolicies[k]) : queuePolicies[k][n] = DependencyPolicy
      BY <1>2, <3>1 DEF ToSet
    <3> QED BY <2>4, <3>2 DEF canBeExecuted
  <2> QED BY <2>4, <2>5, PolicyIdentity DEF canRun, hasUnresolvedDependencies, acquireAll
<1>5. CASE /\ UNCHANGED queueVars
           /\ m_mutex # NoThread => /\ m_assignments' = m_assignments
                                    /\ dependencies' \subseteq dependencies
  <2>1. k = Scanned
    BY <1>1, <1>2, <1>5 DEF Scanned
  <2>2. m_mutex # NoThread /\ agreed /\ index <= Len(m_assignments) /\ level > Len(Asked[Scanned])
    BY <1>2, <1>5, <2>1
  <2>3. ~hasUnresolvedDependencies(Scanned)
    BY <1>2, <2>1, <2>2 DEF AgreedInv
  <2> QED BY <1>2, <1>5, <2>1, <2>3 DEF hasUnresolvedDependencies
<1> QED BY <1>3, <1>4, <1>5, ScanFacts, Zenon

LEMMA OrderStep ==
  ASSUME SeqInv, [Next]_vars
  PROVE  OrderInv'
<1> USE DEF SeqInv, IInv
<1>1. SUFFICES ASSUME NEW s \in Sequences, NEW n \in 2..Len(elements[s]), NEW j, NEW b,
                      j = elements[s][n], b = elements[s][n - 1],
                      Begun(j)' \/ \E t \in Threads : Holds(t, j)'
               PROVE  Over(b)'
  BY DEF OrderInv, Over, Success, Begun, Holds
<1>2. /\ s \in Collections /\ n \in 1..Len(elements[s]) /\ j \in Jobs
      /\ Parent(j) = s /\ s # NoJob /\ Len(elements[s]) > 1
  <2>1. s \in Collections /\ n \in 1..Len(elements[s]) /\ Len(elements[s]) > 1
    BY CollectionConstants
  <2>2. Parent(j) = s /\ Parent(j) # NoJob /\ j \in Jobs
    BY <1>1, <2>1, ElementTypes
  <2> QED BY <2>1, <2>2
<1>3. SUFFICES Over(b)
  BY OverKept
<1>4. CASE Begun(j) \/ \E t \in Threads : Holds(t, j)
  BY <1>1, <1>4 DEF OrderInv
<1>5. CASE Begun(j)'
  <2>1. Begun(j) \/ \E t \in Threads : Holds(t, j)
    BY <1>2, <1>5, BeginFacts
  <2> QED BY <1>4, <2>1
<1>6. ASSUME NEW t \in Threads, Holds(t, j)' PROVE Over(b)
  <2>1. CASE TakeJob(t) /\ j = Scanned
    <3>1. /\ index <= Len(m_assignments) /\ level > Len(Asked[Scanned]) /\ agreed
          /\ pc[t] = "scan"
      BY <2>1 DEF TakeJob, Scanning, At
    <3>2. m_mutex # NoThread
      BY <3>1, CollectionConstants DEF PlaceInv, Place
    <3>3. j \in Queued
      BY <2>1, <3>1, LastAsked
    <3>4. Begun(s)
      BY <1>2, <3>3 DEF CountedInv, Pending, Begun
    <3>5. Preceded(s, n) \/ Over(b)
      BY <1>1, <3>4 DEF ToldInv
    <3>6. DependencyPolicy \in ToSet(queuePolicies[j])
      BY <1>1, <1>2, SequencePolicies
    <3>7. ~hasUnresolvedDependencies(j)
      BY <2>1, <3>1, <3>2, <3>6 DEF AgreedInv
    <3> QED BY <1>1, <3>5, <3>7 DEF hasUnresolvedDependencies, Preceded
  <2>2. ASSUME NEW c, ~Plain(c), j = First(c) PROVE FALSE
    <3>1. c \in Collections /\ 1 \in 1..Len(elements[c]) /\ elements[c][1] = j
      BY <2>2, FirstIsElement DEF First
    <3>2. n = 1
      BY <1>1, <1>2, <3>1, ElementsOnce
    <3> QED BY <3>2
  <2> QED BY <1>2, <1>4, <1>6, <2>1, <2>2, HoldFacts
<1> QED BY <1>1, <1>5, <1>6

LEMMA LastStep ==
  ASSUME IInv, LastInv, [Next]_vars
  PROVE  LastInv'
<1> USE DEF IInv, doneVars, queueVars
<1>1. SUFFICES ASSUME NEW c \in done', c \notin done
               PROVE  Elements(c) \subseteq runnersDone'
  BY BeginFacts DEF LastInv
<1>2. ASSUME NEW t \in Threads, FreeJob(t) PROVE Elements(c) = {}
  <2>1. c = job[t] /\ c \in Collections
    BY <1>1, <1>2 DEF FreeJob
  <2>2. Plain(c)
    BY <1>2, <2>1, CollectionConstants DEF FreeJob, At, PlaceInv, Place
  <2> QED BY <2>1, <2>2 DEF Plain, Empty, Elements, ToSet
<1>3. CASE JobRunnerDone
  <2>1. PICK j : j = Head(events)
    OBVIOUS
  <2>2. c = Parent(j) /\ jobCounter[c] = 1 /\ runnersDone' = runnersDone /\ events # <<>>
    BY <1>1, <1>3, <2>1 DEF JobRunnerDone
  <2>3. j \in ToSet(events)
    BY <2>1, <2>2, TailSet DEF TypeOK
  <2>4. j \in runnersDone /\ c \in Collections
    BY <2>2, <2>3, ParentTypes DEF EventInv
  <2>5. j \in Open(c) /\ Cardinality(Open(c)) = 1 /\ IsFiniteSet(Open(c))
    <3>1. Open(c) \subseteq Elements(c)
      BY DEF Open
    <3>2. j \in Elements(c)
      BY <2>2, <2>3, ParentTypes DEF EventInv
    <3>3. IsFiniteSet(Open(c))
      BY <2>4, <3>1, ElementsCounted, FS_Subset
    <3>4. jobCounter[c] = Cardinality(Open(c))
      BY <2>2, <2>4 DEF CountInv
    <3> QED BY <2>2, <2>3, <3>2, <3>3, <3>4 DEF Open
  <2>6. Open(c) = {j}
    BY <2>5, FS_Singleton
  <2> QED BY <2>2, <2>4, <2>6 DEF Open
<1>4. ASSUME NEW t \in Threads, Worker(t), ~FreeJob(t) PROVE done' = done
  BY <1>4 DEF Worker, LockQueue, AskNext, TakeJob, SkipJob, NothingAvailable,
     IncActive, RunJob, StartCollection, QueueElement, ExecuteFirst, Returned,
     StopSequence, RunnerDone
<1>5. CASE FinishReturn \/ MainCall \/ UNCHANGED vars
  <2>1. done' = done
    BY <1>5 DEF FinishReturn, MainCall, Enqueue, Dequeue, Delete, DequeueAll, Finish, vars
  <2> QED BY <1>1, <2>1
<1> QED BY <1>1, <1>2, <1>3, <1>4, <1>5, Zenon DEF Next

LEMMA SequenceInvariance == Spec => []SeqInv
<1>1. Init => SeqInv
  <2> SUFFICES ASSUME Init PROVE SeqInv
    OBVIOUS
  <2>1. IInv
    BY InitInv
  <2>2. \A x : ~Begun(x)
    BY DEF Init, Begun
  <2>3. \A t \in Threads, x \in Jobs : ~Holds(t, x)
    BY CollectionConstants DEF Init, Holds
  <2>4. ASSUME NEW s \in Sequences, NEW n \in 2..Len(elements[s])
        PROVE  elements[s][n] \in Jobs
    BY CollectionConstants
  <2>5. ToldInv /\ OrderInv
    BY <2>2, <2>3, <2>4 DEF ToldInv, OrderInv, Init
  <2> QED BY <2>1, <2>5 DEF Init, SeqInv, AgreedInv, LastInv
<1>2. SeqInv /\ [Next]_vars => SeqInv'
  BY NextInv, ToldStep, AgreedStep, OrderStep, LastStep DEF SeqInv
<1> QED BY <1>1, <1>2, PTL DEF Spec

\* JobSequence: an element begins only when all the elements before it have
\* been executed with success; the dependencies aboutToBeQueued adds are
\* neither lost nor resolved too early, whoever else queues and dequeues.
THEOREM SequencesInOrder == Spec => []SequenceInOrder
<1>1. SeqInv => SequenceInOrder
  <2> SUFFICES ASSUME SeqInv, NEW s \in Sequences,
                      NEW m \in 1..Len(elements[s]), NEW n \in 1..Len(elements[s]), m < n,
                      \/ elements[s][n] \in finished
                      \/ \E t \in Threads : job[t] = elements[s][n]
               PROVE  Over(elements[s][m])
    BY DEF SequenceInOrder, Over
  <2> DEFINE q == elements[s]
             Since == {l \in Nat : m <= l /\ l < n /\ \A k \in l..(n - 1) : Over(q[k])}
  <2>1. q \in Seq(Jobs) /\ Len(q) \in Nat
    BY CollectionConstants
  <2>2. n - 1 \in Since
    <3>1. Begun(q[n]) \/ \E t \in Threads : Holds(t, q[n])
      BY DEF Begun, Holds
    <3>2. n \in 2..Len(q)
      BY <2>1
    <3>3. Over(q[n - 1])
      BY <3>1, <3>2 DEF SeqInv, OrderInv
    <3>4. \A k \in (n - 1)..(n - 1) : k = n - 1
      BY <2>1
    <3> QED BY <2>1, <3>3, <3>4
  <2>3. PICK l \in Since : \A k \in Since : l <= k
    <3>1. Since \subseteq Nat /\ Since # {}
      BY <2>2
    <3> HIDE DEF Since
    <3> QED BY <3>1, LeastNatural
  <2>4. l = m
    <3>1. SUFFICES ASSUME m < l PROVE FALSE
      BY <2>3
    <3>2. l \in Nat /\ l < n /\ \A k \in l..(n - 1) : Over(q[k])
      BY <2>3
    <3>3. Over(q[l]) /\ l \in 2..Len(q)
      BY <2>1, <3>1, <3>2
    <3>4. Over(q[l - 1])
      <4>1. Begun(q[l])
        BY <3>3 DEF Over, Begun
      <4> QED BY <3>3, <4>1 DEF SeqInv, OrderInv
    <3>5. \A k \in (l - 1)..(n - 1) : k = l - 1 \/ k \in l..(n - 1)
      BY <3>2
    <3>6. l - 1 \in Since
      BY <3>1, <3>2, <3>4, <3>5
    <3> HIDE DEF Since
    <3>7. l <= l - 1
      BY <2>3, <3>6
    <3> QED BY <3>2, <3>7
  <2> QED BY <2>3, <2>4
<1> QED BY SequenceInvariance, <1>1, PTL

\* A collection that is an element is one of a sequence, and not the last:
\* for others, execute() of a nested collection returns before its elements
\* are executed, and nothing waits for them.
NestedInSequences ==
  \A c \in Collections : \A j \in Elements(c) :
    Plain(j) \/ (c \in Sequences /\ j # elements[c][Len(elements[c])])

\* JobCollection::done(): the elements have been executed when it is emitted,
\* and none is queued or executed after it.
THEOREM DoneComesLast ==
  ASSUME NestedInSequences
  PROVE  Spec => []DoneIsLast
<1>1. SeqInv => DoneIsLast
  <2> SUFFICES ASSUME SeqInv, NEW c \in done, NEW j \in Elements(c)
               PROVE  /\ j \in finished /\ j \notin Queued
                      /\ \A t \in Threads : job[t] = j => pc[t] \notin {"execute", "free"}
    BY DEF DoneIsLast
  <2> USE DEF SeqInv, IInv
  <2>1. c \in Collections /\ Elements(c) \subseteq runnersDone /\ j \in Jobs
    BY CollectionConstants DEF TypeOK, LastInv
  <2>2. j \in runnersDone /\ Begun(j)
    BY <2>1 DEF RunnerInv
  <2>3. j \notin Queued
    BY <2>2 DEF QueueInv
  <2>4. ASSUME NEW t \in Threads, job[t] = j PROVE pc[t] \notin {"execute", "free"}
    <3>1. FALSE
      BY <2>1, <2>2, <2>4, ChainIs DEF ChainInv
    <3> QED BY <3>1
  <2>5. j \in finished
    <3>1. CASE Plain(j)
      BY <2>2, <3>1 DEF Begun, CountInv, Plain
    <3>2. CASE ~Plain(j)
      <4>1. c \in Sequences /\ j # elements[c][Len(elements[c])]
        BY <2>1, <3>2 DEF NestedInSequences
      <4>2. elements[c] \in Seq(Jobs) /\ Len(elements[c]) \in Nat
        BY <2>1, CollectionConstants
      <4>3. PICK n \in 1..Len(elements[c]) : j = elements[c][n]
        BY <4>2 DEF Elements, ToSet
      <4>4. n + 1 \in 2..Len(elements[c]) /\ n + 1 \in 1..Len(elements[c])
        BY <4>1, <4>2, <4>3
      <4>5. elements[c][n + 1] \in runnersDone
        BY <2>1, <4>4, ElementTypes
      <4>6. Begun(elements[c][n + 1])
        BY <4>5 DEF RunnerInv
      <4>7. Over(elements[c][(n + 1) - 1])
        BY <4>1, <4>4, <4>6 DEF OrderInv
      <4>8. (n + 1) - 1 = n
        BY <4>2
      <4> QED BY <4>3, <4>7, <4>8 DEF Over
    <3> QED BY <3>1, <3>2
  <2> QED BY <2>3, <2>4, <2>5
<1> QED BY SequenceInvariance, <1>1, PTL

-----------------------------------------------------------------------------
(* Permissions                                                             *)

\* Of the jobs that are asked together, when one has a restriction no other
\* has a policy: the refusal of one leaves the others' permissions in use.
OneAsks ==
  \A j \in Jobs : \A a, b \in Chain(j) :
    a # b /\ RestrictionsOf(a) # {} => queuePolicies[b] = <<>>

Scans == m_mutex # NoThread /\ index <= Len(m_assignments)

AskedSoFar ==
  {Asked[Scanned][n] : n \in {l \in 1..Len(Asked[Scanned]) : l < level}}

Admitted(x) == Scans /\ agreed /\ x \in AskedSoFar

\* From the scan that took x until its resources are freed.
Running(x) ==
  \/ \E t \in Threads : /\ pc[t] \in {"taken", "execute", "queueing"}
                        /\ job[t] \in Jobs /\ x \in Chain(job[t])
  \/ \E t \in Threads : pc[t] = "free" /\ Holds(t, x)
  \/ x \in Collections /\ jobCounter[x] > 0

Granted(x) == Admitted(x) \/ Running(x)

PermInv ==
  \A r \in Restrictions :
    /\ IsInjective(customers[r])
    /\ ToSet(customers[r]) = {x \in Jobs : r \in RestrictionsOf(x) /\ Granted(x)}

RefusedInv == Scans /\ ~agreed => \E a \in AskedSoFar : queuePolicies[a] # <<>>

FreeInv == \A t \in Threads : pc[t] = "free" => job[t] \notin done

PermissionInv == IInv /\ PermInv /\ RefusedInv /\ FreeInv

LEMMA AskedOnce ==
  ASSUME NEW j \in Jobs
  PROVE  IsInjective(Asked[j])
<1> DEFINE Bad == {k \in Jobs : ~IsInjective(Asked[k])}
<1>1. SUFFICES ASSUME Bad # {} PROVE FALSE
  OBVIOUS
<1>2. PICK k \in Bad : Plain(k) \/ First(k) \notin Bad
  <2>1. Bad \subseteq Jobs
    OBVIOUS
  <2> HIDE DEF Bad
  <2> QED BY <1>1, <2>1, ChainBottom
<1>3. CASE Plain(k)
  <2>1. Asked[k] = <<k>>
    BY <1>3, AskedIs
  <2>2. IsInjective(<<k>>)
    BY DEF IsInjective
  <2> QED BY <2>1, <2>2
<1>4. CASE ~Plain(k)
  <2>1. Asked[k] = Append(Asked[First(k)], k) /\ First(k) \in Jobs
    BY <1>4, AskedIs, FirstIsElement
  <2>2. Asked[First(k)] \in Seq(Jobs) /\ IsInjective(Asked[First(k)])
    BY <1>2, <1>4, <2>1, AskedTypes
  <2>3. k \notin ToSet(Asked[First(k)])
    BY <1>4, ChainAcyclic DEF Chain
  <2>4. IsInjective(Append(Asked[First(k)], k))
    BY <2>2, <2>3, AppendSet
  <2> QED BY <2>1, <2>4
<1> QED BY <1>3, <1>4

LEMMA PermKept ==
  ASSUME PermInv, customers' = customers,
         \A x \in Jobs : RestrictionsOf(x) # {} => (Granted(x)' <=> Granted(x))
  PROVE  PermInv'
BY DEF PermInv

\* j gives back what it has got.
LEMMA PermFreed ==
  ASSUME PolicyTypeOK, PermInv, NEW j \in Jobs, NEW success,
         freeQueuePolicyResources(j, success),
         \A x \in Jobs : Granted(x)' <=> Granted(x) /\ x # j
  PROVE  PermInv'
<1> SUFFICES ASSUME NEW r \in Restrictions
             PROVE  /\ IsInjective(customers'[r])
                    /\ \A x : x \in ToSet(customers'[r]) <=>
                         x \in Jobs /\ r \in RestrictionsOf(x) /\ Granted(x)'
  BY DEF PermInv
<1>1. /\ customers[r] \in Seq(Jobs) /\ IsInjective(customers[r])
      /\ \A x : x \in ToSet(customers[r]) <=>
           x \in Jobs /\ r \in RestrictionsOf(x) /\ Granted(x)
  BY DEF PermInv, PolicyTypeOK
<1>2. CASE r \in RestrictionsOf(j)
  <2>1. customers'[r] = RemoveFirst(customers[r], j)
    BY <1>2 DEF freeQueuePolicyResources
  <2>2. IsInjective(customers'[r]) /\ ToSet(customers'[r]) = ToSet(customers[r]) \ {j}
    BY <1>1, <2>1, RemoveFirstSet
  <2> QED BY <1>1, <2>2
<1>3. CASE r \notin RestrictionsOf(j)
  <2>1. customers'[r] = customers[r]
    BY <1>3 DEF freeQueuePolicyResources
  <2> QED BY <1>1, <1>3, <2>1
<1> QED BY <1>2, <1>3

\* The jobs of the chain that is asked are not running yet.
LEMMA AskedApart ==
  ASSUME IInv, index <= Len(m_assignments), NEW x \in Chain(Scanned)
  PROVE  x \in Jobs /\ ~Running(x) /\ ~Begun(x) /\ \A t \in Threads : ~Holds(t, x)
<1> USE DEF IInv
<1>1. PICK k : k = Scanned
  OBVIOUS
<1>2. k \in Queued /\ k \in Jobs /\ x \in Chain(k)
  BY <1>1, LastAsked
<1>3. x \in Jobs /\ ~Begun(k) /\ \A t \in Threads : ~Holds(t, k)
  BY <1>2, ChainsNest DEF QueueInv
<1>4. ~Begun(x) /\ \A t \in Threads : ~Holds(t, x)
  <2>1. CASE x = k
    BY <1>3, <2>1
  <2>2. CASE x # k
    <3>1. Idle(x)
      BY <1>2, <1>3, <2>2, BelowIdle
    <3> QED BY <3>1 DEF Idle
  <2> QED BY <2>1, <2>2
<1>5. ASSUME NEW t \in Threads, pc[t] \in {"taken", "execute", "queueing"}, job[t] \in Jobs
      PROVE  x \notin Chain(job[t])
  <2>1. PICK y \in Jobs : y = job[t]
    BY <1>5
  <2>2. y # k /\ Prepares(y)
    BY <1>3, <1>5, <2>1 DEF Prepares, Holds
  <2>3. Chain(y) \cap Chain(k) = {}
    BY <1>2, <2>2, ChainsApart
  <2> QED BY <1>2, <2>1, <2>3
<1> QED BY <1>3, <1>4, <1>5 DEF Running, Begun

\* Steps that neither take nor free anything.
LEMMA RunningSame ==
  ASSUME UNCHANGED jobCounter,
         \A t \in Threads :
           \/ pc'[t] = pc[t] /\ job'[t] = job[t]
           \/ /\ pc[t] \notin {"taken", "execute", "queueing", "free"}
              /\ pc'[t] \notin {"taken", "execute", "queueing", "free"}
           \/ pc[t] = "taken" /\ pc'[t] = "execute" /\ job'[t] = job[t]
  PROVE  \A x : Running(x)' <=> Running(x)
BY DEF Running, Holds

LEMMA ExecuteRuns ==
  ASSUME IInv, NEW t \in Threads, RunJob(t) \/ StartCollection(t) \/ ExecuteFirst(t)
  PROVE  \A x \in Jobs : Running(x)' <=> Running(x)
<1> USE DEF IInv, At, Goto
<1>0. /\ pc \in [Threads -> Busy \cup {"apply", "scan", "taken"}]
      /\ job \in [Threads -> Jobs \cup {NoJob}] /\ NoJob \notin Jobs
      /\ jobCounter \in [Collections -> Nat]
  BY CollectionConstants DEF TypeOK
<1>1. PICK j : j = job[t]
  OBVIOUS
<1>2. j \in Jobs /\ pc[t] \in {"execute", "queueing"} /\ j \in Chain(j)
  <2>1. pc[t] \in {"execute", "queueing"}
    BY DEF RunJob, StartCollection, ExecuteFirst
  <2> QED BY <1>0, <1>1, <2>1, ChainIs DEF PlaceInv, Place
<1>3. /\ \A u \in Threads : u # t => pc'[u] = pc[u] /\ job'[u] = job[u]
      /\ pc'[t] \in {"execute", "queueing", "free"}
  BY <1>0 DEF RunJob, StartCollection, ExecuteFirst
<1> DEFINE There(x) ==
      \/ \E u \in Threads \ {t} : /\ pc[u] \in {"taken", "execute", "queueing"}
                                  /\ job[u] \in Jobs /\ x \in Chain(job[u])
      \/ \E u \in Threads \ {t} : pc[u] = "free" /\ Holds(u, x)
           Counts(x) == x \in Collections /\ jobCounter[x] > 0
<1>4. \A x : There(x)' <=> There(x)
  BY <1>3 DEF Holds
<1>5. \A x : Running(x) <=> There(x) \/ Counts(x) \/ x \in Chain(j)
  BY <1>1, <1>2 DEF Running
<1>6. CASE RunJob(t)
  <2>1. Plain(j) /\ pc'[t] = "free" /\ job' = job /\ jobCounter' = jobCounter
    BY <1>0, <1>1, <1>6 DEF RunJob
  <2>2. Chain(j) = {j}
    BY <1>2, <2>1, ChainIs
  <2>3. \A x : Running(x)' <=> There(x)' \/ Counts(x)' \/ x = j
    BY <1>1, <2>1 DEF Running, Holds
  <2> QED BY <1>4, <1>5, <2>1, <2>2, <2>3
<1>7. CASE StartCollection(t)
  <2>1. /\ pc'[t] = "queueing" /\ job' = job /\ j \in Collections
        /\ jobCounter' = [jobCounter EXCEPT ![j] = Len(elements[j])]
    BY <1>0, <1>1, <1>7, FirstIsElement DEF StartCollection
  <2>2. \A x : x # j => (Counts(x)' <=> Counts(x))
    BY <1>0, <2>1
  <2>3. \A x : Running(x)' <=> There(x)' \/ Counts(x)' \/ x \in Chain(j)
    BY <1>1, <1>2, <2>1 DEF Running, Holds
  <2> HIDE DEF There, Counts
  <2> QED BY <1>2, <1>4, <1>5, <2>2, <2>3
<1>8. CASE ExecuteFirst(t)
  <2>1. /\ pc[t] = "queueing" /\ pc'[t] = "execute" /\ job'[t] = First(j)
        /\ jobCounter' = jobCounter
    BY <1>0, <1>1, <1>8 DEF ExecuteFirst, First
  <2>2. ~Plain(j) /\ jobCounter[j] > 0
    BY <1>1, <2>1 DEF PlaceInv, Place
  <2>3. j \in Collections /\ First(j) \in Jobs /\ Chain(j) = Chain(First(j)) \cup {j}
    BY <1>2, <2>2, ChainIs, FirstIsElement
  <2>4. Counts(j)' /\ \A x : Counts(x)' <=> Counts(x)
    BY <2>1, <2>2, <2>3
  <2>5. \A x : Running(x)' <=> There(x)' \/ Counts(x)' \/ x \in Chain(First(j))
    BY <1>3, <2>1, <2>3 DEF Running, Holds
  <2> HIDE DEF There, Counts
  <2> QED BY <1>4, <1>5, <2>3, <2>4, <2>5
<1> QED BY <1>6, <1>7, <1>8

\* What has begun is in the hands of its holder only.
LEMMA RunningApart ==
  ASSUME IInv, NEW c \in Jobs, Begun(c)
  PROVE  /\ ~Admitted(c)
         /\ \A t \in Threads :
              /\ pc[t] \in {"taken", "execute", "queueing"}
              /\ job[t] \in Jobs /\ c \in Chain(job[t])
              => \E u \in Threads : Holds(u, c) /\ pc[u] = "queueing"
<1> USE DEF IInv
<1>1. ~Admitted(c)
  <2>1. SUFFICES ASSUME Admitted(c) PROVE FALSE
    OBVIOUS
  <2>2. index <= Len(m_assignments) /\ c \in AskedSoFar
    BY <2>1 DEF Admitted, Scans
  <2>3. Asked[Scanned] \in Seq(Jobs)
    BY <2>2, LastAsked, AskedTypes
  <2>4. c \in Chain(Scanned)
    BY <2>2, <2>3 DEF AskedSoFar, Chain, ToSet
  <2> QED BY <2>2, <2>4, AskedApart
<1>2. ASSUME NEW t \in Threads, pc[t] \in {"taken", "execute", "queueing"},
             job[t] \in Jobs, c \in Chain(job[t])
      PROVE  \E u \in Threads : Holds(u, c) /\ pc[u] = "queueing"
  <2>1. PICK y \in Jobs : y = job[t]
    BY <1>2
  <2>2. Prepares(y)
    BY <1>2, <2>1 DEF Prepares, Holds
  <2> QED BY <1>2, <2>1, <2>2, BegunApart
<1> QED BY <1>1, <1>2

LEMMA FreeJobEnds ==
  ASSUME IInv, NEW t \in Threads, FreeJob(t)
  PROVE  /\ ~Admitted(job[t]) /\ job[t] \in Jobs
         /\ \A x \in Jobs : Running(x)' <=> Running(x) /\ x # job[t]
<1> USE DEF IInv, At, Goto
<1>0. /\ pc \in [Threads -> Busy \cup {"apply", "scan", "taken"}]
      /\ job \in [Threads -> Jobs \cup {NoJob}] /\ NoJob \notin Jobs
  BY CollectionConstants DEF TypeOK
<1>1. PICK j : j = job[t]
  OBVIOUS
<1>2. pc[t] = "free" /\ j \in Jobs /\ Plain(j) /\ Begun(j) /\ j # NoJob
  BY <1>0, <1>1 DEF FreeJob, PlaceInv, Place
<1>3. /\ pc' = [pc EXCEPT ![t] = "returned"] /\ UNCHANGED <<job, jobCounter>>
  BY DEF FreeJob
<1>4. ~(j \in Collections /\ jobCounter[j] > 0)
  BY <1>2 DEF CountInv, Plain
<1>5. \A u \in Threads : Holds(u, j) => u = t
  BY <1>1, <1>2 DEF HolderInv, Holds
<1>6. ~Admitted(j) /\ \A u \in Threads :
        ~(pc[u] \in {"taken", "execute", "queueing"} /\ job[u] \in Jobs /\ j \in Chain(job[u]))
  BY <1>2, <1>5, RunningApart
<1>7. ~Running(j)'
  BY <1>0, <1>1, <1>3, <1>4, <1>5, <1>6 DEF Running, Holds
<1>8. \A x \in Jobs : x # j => (Running(x)' <=> Running(x))
  BY <1>0, <1>1, <1>2, <1>3 DEF Running, Holds
<1> QED BY <1>1, <1>2, <1>6, <1>7, <1>8

LEMMA CollectionEnds ==
  ASSUME IInv, NEW c \in Collections, Begun(c),
         UNCHANGED <<pc, job>>, jobCounter'[c] = 0,
         \A d \in Collections : d # c => jobCounter'[d] = jobCounter[d],
         \A t \in Threads : Holds(t, c) => pc[t] \notin {"queueing", "free"}
  PROVE  /\ ~Admitted(c)
         /\ \A x \in Jobs : Running(x)' <=> Running(x) /\ x # c
<1>1. c \in Jobs
  BY CollectionConstants
<1>2. ~Admitted(c) /\ \A u \in Threads :
        ~(pc[u] \in {"taken", "execute", "queueing"} /\ job[u] \in Jobs /\ c \in Chain(job[u]))
  BY <1>1, RunningApart
<1>3. ~Running(c)'
  BY <1>2 DEF Running, Holds
<1>4. \A x \in Jobs : x # c => (Running(x)' <=> Running(x))
  BY DEF Running, Holds
<1> QED BY <1>2, <1>3, <1>4

\* A scan that goes on has admitted whom it had admitted.
LEMMA AdmittedKept ==
  ASSUME UNCHANGED queueVars, m_mutex # NoThread => m_assignments' = m_assignments
  PROVE  /\ \A x : Admitted(x)' <=> Admitted(x)
         /\ RefusedInv => RefusedInv'
<1>1. CASE m_mutex = NoThread
  BY <1>1 DEF queueVars, Admitted, Scans, RefusedInv
<1>2. CASE m_mutex # NoThread
  <2>1. UNCHANGED <<m_mutex, index, level, agreed, m_assignments>>
    BY <1>2 DEF queueVars
  <2>2. Scanned' = Scanned
    BY <2>1 DEF Scanned
  <2>3. AskedSoFar' = AskedSoFar
    BY <2>1, <2>2 DEF AskedSoFar
  <2> QED BY <2>1, <2>3 DEF Admitted, Scans, RefusedInv
<1> QED BY <1>1, <1>2

\* The scan begins anew, or ends.
LEMMA AdmittedNone ==
  ASSUME TypeOK', m_mutex' = NoThread \/ (level' = 1 /\ agreed')
  PROVE  (\A x : ~Admitted(x)') /\ RefusedInv'
<1>1. CASE m_mutex' = NoThread
  BY <1>1 DEF Admitted, Scans, RefusedInv
<1>2. CASE level' = 1 /\ agreed'
  <2>1. PICK q : q = Asked[Scanned']
    OBVIOUS
  <2>2. AskedSoFar' = {q[n] : n \in {l \in 1..Len(q) : l < 1}}
    BY <1>2, <2>1 DEF AskedSoFar
  <2>3. AskedSoFar' = {}
    BY <2>2
  <2> QED BY <1>2, <2>3 DEF Admitted, RefusedInv
<1> QED BY <1>1, <1>2

LEMMA AskNextPermits ==
  ASSUME PermissionInv, OneAsks, TypeOK', NEW t \in Threads, AskNext(t)
  PROVE  PermInv' /\ RefusedInv'
<1> USE DEF PermissionInv, IInv
<1>1. /\ pc[t] = "scan" /\ index <= Len(m_assignments) /\ level <= Len(Asked[Scanned])
      /\ level' = level + 1
      /\ UNCHANGED <<m_assignments, m_mutex, index, pc, job, jobCounter>>
  BY DEF AskNext, Scanning, At
<1>2. m_mutex = t /\ Scans /\ Scans'
  BY <1>1, CollectionConstants DEF PlaceInv, Place, Scans
<1>3. PICK k : k = Scanned
  OBVIOUS
<1>4. /\ k \in Jobs /\ Scanned' = k /\ Asked[k] \in Seq(Jobs) /\ Len(Asked[k]) \in Nat
      /\ IsInjective(Asked[k]) /\ level \in 1..Len(Asked[k])
  <2>1. k \in Jobs
    BY <1>1, <1>3, LastAsked
  <2>2. Scanned' = k
    BY <1>1, <1>3 DEF Scanned
  <2> QED BY <1>1, <1>3, <2>1, <2>2, AskedTypes, AskedOnce DEF TypeOK
<1>5. PICK j : j = Asked[k][level]
  OBVIOUS
<1>6. /\ j \in Chain(k) /\ j \in Jobs
      /\ AskedSoFar \subseteq Chain(k)
      /\ AskedSoFar' = AskedSoFar \cup {j} /\ j \notin AskedSoFar
  <2>1. DOMAIN Asked[k] = 1..Len(Asked[k])
    BY <1>4
  <2>2. AskedSoFar = {Asked[k][n] : n \in {l \in 1..Len(Asked[k]) : l < level}}
    BY <1>3 DEF AskedSoFar
  <2>3. AskedSoFar' = {Asked[k][n] : n \in {l \in 1..Len(Asked[k]) : l < level + 1}}
    BY <1>1, <1>4 DEF AskedSoFar
  <2>4. {l \in 1..Len(Asked[k]) : l < level + 1} = {l \in 1..Len(Asked[k]) : l < level} \cup {level}
    BY <1>4
  <2>5. j \notin AskedSoFar
    BY <1>4, <1>5, <2>1, <2>2 DEF IsInjective
  <2>6. j \in Chain(k) /\ j \in Jobs /\ AskedSoFar \subseteq Chain(k)
    BY <1>4, <1>5, <2>1, <2>2 DEF Chain, ToSet
  <2> QED BY <1>5, <2>2, <2>3, <2>4, <2>5, <2>6
<1>7. \A x : Running(x)' <=> Running(x)
  BY <1>1, RunningSame
<1>8. ~Granted(j)
  BY <1>1, <1>3, <1>6, AskedApart DEF Granted, Admitted
<1>9. \/ canBeExecuted(j) /\ acquireAll(j) /\ agreed' = agreed
      \/ ~canBeExecuted(j) /\ agreed' = FALSE /\ customers' = customers
  BY <1>3, <1>5 DEF AskNext, policyVars
<1>10. \A a \in AskedSoFar : /\ RestrictionsOf(a) # {} => queuePolicies[j] = <<>>
                             /\ RestrictionsOf(j) # {} => queuePolicies[a] = <<>>
  BY <1>4, <1>6 DEF OneAsks
<1>11. CASE agreed /\ agreed' /\ acquireAll(j)
  <2>1. \A x : Granted(x)' <=> Granted(x) \/ x = j
    BY <1>2, <1>6, <1>7, <1>11 DEF Granted, Admitted
  <2>2. ASSUME NEW r \in Restrictions
        PROVE  /\ IsInjective(customers'[r])
               /\ \A x : x \in ToSet(customers'[r]) <=>
                    x \in Jobs /\ r \in RestrictionsOf(x) /\ Granted(x)'
    <3>1. /\ customers[r] \in Seq(Jobs) /\ IsInjective(customers[r])
          /\ \A x : x \in ToSet(customers[r]) <=>
               x \in Jobs /\ r \in RestrictionsOf(x) /\ Granted(x)
      BY DEF PermInv, TypeOK, PolicyTypeOK
    <3>2. CASE r \in RestrictionsOf(j)
      <4>1. customers'[r] = Append(customers[r], j) /\ j \notin ToSet(customers[r])
        BY <1>8, <1>11, <3>1, <3>2 DEF acquireAll
      <4>2. IsInjective(customers'[r]) /\ ToSet(customers'[r]) = ToSet(customers[r]) \cup {j}
        BY <1>6, <3>1, <4>1, AppendSet
      <4> QED BY <1>6, <2>1, <3>1, <3>2, <4>2
    <3>3. CASE r \notin RestrictionsOf(j)
      <4>1. customers'[r] = customers[r]
        BY <1>11, <3>3 DEF acquireAll
      <4> QED BY <2>1, <3>1, <3>3, <4>1
    <3> QED BY <3>2, <3>3
  <2> QED BY <1>11, <2>2 DEF PermInv, RefusedInv
<1>12. CASE ~agreed /\ ~agreed' /\ acquireAll(j)
  <2>1. PICK a \in AskedSoFar : queuePolicies[a] # <<>>
    BY <1>2, <1>12 DEF RefusedInv
  <2>2. RestrictionsOf(j) = {}
    BY <1>10, <2>1
  <2>3. customers' = customers
    BY <1>12, <2>2 DEF acquireAll, TypeOK, PolicyTypeOK
  <2>4. \A x : Granted(x)' <=> Granted(x)
    BY <1>7, <1>12 DEF Granted, Admitted
  <2>5. PermInv'
    BY <2>3, <2>4, PermKept
  <2> QED BY <1>6, <2>1, <2>5 DEF RefusedInv
<1>13. CASE ~canBeExecuted(j) /\ ~agreed' /\ customers' = customers
  <2>1. queuePolicies[j] # <<>>
    <3>1. SUFFICES ASSUME queuePolicies[j] = <<>> PROVE FALSE
      OBVIOUS
    <3>2. Len(queuePolicies[j]) = 0
      BY <3>1
    <3>3. canBeExecuted(j)
      BY <3>2 DEF canBeExecuted
    <3> QED BY <1>13, <3>3
  <2>2. \A x \in Jobs : RestrictionsOf(x) # {} => ~Admitted(x) /\ ~Admitted(x)'
    BY <1>10, <1>13, <2>1 DEF Admitted
  <2>3. PermInv'
    BY <1>7, <1>13, <2>2, PermKept DEF Granted
  <2> QED BY <1>6, <2>1, <2>3 DEF RefusedInv
<1> QED
  <2>1. agreed \in BOOLEAN /\ agreed' \in BOOLEAN
    BY DEF TypeOK
  <2>2. CASE canBeExecuted(j) /\ acquireAll(j) /\ agreed' = agreed
    BY <1>11, <1>12, <2>2
  <2>3. CASE ~canBeExecuted(j) /\ agreed' = FALSE /\ customers' = customers
    BY <1>13, <2>3
  <2> QED BY <1>9, <2>2, <2>3

LEMMA TakeJobPermits ==
  ASSUME PermissionInv, TypeOK', NEW t \in Threads, TakeJob(t)
  PROVE  PermInv' /\ RefusedInv'
<1> USE DEF PermissionInv, IInv, At, Goto
<1>0. /\ pc \in [Threads -> Busy \cup {"apply", "scan", "taken"}]
      /\ job \in [Threads -> Jobs \cup {NoJob}]
  BY DEF TypeOK
<1>1. /\ pc[t] = "scan" /\ index <= Len(m_assignments) /\ level > Len(Asked[Scanned])
      /\ agreed /\ m_mutex' = NoThread /\ UNCHANGED <<customers, jobCounter>>
  BY DEF TakeJob, Scanning, policyVars
<1>2. Scans
  BY <1>1, CollectionConstants DEF PlaceInv, Place, Scans
<1>3. PICK k : k = Scanned
  OBVIOUS
<1>4. k \in Jobs /\ Asked[k] \in Seq(Jobs) /\ Len(Asked[k]) \in Nat
  BY <1>1, <1>3, LastAsked, AskedTypes
<1>5. AskedSoFar = Chain(k)
  <2>1. {l \in 1..Len(Asked[k]) : l < level} = DOMAIN Asked[k]
    BY <1>1, <1>3, <1>4 DEF TypeOK
  <2> QED BY <1>3, <2>1 DEF AskedSoFar, Chain, ToSet
<1>6. \A x : Admitted(x) <=> x \in Chain(k)
  BY <1>1, <1>2, <1>5 DEF Admitted
<1>7. (\A x : ~Admitted(x)') /\ RefusedInv'
  BY <1>1, AdmittedNone
<1>8. /\ pc' = [pc EXCEPT ![t] = "taken"] /\ job' = [job EXCEPT ![t] = k]
  BY <1>3 DEF TakeJob
<1>9. \A x : Running(x)' <=> Running(x) \/ x \in Chain(k)
  BY <1>0, <1>1, <1>4, <1>8 DEF Running, Holds
<1>10. \A x : Granted(x)' <=> Granted(x)
  BY <1>6, <1>7, <1>9 DEF Granted
<1> QED BY <1>1, <1>7, <1>10, PermKept

\* The job whose resources are about to be freed has not emitted done().
LEMMA FreeStep ==
  ASSUME IInv, FreeInv, [Next]_vars
  PROVE  FreeInv'
<1> USE DEF IInv, At, Goto, doneVars, queueVars
<1>0. /\ pc \in [Threads -> Busy \cup {"apply", "scan", "taken"}]
      /\ job \in [Threads -> Jobs \cup {NoJob}] /\ NoJob \notin Jobs
  BY CollectionConstants DEF TypeOK
<1>1. CASE /\ done' = done
           /\ \A u \in Threads : pc'[u] = "free" => pc[u] = "free" /\ job'[u] = job[u]
  BY <1>1 DEF FreeInv
<1>2. ASSUME NEW t \in Threads, RunJob(t) PROVE FreeInv'
  <2>1. job[t] \notin done
    BY <1>2 DEF RunJob, PlaceInv, Place, Begun
  <2> QED BY <1>0, <1>2, <2>1 DEF FreeInv, RunJob
<1>3. ASSUME NEW t \in Threads, FreeJob(t) PROVE FreeInv'
  <2>1. job[t] # NoJob
    BY <1>3 DEF FreeJob, PlaceInv, Place
  <2>2. \A u \in Threads : pc'[u] = "free" => u # t /\ pc[u] = "free"
    BY <1>0, <1>3 DEF FreeJob
  <2> QED BY <1>3, <2>1, <2>2 DEF FreeInv, FreeJob, HolderInv
<1>4. CASE JobRunnerDone
  <2>1. PICK c : c = Parent(Head(events))
    OBVIOUS
  <2>2. Head(events) \in ToSet(events)
    BY <1>4, TailSet DEF JobRunnerDone, TypeOK
  <2>3. ~Plain(c)
    BY <2>1, <2>2, ParentTypes DEF EventInv
  <2>4. done' \subseteq done \cup {c} /\ UNCHANGED <<pc, job>>
    BY <1>4, <2>1 DEF JobRunnerDone
  <2>5. \A t \in Threads : pc[t] = "free" => job[t] # c
    BY <2>3 DEF PlaceInv, Place
  <2> QED BY <2>4, <2>5 DEF FreeInv
<1>5. ASSUME NEW t \in Threads, Worker(t), ~RunJob(t), ~FreeJob(t)
      PROVE  /\ done' = done
             /\ \A u \in Threads : pc'[u] = "free" => pc[u] = "free" /\ job'[u] = job[u]
  BY <1>0, <1>5 DEF Worker, LockQueue, AskNext, TakeJob, SkipJob, NothingAvailable,
     IncActive, StartCollection, QueueElement, ExecuteFirst, Returned, StopSequence,
     RunnerDone
<1>6. CASE FinishReturn \/ MainCall \/ UNCHANGED vars
  BY <1>1, <1>6 DEF FinishReturn, MainCall, Enqueue, Dequeue, Delete, DequeueAll,
     Finish, vars
<1> QED BY <1>1, <1>2, <1>3, <1>4, <1>5, <1>6, Zenon DEF Next

LEMMA WorkerPermits ==
  ASSUME PermissionInv, OneAsks, TypeOK', [Next]_vars, NEW t \in Threads, Worker(t)
  PROVE  PermInv' /\ RefusedInv'
<1> USE DEF PermissionInv, IInv, At, Goto
<1>0. /\ pc \in [Threads -> Busy \cup {"apply", "scan", "taken"}]
      /\ job \in [Threads -> Jobs \cup {NoJob}]
  BY DEF TypeOK
<1>1. CASE AskNext(t)
  BY <1>1, AskNextPermits
<1>2. CASE TakeJob(t)
  BY <1>2, TakeJobPermits
<1>3. CASE LockQueue(t) \/ SkipJob(t) \/ NothingAvailable(t)
  <2>1. \A x : ~Admitted(x)
    BY <1>3 DEF LockQueue, SkipJob, NothingAvailable, MutexFree, Scanning, Admitted, Scans, TypeOK
  <2>2. m_mutex' = NoThread \/ (level' = 1 /\ agreed')
    BY <1>3 DEF LockQueue, SkipJob, NothingAvailable
  <2>3. (\A x : ~Admitted(x)') /\ RefusedInv'
    BY <2>2, AdmittedNone
  <2>4. \A x : Running(x)' <=> Running(x)
    BY <1>0, <1>3, RunningSame DEF LockQueue, SkipJob, NothingAvailable, Scanning
  <2>5. customers' = customers
    BY <1>3 DEF LockQueue, SkipJob, NothingAvailable, policyVars
  <2> QED BY <2>1, <2>3, <2>4, <2>5, PermKept DEF Granted
<1>4. CASE ~(LockQueue(t) \/ AskNext(t) \/ TakeJob(t) \/ SkipJob(t) \/ NothingAvailable(t))
  <2>1. UNCHANGED queueVars /\ (m_mutex # NoThread => m_assignments' = m_assignments)
    BY <1>4 DEF Worker, IncActive, RunJob, FreeJob, StartCollection, QueueElement,
       ExecuteFirst, Returned, StopSequence, RunnerDone, MutexFree
  <2>2. (\A x : Admitted(x)' <=> Admitted(x)) /\ RefusedInv'
    BY <2>1, AdmittedKept
  <2>3. CASE FreeJob(t)
    <3>1. PICK j : j = job[t]
      OBVIOUS
    <3>2. PICK success : success = (j \in succeeded)
      OBVIOUS
    <3>3. freeQueuePolicyResources(j, success)
      BY <2>3, <3>1, <3>2 DEF FreeJob, freeQueuePolicyResources
    <3>4. /\ ~Admitted(j) /\ j \in Jobs
          /\ \A x \in Jobs : Running(x)' <=> Running(x) /\ x # j
      BY <2>3, <3>1, FreeJobEnds
    <3>5. \A x \in Jobs : Granted(x)' <=> Granted(x) /\ x # j
      BY <2>2, <3>4 DEF Granted
    <3> QED BY <2>2, <3>3, <3>4, <3>5, PermFreed DEF TypeOK
  <2>4. CASE RunJob(t) \/ StartCollection(t) \/ ExecuteFirst(t)
    <3>1. \A x \in Jobs : Running(x)' <=> Running(x)
      BY <2>4, ExecuteRuns
    <3>2. customers' = customers
      BY <2>4 DEF RunJob, StartCollection, ExecuteFirst, policyVars
    <3> QED BY <2>2, <3>1, <3>2, PermKept DEF Granted
  <2>5. CASE IncActive(t) \/ QueueElement(t) \/ Returned(t) \/ StopSequence(t) \/ RunnerDone(t)
    <3>1. \A x : Running(x)' <=> Running(x)
      <4>1. jobCounter' = jobCounter /\ \A u \in Threads : u # t => pc'[u] = pc[u] /\ job'[u] = job[u]
        BY <1>0, <2>5 DEF IncActive, QueueElement, Returned, StopSequence, RunnerDone
      <4>2. \/ pc'[t] = pc[t] /\ job'[t] = job[t]
            \/ /\ pc[t] \notin {"taken", "execute", "queueing", "free"}
               /\ pc'[t] \notin {"taken", "execute", "queueing", "free"}
            \/ pc[t] = "taken" /\ pc'[t] = "execute" /\ job'[t] = job[t]
        BY <1>0, <2>5 DEF IncActive, QueueElement, Returned, StopSequence, RunnerDone
      <4> QED BY <4>1, <4>2, RunningSame
    <3>2. customers' = customers
      BY <2>5 DEF IncActive, QueueElement, enqueue, Returned, StopSequence, RunnerDone, policyVars
    <3> QED BY <2>2, <3>1, <3>2, PermKept DEF Granted
  <2> QED BY <1>4, <2>3, <2>4, <2>5 DEF Worker
<1> QED BY <1>1, <1>2, <1>3, <1>4

LEMMA MainPermits ==
  ASSUME PermissionInv, TypeOK', FinishReturn \/ JobRunnerDone \/ MainCall \/ UNCHANGED vars
  PROVE  PermInv' /\ RefusedInv'
<1> USE DEF PermissionInv, IInv
<1>0. jobCounter \in [Collections -> Nat] /\ NoJob \notin Jobs /\ Collections \subseteq Jobs
  BY CollectionConstants DEF TypeOK
<1>1. UNCHANGED <<queueVars, pc, job>> /\ (m_mutex # NoThread => m_assignments' = m_assignments)
  BY DEF FinishReturn, JobRunnerDone, MainCall, Enqueue, Dequeue, Delete, DequeueAll,
     Finish, vars, MutexFree
<1>2. (\A x : Admitted(x)' <=> Admitted(x)) /\ RefusedInv'
  BY <1>1, AdmittedKept
<1>3. CASE customers' = customers /\ \A c \in Collections : jobCounter'[c] > 0 <=> jobCounter[c] > 0
  <2>1. \A x : Running(x)' <=> Running(x)
    BY <1>1, <1>3 DEF Running, Holds
  <2> QED BY <1>2, <1>3, <2>1, PermKept DEF Granted
\* A collection ends and gives back what it has got.
<1>4. ASSUME NEW c \in Collections, Begun(c), jobCounter'[c] = 0,
             \A d \in Collections : d # c => jobCounter'[d] = jobCounter[d],
             \A t \in Threads : Holds(t, c) => pc[t] \notin {"queueing", "free"},
             freeQueuePolicyResources(c, TRUE)
      PROVE  PermInv'
  <2>1. ~Admitted(c) /\ \A x \in Jobs : Running(x)' <=> Running(x) /\ x # c
    BY <1>1, <1>4, CollectionEnds
  <2>2. \A x \in Jobs : Granted(x)' <=> Granted(x) /\ x # c
    BY <1>2, <2>1 DEF Granted
  <2> QED BY <1>0, <1>4, <2>2, PermFreed DEF TypeOK
<1>5. CASE JobRunnerDone
  <2>1. PICK c : c = Parent(Head(events))
    OBVIOUS
  <2>2. Head(events) \in ToSet(events)
    BY <1>5, TailSet DEF JobRunnerDone, TypeOK
  <2>3. c \in Collections /\ ~Plain(c)
    BY <2>1, <2>2, ParentTypes DEF EventInv
  <2>4. CASE jobCounter[c] # 1
    <3>1. \/ jobCounter' = jobCounter /\ customers' = customers
          \/ /\ jobCounter[c] > 1 /\ customers' = customers
             /\ jobCounter' = [jobCounter EXCEPT ![c] = jobCounter[c] - 1]
      BY <1>5, <2>1, <2>4 DEF JobRunnerDone, policyVars
    <3> QED BY <1>0, <1>2, <1>3, <2>3, <3>1
  <2>5. CASE jobCounter[c] = 1
    <3>1. /\ jobCounter' = [jobCounter EXCEPT ![c] = 0]
          /\ freeQueuePolicyResources(c, TRUE) /\ ~Locked(c)
      <4>1. ~(jobCounter[c] = 0) /\ ~(jobCounter[c] > 1)
        BY <2>5
      <4>2. PICK n : n = jobCounter[c]
        OBVIOUS
      <4> QED BY <1>5, <2>1, <4>1, <4>2, Zenon DEF JobRunnerDone
    <3>2. \A t \in Threads : Holds(t, c) => pc[t] \notin {"queueing", "free"}
      BY <2>3, <3>1 DEF Locked, Holds, PlaceInv, Place
    <3>3. Begun(c)
      BY <2>3, <2>5 DEF Begun
    <3> QED BY <1>0, <1>2, <1>4, <2>3, <3>1, <3>2, <3>3
  <2> QED BY <2>4, <2>5
<1>6. ASSUME NEW c \in Jobs, Delete(c) PROVE PermInv'
  <2>1. /\ c \in Collections /\ freeQueuePolicyResources(c, TRUE)
        /\ \/ c \in weaver /\ jobCounter' = [jobCounter EXCEPT ![c] = 0]
           \/ c \notin weaver /\ jobCounter' = jobCounter
    BY <1>6 DEF Delete
  <2>2. /\ jobCounter'[c] = 0
        /\ \A d \in Collections : d # c => jobCounter'[d] = jobCounter[d]
    BY <1>0, <2>1 DEF CountInv
  <2>3. CASE c \in done
    <3>1. c \in finished /\ Begun(c) /\ jobCounter[c] = 0
      BY <1>0, <2>1, <2>3 DEF Begun, CountInv
    <3>2. \A t \in Threads : Holds(t, c) => pc[t] \notin {"queueing", "free"}
      BY <2>3, <3>1 DEF Holds, PlaceInv, Place, FreeInv
    <3> QED BY <1>4, <2>1, <2>2, <3>1, <3>2
  <2>4. CASE m_assignments = <<>> /\ \A t \in Threads : job[t] = NoJob
    <3>1. ~Admitted(c)
      BY <2>4 DEF Admitted, Scans, TypeOK
    <3>2. \A x \in Jobs : Running(x)' <=> Running(x) /\ x # c
      BY <1>0, <1>1, <2>1, <2>2, <2>4 DEF Running, Holds
    <3>3. \A x \in Jobs : Granted(x)' <=> Granted(x) /\ x # c
      BY <1>2, <3>1, <3>2 DEF Granted
    <3> QED BY <2>1, <3>3, PermFreed DEF TypeOK
  <2> QED BY <1>6, <2>3, <2>4 DEF Delete
<1>7. CASE FinishReturn \/ Finish \/ DequeueAll
           \/ (\E j \in Jobs : Enqueue(j) \/ Dequeue(j)) \/ UNCHANGED vars
  <2>1. customers' = customers /\ jobCounter' = jobCounter
    BY <1>7 DEF FinishReturn, Finish, DequeueAll, Enqueue, enqueue, Dequeue, vars, policyVars
  <2> QED BY <1>2, <1>3, <2>1
<1> QED BY <1>2, <1>5, <1>6, <1>7, Zenon DEF MainCall

\* QueuePolicy: what canRun has granted is given back by free or release.
\* When nothing is queued, executed or counted, no permission is left in use,
\* provided that OneAsks: a collection does not undo what it was granted when
\* its first element is refused, nor the other way round.
THEOREM PermissionsComeBack ==
  ASSUME OneAsks
  PROVE  Spec => []PermissionsReturned
<1>1. Init => PermissionInv
  <2> SUFFICES ASSUME Init PROVE PermissionInv
    OBVIOUS
  <2>1. IInv
    BY InitInv
  <2>2. \A x : ~Granted(x)
    BY DEF Init, Granted, Admitted, Scans, Running
  <2>3. PermInv
    BY <2>2 DEF Init, PolicyInit, PermInv, ToSet, IsInjective
  <2> QED BY <2>1, <2>3 DEF Init, PermissionInv, RefusedInv, Scans, FreeInv
<1>2. PermissionInv /\ [Next]_vars => PermissionInv'
  <2> SUFFICES ASSUME PermissionInv, [Next]_vars PROVE PermissionInv'
    OBVIOUS
  <2>1. IInv' /\ FreeInv' /\ TypeOK'
    BY NextInv, FreeStep DEF PermissionInv, IInv
  <2>2. PermInv' /\ RefusedInv'
    BY <2>1, WorkerPermits, MainPermits DEF Next
  <2> QED BY <2>1, <2>2 DEF PermissionInv
<1>3. PermissionInv => PermissionsReturned
  <2> SUFFICES ASSUME PermissionInv, m_assignments = <<>>, weaver = {},
                      \A t \in Threads : pc[t] = "apply", NEW r \in Restrictions
               PROVE  customers[r] = <<>>
    BY DEF PermissionsReturned
  <2> USE DEF PermissionInv, IInv
  <2>1. \A x : ~Granted(x)
    BY DEF Granted, Admitted, Scans, Running, CountInv, TypeOK
  <2>2. customers[r] \in Seq(Jobs) /\ ToSet(customers[r]) = {}
    BY <2>1 DEF PermInv, TypeOK, PolicyTypeOK
  <2>3. PICK q : q = customers[r]
    OBVIOUS
  <2>4. q \in Seq(Jobs) /\ Len(q) \in Nat /\ DOMAIN q = 1..Len(q)
    BY <2>2, <2>3
  <2>5. \A n \in 1..Len(q) : q[n] \in ToSet(q)
    BY <2>4 DEF ToSet
  <2>6. Len(q) = 0
    BY <2>2, <2>3, <2>4, <2>5
  <2> QED BY <2>3, <2>4, <2>6
<1> QED BY <1>1, <1>2, <1>3, PTL DEF Spec

=============================================================================
