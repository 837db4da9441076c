---------------------------- MODULE JobCollection ----------------------------
(***************************************************************************)
(* JobCollection and JobSequence: jobs whose execution queues other jobs,  *)
(* their elements, and which end when the done() signals of all of them    *)
(* have come back through the event loop of the main thread.               *)
(*                                                                         *)
(* An element is queued and executed through a JobCollectionJobRunner; the *)
(* two are one here, and `runnersDone' says which runners have ended.  The *)
(* queue is the one of WeaverImpl without priorities, states and           *)
(* wake-ups: a thread without a job searches the queue again and again.    *)
(* One Job::canBeExecuted and one freeQueuePolicyResources is one step.    *)
(***************************************************************************)
EXTENDS QueuePolicies, QtLists

CONSTANTS
  Threads,
  NoJob, NoThread,
  Collections,      \* the JobCollection objects among Jobs
  Sequences,        \* those that are JobSequence objects
  elements,         \* the payloads of every collection, in order of addJob
  MayFail,          \* the jobs whose success() may be false
  Calls             \* the methods the main thread of an instance calls

ASSUME CollectionConstants ==
  /\ Sequences \subseteq Collections
  /\ Collections \subseteq Jobs
  /\ MayFail \subseteq Jobs \ Collections
  /\ elements \in [Collections -> Seq(Jobs)]
  /\ NoJob \notin Jobs /\ NoThread \notin Threads

\* A job is an element of one collection at most, and once.
ASSUME ElementsOnce ==
  \A c, d \in Collections :
    \A m \in 1..Len(elements[c]), n \in 1..Len(elements[d]) :
      elements[c][m] = elements[d][n] => c = d /\ m = n

\* Collections nest: none is among the elements of its elements.
ASSUME CollectionsNest ==
  \A C \in SUBSET Collections :
    C # {} => \E c \in C : ToSet(elements[c]) \cap C = {}

\* JobSequence::aboutToBeQueued makes every element depend on the one before
\* it: addDependency assigns the policy to both.
ASSUME SequencePolicies ==
  \A s \in Sequences : \A n \in 1..Len(elements[s]) :
    Len(elements[s]) > 1 =>
      DependencyPolicy \in ToSet(queuePolicies[elements[s][n]])

VARIABLES
  m_assignments,    \* the job queue
  m_mutex,          \* the thread that scans it, or NoThread
  index,            \* its position in the queue
  level,            \* and which of the jobs at this position it asks
  agreed,           \* whether all of them have agreed so far
  pc, job,          \* what every thread does, and with which job
  next,             \* the element a thread queues next
  main,             \* "loop": the event loop runs; "finish": in finish()
  events,           \* posted done() signals: the payloads of the runners
  weaver,           \* the collections with d->weaver set
  jobCounter,
  finished, succeeded,
  runnersDone,      \* the elements whose runner is finished
  done,             \* collections that have emitted done()
  deleted           \* collections deleted by the application

queueVars == <<m_mutex, index, level, agreed>>
doneVars == <<finished, succeeded, done>>
vars == <<m_assignments, queueVars, pc, job, next, main, events, weaver,
          jobCounter, doneVars, runnersDone, deleted, policyVars>>

Queued == ToSet(m_assignments)

Elements(c) == ToSet(elements[c])

Empty(c) == elements[c] = <<>>

\* A regular job, and what an empty collection amounts to.
Plain(j) == j \in Collections => Empty(j)

\* The collection j is an element of, or NoJob.
Parent(j) ==
  IF \E c \in Collections : j \in Elements(c)
  THEN CHOOSE c \in Collections : j \in Elements(c) ELSE NoJob

TopLevel == {j \in Jobs : Parent(j) = NoJob}

\* j executes its first element itself, which may do the same: the jobs
\* canBeExecuted asks on behalf of j, in this order.
Asked[j \in Jobs] ==
  IF Plain(j) THEN <<j>> ELSE Append(Asked[elements[j][1]], j)

Busy == {"execute", "queueing", "free", "returned", "stop", "runnerDone"}

\* The threads m_active stands for: WeaverImpl counts them exactly.
IsIdle == m_assignments = <<>> /\ \A t \in Threads : pc[t] \notin Busy

MutexFree == m_mutex = NoThread

\* d->mutex of a collection is held while its elements are queued.
Locked(c) == \E t \in Threads : pc[t] = "queueing" /\ job[t] = c

Init ==
  /\ PolicyInit
  /\ m_assignments = <<>>
  /\ m_mutex = NoThread /\ index = 1 /\ level = 1 /\ agreed = TRUE
  /\ pc = [t \in Threads |-> "apply"]
  /\ job = [t \in Threads |-> NoJob]
  /\ next = [t \in Threads |-> 1]
  /\ main = "loop"
  /\ events = <<>>
  /\ weaver = {} /\ jobCounter = [c \in Collections |-> 0]
  /\ finished = {} /\ succeeded = {} /\ done = {}
  /\ runnersDone = {} /\ deleted = {}

At(t, l) == pc[t] = l
Goto(t, l) == pc' = [pc EXCEPT ![t] = l]

-----------------------------------------------------------------------------
(* All policies of one job *)

RestrictionsOf(j) == ToSet(queuePolicies[j]) \cap Restrictions

\* Every policy of j lets it run.
canBeExecuted(j) ==
  \A n \in 1..Len(queuePolicies[j]) : canRun(queuePolicies[j][n], j)

acquireAll(j) ==
  /\ customers' = [r \in Restrictions |->
        IF r \in RestrictionsOf(j) THEN Append(customers[r], j)
                                   ELSE customers[r]]
  /\ UNCHANGED <<dependencies, cap>>

\* Mutant: the resources of a failed job stay in use.
freeAfterSuccess(j, success) ==
  /\ customers' = [r \in Restrictions |->
        IF success /\ r \in RestrictionsOf(j)
        THEN RemoveFirst(customers[r], j) ELSE customers[r]]
  /\ IF success /\ DependencyPolicy \in ToSet(queuePolicies[j])
     THEN resolveDependencies(j) ELSE UNCHANGED dependencies
  /\ UNCHANGED cap

\* Mutant: nobody tells the jobs that wait for this one.
freeWithoutResolving(j, success) ==
  /\ customers' = [r \in Restrictions |->
        IF r \in RestrictionsOf(j) THEN RemoveFirst(customers[r], j)
                                   ELSE customers[r]]
  /\ UNCHANGED <<dependencies, cap>>

\* Job::freeQueuePolicyResources.
freeQueuePolicyResources(j, success) ==
  /\ customers' = [r \in Restrictions |->
        IF r \in RestrictionsOf(j) THEN RemoveFirst(customers[r], j)
                                   ELSE customers[r]]
  /\ IF success /\ DependencyPolicy \in ToSet(queuePolicies[j])
     THEN resolveDependencies(j) ELSE UNCHANGED dependencies
  /\ UNCHANGED cap

-----------------------------------------------------------------------------
(* aboutToBeQueued and aboutToBeDequeued, with WeaverImpl's enqueue and      *)
(* dequeue around them.                                                    *)

\* Mutant: positions counted from 1, the second element waits for nothing.
DependenciesFromThird(c) ==
  {<<elements[c][n], elements[c][n - 1]>> : n \in 3..Len(elements[c])}

\* JobSequence: every element waits for its predecessor.
SequenceDependencies(c) ==
  {<<elements[c][n], elements[c][n - 1]>> : n \in 2..Len(elements[c])}

\* j and the collections that are first elements are told of the weaver.
enqueue(j) ==
  LET told == ToSet(Asked[j]) \cap Collections IN
    /\ m_assignments' = Append(m_assignments, j)
    /\ weaver' = weaver \cup told
    /\ dependencies' = dependencies \cup
         UNION {SequenceDependencies(c) : c \in told \cap Sequences}
    /\ UNCHANGED <<customers, cap>>

\* A collection in the queue has no element in the queue and counts none:
\* dequeueElements finds nothing to do.
dequeue(j) ==
  \/ /\ j \in Queued
     /\ m_assignments' = RemoveFirst(m_assignments, j)
     /\ weaver' = weaver \ ToSet(Asked[j])
  \/ /\ j \notin Queued
     /\ UNCHANGED <<m_assignments, weaver>>

-----------------------------------------------------------------------------
(* The threads: takeFirstAvailableJob *)

LockQueue(t) ==
  /\ At(t, "apply") /\ MutexFree /\ m_assignments # <<>>
  /\ m_mutex' = t
  /\ index' = 1 /\ level' = 1 /\ agreed' = TRUE
  /\ Goto(t, "scan")
  /\ UNCHANGED <<m_assignments, job, next, main, events, weaver, jobCounter,
                 doneVars, runnersDone, deleted, policyVars>>

Scanned == m_assignments[index]
Scanning(t) == At(t, "scan") /\ index <= Len(m_assignments)

\* One job of the chain is asked: a collection asks itself whatever its
\* first element has answered, and keeps what it got.
AskNext(t) ==
  /\ Scanning(t) /\ level <= Len(Asked[Scanned])
  /\ LET j == Asked[Scanned][level] IN
        \/ canBeExecuted(j) /\ acquireAll(j) /\ agreed' = agreed
        \/ ~canBeExecuted(j) /\ agreed' = FALSE /\ UNCHANGED policyVars
  /\ level' = level + 1
  /\ UNCHANGED <<m_assignments, m_mutex, index, pc, job, next, main, events,
                 weaver, jobCounter, doneVars, runnersDone, deleted>>

TakeJob(t) ==
  /\ Scanning(t) /\ level > Len(Asked[Scanned]) /\ agreed
  /\ job' = [job EXCEPT ![t] = Scanned]
  /\ m_assignments' = RemoveAt(m_assignments, index)
  /\ m_mutex' = NoThread
  /\ index' = 1 /\ level' = 1 /\ agreed' = TRUE
  /\ Goto(t, "taken")
  /\ UNCHANGED <<next, main, events, weaver, jobCounter, doneVars,
                 runnersDone, deleted, policyVars>>

SkipJob(t) ==
  /\ Scanning(t) /\ level > Len(Asked[Scanned]) /\ ~agreed
  /\ index' = index + 1 /\ level' = 1 /\ agreed' = TRUE
  /\ UNCHANGED <<m_assignments, m_mutex, pc, job, next, main, events, weaver,
                 jobCounter, doneVars, runnersDone, deleted, policyVars>>

NothingAvailable(t) ==
  /\ At(t, "scan") /\ index > Len(m_assignments)
  /\ m_mutex' = NoThread
  /\ index' = 1 /\ level' = 1 /\ agreed' = TRUE
  /\ Goto(t, "apply")
  /\ UNCHANGED <<m_assignments, job, next, main, events, weaver, jobCounter,
                 doneVars, runnersDone, deleted, policyVars>>

IncActive(t) ==
  /\ At(t, "taken") /\ MutexFree
  /\ Goto(t, "execute")
  /\ UNCHANGED <<m_assignments, queueVars, job, next, main, events, weaver,
                 jobCounter, doneVars, runnersDone, deleted, policyVars>>

-----------------------------------------------------------------------------
(* The threads: execute *)

\* Mutant: setFinished is forgotten.
RunUnfinished(t) ==
  /\ At(t, "execute") /\ Plain(job[t])
  /\ \/ succeeded' = succeeded \cup {job[t]}
     \/ job[t] \in MayFail /\ succeeded' = succeeded
  /\ Goto(t, "free")
  /\ UNCHANGED <<m_assignments, queueVars, job, next, main, events, weaver,
                 jobCounter, finished, done, runnersDone, deleted, policyVars>>

\* run() of a job, or of a collection without elements.
RunJob(t) ==
  /\ At(t, "execute") /\ Plain(job[t])
  /\ finished' = finished \cup {job[t]}
  /\ \/ succeeded' = succeeded \cup {job[t]}
     \/ job[t] \in MayFail /\ succeeded' = succeeded
  /\ Goto(t, "free")
  /\ UNCHANGED <<m_assignments, queueVars, job, next, main, events, weaver,
                 jobCounter, done, runnersDone, deleted, policyVars>>

\* ... the policies are freed and done() is emitted.
FreeJob(t) ==
  /\ At(t, "free")
  /\ freeQueuePolicyResources(job[t], job[t] \in succeeded)
  /\ done' = done \cup ({job[t]} \cap Collections)
  /\ Goto(t, "returned")
  /\ UNCHANGED <<m_assignments, queueVars, job, next, main, events, weaver,
                 jobCounter, finished, succeeded, runnersDone, deleted>>

\* Mutant: the first element, which is not queued, is not counted.
StartWithoutFirst(t) ==
  /\ At(t, "execute") /\ ~Plain(job[t])
  /\ jobCounter' = [jobCounter EXCEPT ![job[t]] = Len(elements[job[t]]) - 1]
  /\ next' = [next EXCEPT ![t] = 2]
  /\ Goto(t, "queueing")
  /\ UNCHANGED <<m_assignments, queueVars, job, main, events, weaver,
                 doneVars, runnersDone, deleted, policyVars>>

\* Mutant: the first element is queued, too.
StartWithFirst(t) ==
  /\ At(t, "execute") /\ ~Plain(job[t])
  /\ jobCounter' = [jobCounter EXCEPT ![job[t]] = Len(elements[job[t]])]
  /\ next' = [next EXCEPT ![t] = 1]
  /\ Goto(t, "queueing")
  /\ UNCHANGED <<m_assignments, queueVars, job, main, events, weaver,
                 doneVars, runnersDone, deleted, policyVars>>

\* Mutant: the collection counts itself.
StartWithItself(t) ==
  /\ At(t, "execute") /\ ~Plain(job[t])
  /\ jobCounter' = [jobCounter EXCEPT ![job[t]] = Len(elements[job[t]]) + 1]
  /\ next' = [next EXCEPT ![t] = 2]
  /\ Goto(t, "queueing")
  /\ UNCHANGED <<m_assignments, queueVars, job, main, events, weaver,
                 doneVars, runnersDone, deleted, policyVars>>

\* A collection takes its mutex and counts its elements.
StartCollection(t) ==
  /\ At(t, "execute") /\ ~Plain(job[t])
  /\ jobCounter' = [jobCounter EXCEPT ![job[t]] = Len(elements[job[t]])]
  /\ next' = [next EXCEPT ![t] = 2]
  /\ Goto(t, "queueing")
  /\ UNCHANGED <<m_assignments, queueVars, job, main, events, weaver,
                 doneVars, runnersDone, deleted, policyVars>>

QueueElement(t) ==
  /\ At(t, "queueing") /\ MutexFree
  /\ next[t] <= Len(elements[job[t]])
  /\ enqueue(elements[job[t]][next[t]])
  /\ next' = [next EXCEPT ![t] = @ + 1]
  /\ UNCHANGED <<queueVars, pc, job, main, events, jobCounter, doneVars,
                 runnersDone, deleted>>

\* The mutex is released, and the first element is executed here.
ExecuteFirst(t) ==
  /\ At(t, "queueing")
  /\ next[t] > Len(elements[job[t]])
  /\ job' = [job EXCEPT ![t] = elements[job[t]][1]]
  /\ next' = [next EXCEPT ![t] = 1]
  /\ Goto(t, "execute")
  /\ UNCHANGED <<m_assignments, queueVars, main, events, weaver, jobCounter,
                 doneVars, runnersDone, deleted, policyVars>>

Success(j) == j \in Collections \/ j \in succeeded

\* execute() of a job returns: to the runner of an element, which calls
\* internalJobDone, or else to the thread, which is no longer active.  The
\* thread has NoJob here when it executed the runner of a later element.
Returned(t) ==
  LET c == Parent(job[t]) IN
    /\ At(t, "returned")
    /\ \/ c = NoJob /\ MutexFree
          /\ job' = [job EXCEPT ![t] = NoJob] /\ Goto(t, "apply")
       \/ c # NoJob /\ job' = job
          /\ Goto(t, IF c \in Sequences \cap weaver /\ ~Success(job[t])
                     THEN "stop" ELSE "runnerDone")
    /\ UNCHANGED <<m_assignments, queueVars, next, main, events, weaver,
                   jobCounter, doneVars, runnersDone, deleted, policyVars>>

\* JobSequence::internalJobDone after a failure: stop().
StopSequence(t) ==
  /\ At(t, "stop") /\ MutexFree
  /\ dequeue(Parent(job[t]))
  /\ Goto(t, "runnerDone")
  /\ UNCHANGED <<queueVars, job, next, main, events, jobCounter, doneVars,
                 runnersDone, deleted, policyVars>>

\* Mutant: done() of the payload counts as well as the one of the runner.
RunnerDoneTwice(t) ==
  LET j == job[t]  c == Parent(j) IN
    /\ At(t, "runnerDone")
    /\ runnersDone' = runnersDone \cup {j}
    /\ events' = events \o <<j, j>>
    /\ job' = [job EXCEPT ![t] = IF j = elements[c][1] THEN c ELSE NoJob]
    /\ Goto(t, "returned")
    /\ UNCHANGED <<m_assignments, queueVars, next, main, weaver, jobCounter,
                   doneVars, deleted, policyVars>>

\* The runner ends; its done() is posted to the main thread.  A collection
\* that executed its first element returns as well.
RunnerDone(t) ==
  LET j == job[t]  c == Parent(j) IN
    /\ At(t, "runnerDone")
    /\ runnersDone' = runnersDone \cup {j}
    /\ events' = Append(events, j)
    /\ job' = [job EXCEPT ![t] = IF j = elements[c][1] THEN c ELSE NoJob]
    /\ Goto(t, "returned")
    /\ UNCHANGED <<m_assignments, queueVars, next, main, weaver, jobCounter,
                   doneVars, deleted, policyVars>>

Worker(t) ==
  \/ LockQueue(t) \/ AskNext(t) \/ TakeJob(t) \/ SkipJob(t)
  \/ NothingAvailable(t) \/ IncActive(t)
  \/ RunJob(t) \/ FreeJob(t)
  \/ StartCollection(t) \/ QueueElement(t) \/ ExecuteFirst(t)
  \/ Returned(t) \/ StopSequence(t) \/ RunnerDone(t)

-----------------------------------------------------------------------------
(* The main thread *)

Calling(method) == method \in Calls /\ main = "loop"

Fresh(j) ==
  /\ j \in TopLevel /\ j \notin Queued \cup finished \cup deleted \cup weaver
  /\ \A t \in Threads : job[t] # j

Enqueue(j) ==
  /\ Calling("enqueue") /\ MutexFree /\ Fresh(j)
  /\ enqueue(j)
  /\ UNCHANGED <<queueVars, pc, job, next, main, events, jobCounter,
                 doneVars, runnersDone, deleted>>

\* Also the slot stop() of a collection that is queued.
Dequeue(j) ==
  /\ Calling("dequeue") /\ MutexFree
  /\ j \in TopLevel \cap Queued
  /\ dequeue(j)
  /\ UNCHANGED <<queueVars, pc, job, next, main, events, jobCounter,
                 doneVars, runnersDone, deleted, policyVars>>

\* WeaverImpl::dequeue (): what is queued may be elements.
DequeueAll ==
  /\ Calling("dequeueAll") /\ MutexFree /\ m_assignments # <<>>
  /\ weaver' = weaver \ UNION {ToSet(Asked[j]) : j \in Queued}
  /\ m_assignments' = <<>>
  /\ UNCHANGED <<queueVars, pc, job, next, main, events, jobCounter,
                 doneVars, runnersDone, deleted, policyVars>>

Finish ==
  /\ Calling("finish")
  /\ main' = "finish"
  /\ UNCHANGED <<m_assignments, queueVars, pc, job, next, events, weaver,
                 jobCounter, doneVars, runnersDone, deleted, policyVars>>

FinishReturn ==
  /\ main = "finish" /\ MutexFree /\ IsIdle
  /\ main' = "loop"
  /\ UNCHANGED <<m_assignments, queueVars, pc, job, next, events, weaver,
                 jobCounter, doneVars, runnersDone, deleted, policyVars>>

\* The event loop delivers the done() of a runner: jobRunnerDone.
JobRunnerDone ==
  LET c == Parent(Head(events)) IN
    /\ main = "loop" /\ events # <<>> /\ ~Locked(c)
    /\ events' = Tail(events)
    /\ \/ /\ jobCounter[c] = 0
          /\ weaver' = weaver \ {c}
          /\ UNCHANGED <<jobCounter, doneVars, policyVars>>
       \/ /\ jobCounter[c] > 1
          /\ jobCounter' = [jobCounter EXCEPT ![c] = @ - 1]
          /\ UNCHANGED <<weaver, doneVars, policyVars>>
       \/ /\ jobCounter[c] = 1
          /\ jobCounter' = [jobCounter EXCEPT ![c] = 0]
          /\ freeQueuePolicyResources(c, TRUE)
          /\ finished' = finished \cup {c}
          /\ weaver' = weaver \ {c}
          /\ done' = done \cup {c}
          /\ UNCHANGED succeeded
    /\ UNCHANGED <<m_assignments, queueVars, pc, job, next, main,
                   runnersDone, deleted>>

\* ~JobCollection, for one that is done, or when the weaver has no job left:
\* the elements of one that is still marked are dequeued, no event reaches it.
Delete(c) ==
  /\ Calling("delete")
  /\ c \in (TopLevel \cap Collections) \ deleted
  /\ c \in done \/ (m_assignments = <<>> /\ \A t \in Threads : job[t] = NoJob)
  /\ \/ /\ c \in weaver /\ MutexFree
        /\ m_assignments' = Without(m_assignments, Elements(c))
        /\ jobCounter' = [jobCounter EXCEPT ![c] = 0]
        /\ finished' = finished \cup (IF jobCounter[c] # 0 THEN {c} ELSE {})
     \/ c \notin weaver /\ UNCHANGED <<m_assignments, jobCounter, finished>>
  /\ freeQueuePolicyResources(c, TRUE)
  /\ events' = Without(events, Elements(c))
  /\ weaver' = weaver \ {c}
  /\ deleted' = deleted \cup {c}
  /\ UNCHANGED <<queueVars, pc, job, next, main, succeeded, done,
                 runnersDone>>

MainCall ==
  \/ \E j \in Jobs : Enqueue(j) \/ Dequeue(j) \/ Delete(j)
  \/ DequeueAll \/ Finish

Next ==
  \/ FinishReturn \/ JobRunnerDone \/ MainCall
  \/ \E t \in Threads : Worker(t)

Spec == Init /\ [][Next]_vars

\* Threads run on and search the queue again.  The main thread returns to
\* its event loop between its calls, which delivers what is posted.
Fairness ==
  /\ \A t \in Threads : SF_vars(Worker(t))
  /\ SF_vars(FinishReturn)
  /\ SF_vars(JobRunnerDone)

FairSpec == Spec /\ Fairness

-----------------------------------------------------------------------------
(* Type invariant *)

TypeOK ==
  /\ PolicyTypeOK
  /\ m_assignments \in Seq(Jobs)
  /\ m_mutex \in Threads \cup {NoThread}
  /\ index \in Nat \ {0} /\ level \in Nat \ {0} /\ agreed \in BOOLEAN
  /\ pc \in [Threads -> Busy \cup {"apply", "scan", "taken"}]
  /\ job \in [Threads -> Jobs \cup {NoJob}]
  /\ next \in [Threads -> Nat \ {0}]
  /\ main \in {"loop", "finish"}
  /\ events \in Seq(Jobs)
  /\ jobCounter \in [Collections -> Nat]
  /\ weaver \cup done \cup deleted \subseteq Collections
  /\ succeeded \subseteq finished /\ finished \cup runnersDone \subseteq Jobs

-----------------------------------------------------------------------------
(* Safety *)

\* An element is queued once, or executed by one thread, or neither, never
\* again after it was executed, and only on behalf of a collection that
\* still counts it.
ElementsExclusive ==
  /\ IsInjective(m_assignments)
  /\ \A t, u \in Threads : job[t] # NoJob /\ job[t] = job[u] => t = u
  /\ \A t \in Threads : job[t] \notin Queued
  /\ Queued \cap finished = {}
  /\ \A j \in Queued \ TopLevel :
        Parent(j) \in weaver /\ jobCounter[Parent(j)] > 0

\* The counter of a collection, set by a thread and decremented in the event
\* loop, is the number of elements whose runner has not ended or whose done()
\* is still on its way: no signal is lost, and none is counted twice.
CounterExact ==
  \A c \in Collections : jobCounter[c] # 0 =>
    jobCounter[c] = Cardinality({j \in Elements(c) :
                       j \notin runnersDone \/ j \in ToSet(events)})

\* An element of a sequence begins when all elements before it have been
\* executed with success, a collection among them with all its elements.
SequenceInOrder ==
  \A s \in Sequences : \A m, n \in 1..Len(elements[s]) :
    LET before == elements[s][m]  after == elements[s][n] IN
      m < n /\ (after \in finished \/ \E t \in Threads : job[t] = after)
        => before \in finished /\ Success(before)

\* JobCollection.h, done(): all of the jobs in the collection have completed
\* when it is emitted; they are not queued, and no thread has them.
DoneIsLast ==
  \A c \in done : \A j \in Elements(c) :
    /\ j \in finished /\ j \notin Queued
    /\ \A t \in Threads : job[t] = j => pc[t] \notin {"execute", "free"}

\* QueuePolicy.h: for every canRun that returns true, free or release is
\* called.  When nothing is queued, executed or running, no permission is
\* left with anybody.
PermissionsReturned ==
  m_assignments = <<>> /\ weaver = {} /\ (\A t \in Threads : pc[t] = "apply")
    => \A r \in Restrictions : customers[r] = <<>>

-----------------------------------------------------------------------------
(* Liveness *)

\* A collection that executes emits done(), if its elements can run: every
\* signal of a runner arrives and the last one is recognised.
CollectionCompletes ==
  \A c \in Collections : jobCounter[c] > 0 ~> c \in done

\* finish() returns, although it keeps the event loop from running: what
\* the queued elements wait for does not come through the event loop.
FinishReturns == main = "finish" ~> main = "loop"
=============================================================================
