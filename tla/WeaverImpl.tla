----------------------------- MODULE WeaverImpl ------------------------------
(***************************************************************************)
(* The ThreadWeaver job queue: WeaverImpl with its State objects, the      *)
(* Threads of its inventory (Thread, ThreadRunHelper) and the way they     *)
(* execute a Job (JobRunHelper), used by one or more application threads,  *)
(* the Clients.                                                            *)
(*                                                                         *)
(* Every process has a program counter.  A step is a section under one     *)
(* mutex, or one access to m_state, which no mutex protects.  m_mutex is   *)
(* held over several steps only by a thread that scans the queue: the      *)
(* policies it consults have mutexes of their own and change meanwhile.    *)
(***************************************************************************)
EXTENDS QueuePolicies

CONSTANTS
  Threads,          \* the Thread objects adjustInventory may create
  Clients,          \* application threads that call the weaver
  Owner,            \* the client that owns the weaver and deletes it
  NoJob, NoThread,  \* the null pointers
  priority,         \* Job::priority() of every job
  MayFail,          \* the jobs whose success() may be false
  InventoryMax,     \* m_inventoryMax after the constructor (4 in the code)
  Calls,            \* the methods the clients of an instance call
  MaxValues,        \* arguments of setMaximumNumberOfThreads
  CapValues         \* arguments of ResourceRestrictionPolicy::setCap

Procs == Threads \cup Clients

ASSUME ProcsDisjoint ==
  /\ Threads \cap Clients = {}
  /\ IsFiniteSet(Threads)
  /\ Owner \in Clients
  /\ NoThread \notin Procs
  /\ NoJob \notin Jobs

ASSUME JobConstants ==
  /\ priority \in [Jobs -> Int]
  /\ MayFail \subseteq Jobs

\* setMaximumNumberOfThreads asserts cap > 0.
ASSUME SizesAreNumbers ==
  /\ InventoryMax \in Nat \ {0}
  /\ MaxValues \subseteq Nat \ {0}
  /\ CapValues \subseteq Int

VARIABLES
  m_state,          \* the StateId of the current State object
  m_active,         \* number of threads that count as processing a job
  m_inventoryMax,   \* how many threads may be created
  m_inventory,      \* the threads created, oldest first
  m_assignments,    \* the job queue
  m_mutex,          \* the thread that scans the queue, or NoThread
  index,            \* its position in the queue
  pc,               \* where every thread and client is
  job,              \* the job a process handles: `next', `m_job', `job'
  policy,           \* a thread's position in the queuePolicies of the job
  joining,          \* the thread the destructor waits for
  finished,         \* jobs with Job::Private::finished
  succeeded,        \* those of them whose success() is true
  deleted           \* jobs the application has deleted

jobVars == <<finished, succeeded, deleted>>
poolVars == <<m_inventoryMax, m_inventory, joining>>
scanVars == <<m_mutex, index>>
vars == <<m_state, m_active, m_assignments, pc, job, policy,
          jobVars, poolVars, scanVars, policyVars>>

\* InConstruction is left before any thread exists.
StateIds == {"WorkingHard", "Suspending", "Suspended", "ShuttingDown",
             "Destructed"}

ThreadPcs == {"none", "apply", "take", "scan", "taken", "execute", "free",
              "jobDone", "decActive", "wait", "block", "sleep", "exited"}
ClientPcs == {"idle", "enqueue", "finishTest", "finishWait", "finishWaiting",
              "dtorWake", "dtorNext", "dtorJoin", "gone"}
SetStatePcs == {"activated", "suspCheck", "suspSet"}

Queued == ToSet(m_assignments)

\* A thread holds a job from takeFirstAvailableJob until it returns to
\* applyForWork.
Holding == {"taken", "execute", "free", "jobDone"}

\* The threads m_active stands for.
Counted == {"execute", "free", "jobDone", "decActive"}

Init ==
  /\ m_state = "WorkingHard"
  /\ m_active = 0
  /\ m_inventoryMax = InventoryMax
  /\ m_inventory = <<>>
  /\ m_assignments = <<>>
  /\ m_mutex = NoThread
  /\ index = 1
  /\ pc = [p \in Procs |-> IF p \in Threads THEN "none" ELSE "idle"]
  /\ job = [p \in Procs |-> NoJob]
  /\ policy = [t \in Threads |-> 1]
  /\ joining = NoThread
  /\ finished = {} /\ succeeded = {} /\ deleted = {}
  /\ PolicyInit

-----------------------------------------------------------------------------
(* Wait conditions and the steps of setState that threads and clients share *)

At(p, l) == pc[p] = l
Goto(p, l) == pc' = [pc EXCEPT ![p] = l]

\* m_jobAvailable.wakeAll() by p, which then continues at l.
WakeThreads(p, l) ==
  pc' = [q \in Procs |-> IF q = p THEN l
                         ELSE IF pc[q] = "sleep" THEN "apply" ELSE pc[q]]

\* m_jobFinished.wakeAll() by p, which then continues at l.
WakeFinish(p, l) ==
  pc' = [q \in Procs |->
           IF q = p THEN l
           ELSE IF pc[q] = "finishWaiting" THEN "finishTest" ELSE pc[q]]

MutexFree == m_mutex = NoThread

\* Where a process goes on when its setState has returned.
AfterSetState(p) == IF p \in Threads THEN "wait" ELSE "idle"

\* Mutant: the last thread alone completes suspend().
ActivatedUnchecked(p) ==
  /\ At(p, "activated")
  /\ \/ m_state = "WorkingHard" /\ WakeThreads(p, AfterSetState(p))
     \/ m_state # "WorkingHard" /\ Goto(p, AfterSetState(p))
  /\ UNCHANGED <<m_state, m_active, m_assignments, job, policy, jobVars,
                 poolVars, scanVars, policyVars>>

\* m_state->activated(), on the state that is current by now.
Activated(p) ==
  /\ At(p, "activated")
  /\ \/ m_state = "WorkingHard" /\ WakeThreads(p, AfterSetState(p))
     \/ m_state = "Suspending" /\ Goto(p, "suspCheck")
     \/ /\ m_state \notin {"WorkingHard", "Suspending"}
        /\ Goto(p, AfterSetState(p))
  /\ UNCHANGED <<m_state, m_active, m_assignments, job, policy, jobVars,
                 poolVars, scanVars, policyVars>>

\* if ( activeThreadCount() == 0 ) of SuspendingState.
SuspCheck(p) ==
  /\ At(p, "suspCheck") /\ MutexFree
  /\ Goto(p, IF m_active = 0 THEN "suspSet" ELSE AfterSetState(p))
  /\ UNCHANGED <<m_state, m_active, m_assignments, job, policy, jobVars,
                 poolVars, scanVars, policyVars>>

\* setState ( Suspended ), whatever the state is by now.
SuspSet(p) ==
  /\ At(p, "suspSet")
  /\ m_state' = "Suspended"
  /\ Goto(p, IF m_state = "Suspended" THEN AfterSetState(p) ELSE "activated")
  /\ UNCHANGED <<m_active, m_assignments, job, policy, jobVars, poolVars,
                 scanVars, policyVars>>

SetStateStep(p) == Activated(p) \/ SuspCheck(p) \/ SuspSet(p)

-----------------------------------------------------------------------------
(* The threads: applying for work *)

\* WeaverImpl::applyForWork hands over to the current state.
ApplyForWork(t) ==
  /\ At(t, "apply")
  /\ \/ m_state = "WorkingHard" /\ Goto(t, "take")
     \/ m_state = "Suspending" /\ Goto(t, "suspCheck")
     \/ m_state = "Suspended" /\ Goto(t, "wait")
     \/ m_state \in {"ShuttingDown", "Destructed"} /\ Goto(t, "exited")
  /\ UNCHANGED <<m_state, m_active, m_assignments, job, policy, jobVars,
                 poolVars, scanVars, policyVars>>

LockQueue(t) ==
  /\ At(t, "take") /\ MutexFree
  /\ m_mutex' = t
  /\ index' = 1
  /\ policy' = [policy EXCEPT ![t] = 1]
  /\ Goto(t, "scan")
  /\ UNCHANGED <<m_state, m_active, m_assignments, job, jobVars, poolVars,
                 policyVars>>

\* The job takeFirstAvailableJob looks at and its policies.
Scanned == m_assignments[index]
ScannedPolicies == queuePolicies[Scanned]
Scanning(t) == At(t, "scan") /\ index <= Len(m_assignments)

\* canBeExecuted: one policy agrees, the next one is asked.
PolicyAgrees(t) ==
  /\ Scanning(t) /\ policy[t] <= Len(ScannedPolicies)
  /\ canRun(ScannedPolicies[policy[t]], Scanned)
  /\ acquire(ScannedPolicies[policy[t]], Scanned)
  /\ policy' = [policy EXCEPT ![t] = @ + 1]
  /\ UNCHANGED <<m_state, m_active, m_assignments, pc, job, jobVars,
                 poolVars, scanVars>>

\* canBeExecuted: one refuses; the ones before it get the permission back
\* and the scan goes on to the next job.
PolicyRefuses(t) ==
  /\ Scanning(t) /\ policy[t] <= Len(ScannedPolicies)
  /\ ~canRun(ScannedPolicies[policy[t]], Scanned)
  /\ release({ScannedPolicies[n] : n \in 1..(policy[t] - 1)}, Scanned)
  /\ index' = index + 1
  /\ policy' = [policy EXCEPT ![t] = 1]
  /\ UNCHANGED <<m_state, m_active, m_assignments, pc, job, jobVars,
                 poolVars, m_mutex>>

\* Mutant: positions counted from 0.
WithoutPrevious == RemoveAt(m_assignments, index - 1)

\* m_assignments.removeAt (index).
WithoutScanned == RemoveAt(m_assignments, index)

\* All agree: the job leaves the queue, the mutex is released.
TakeJob(t) ==
  /\ Scanning(t) /\ policy[t] > Len(ScannedPolicies)
  /\ job' = [job EXCEPT ![t] = Scanned]
  /\ m_assignments' = WithoutScanned
  /\ m_mutex' = NoThread
  /\ index' = 1
  /\ policy' = [policy EXCEPT ![t] = 1]
  /\ Goto(t, "taken")
  /\ UNCHANGED <<m_state, m_active, jobVars, poolVars, policyVars>>

NothingAvailable(t) ==
  /\ At(t, "scan") /\ index > Len(m_assignments)
  /\ m_mutex' = NoThread
  /\ index' = 1
  /\ Goto(t, "wait")
  /\ UNCHANGED <<m_state, m_active, m_assignments, job, policy, jobVars,
                 poolVars, policyVars>>

\* Mutant: the job starts without being counted.
StartUncounted(t) ==
  /\ At(t, "taken") /\ MutexFree
  /\ Goto(t, "execute")
  /\ UNCHANGED <<m_state, m_active, m_assignments, job, policy, jobVars,
                 poolVars, scanVars, policyVars>>

\* incActiveThreadCount, in a section of m_mutex of its own.
IncActive(t) ==
  /\ At(t, "taken") /\ MutexFree
  /\ m_active' = m_active + 1
  /\ Goto(t, "execute")
  /\ UNCHANGED <<m_state, m_assignments, job, policy, jobVars, poolVars,
                 scanVars, policyVars>>

\* m_state->waitForAvailableJob: the last two states return at once, and
\* the thread applies again.
WaitForAvailableJob(t) ==
  /\ At(t, "wait")
  /\ Goto(t, IF m_state \in {"ShuttingDown", "Destructed"}
             THEN "apply" ELSE "block")
  /\ UNCHANGED <<m_state, m_active, m_assignments, job, policy, jobVars,
                 poolVars, scanVars, policyVars>>

\* m_jobAvailable.wait, without a predicate to test first.
Block(t) ==
  /\ At(t, "block")
  /\ Goto(t, "sleep")
  /\ UNCHANGED <<m_state, m_active, m_assignments, job, policy, jobVars,
                 poolVars, scanVars, policyVars>>

-----------------------------------------------------------------------------
(* The threads: executing a job *)

\* job->run() returns and the job is marked finished.
RunJob(t) ==
  /\ At(t, "execute")
  /\ finished' = finished \cup {job[t]}
  /\ \/ succeeded' = succeeded \cup {job[t]}
     \/ job[t] \in MayFail /\ succeeded' = succeeded
  /\ Goto(t, "free")
  /\ UNCHANGED <<m_state, m_active, m_assignments, job, policy, deleted,
                 poolVars, scanVars, policyVars>>

\* freeQueuePolicyResources, one policy at a time.
FreePolicy(t) ==
  /\ At(t, "free") /\ policy[t] <= Len(queuePolicies[job[t]])
  /\ free(queuePolicies[job[t]][policy[t]], job[t], job[t] \in succeeded)
  /\ policy' = [policy EXCEPT ![t] = @ + 1]
  /\ UNCHANGED <<m_state, m_active, m_assignments, pc, job, jobVars,
                 poolVars, scanVars>>

\* Mutant: done() is emitted before the policies are freed.
EmitDoneEarly(t) ==
  /\ At(t, "free")
  /\ policy' = [policy EXCEPT ![t] = 1]
  /\ Goto(t, "jobDone")
  /\ UNCHANGED <<m_state, m_active, m_assignments, job, jobVars, poolVars,
                 scanVars, policyVars>>

\* emit done( job ); the thread's m_job still points to it.
EmitDone(t) ==
  /\ At(t, "free") /\ policy[t] > Len(queuePolicies[job[t]])
  /\ policy' = [policy EXCEPT ![t] = 1]
  /\ Goto(t, "jobDone")
  /\ UNCHANGED <<m_state, m_active, m_assignments, job, jobVars, poolVars,
                 scanVars, policyVars>>

\* m_job = 0 at the head of the loop of ThreadRunHelper::run.
ForgetJob(t) ==
  /\ At(t, "jobDone")
  /\ job' = [job EXCEPT ![t] = NoJob]
  /\ Goto(t, "decActive")
  /\ UNCHANGED <<m_state, m_active, m_assignments, policy, jobVars, poolVars,
                 scanVars, policyVars>>

\* Mutant: the count never returns to 0.
DecActiveNotToZero(t) ==
  /\ At(t, "decActive") /\ MutexFree
  /\ m_active' = IF m_active > 1 THEN m_active - 1 ELSE m_active
  /\ WakeFinish(t, "apply")
  /\ UNCHANGED <<m_state, m_assignments, job, policy, jobVars, poolVars,
                 scanVars, policyVars>>

\* decActiveThreadCount.  The wake-up that follows the section of m_mutex
\* is part of the step: a client it wakes later could time out meanwhile.
DecActive(t) ==
  /\ At(t, "decActive") /\ MutexFree
  /\ m_active' = m_active - 1
  /\ WakeFinish(t, "apply")
  /\ UNCHANGED <<m_state, m_assignments, job, policy, jobVars, poolVars,
                 scanVars, policyVars>>

Worker(t) ==
  \/ ApplyForWork(t) \/ LockQueue(t) \/ PolicyAgrees(t) \/ PolicyRefuses(t)
  \/ TakeJob(t) \/ NothingAvailable(t) \/ IncActive(t)
  \/ WaitForAvailableJob(t) \/ Block(t)
  \/ RunJob(t) \/ FreePolicy(t) \/ EmitDone(t) \/ ForgetJob(t) \/ DecActive(t)
  \/ SetStateStep(t)

-----------------------------------------------------------------------------
(* The clients *)

DtorPcs == {"dtorWake", "dtorNext", "dtorJoin", "gone"}

\* A client begins a call.  Nobody calls a weaver that is being deleted.
Calling(c, method) ==
  /\ method \in Calls
  /\ At(c, "idle")
  /\ pc[Owner] \notin DtorPcs

\* A job may be queued again after it was dequeued, not after it ran.
Fresh(j) ==
  /\ j \notin Queued \cup finished \cup deleted
  /\ \A p \in Procs : job[p] # j

\* enqueue, first half: adjustInventory ( 1 ).
AdjustInventory(c, j) ==
  /\ Calling(c, "enqueue") /\ MutexFree /\ Fresh(j)
  /\ job' = [job EXCEPT ![c] = j]
  /\ \/ /\ m_inventoryMax - Len(m_inventory) > 0
        /\ \E t \in Threads :
              /\ At(t, "none")
              /\ m_inventory' = Append(m_inventory, t)
              /\ pc' = [pc EXCEPT ![t] = "apply", ![c] = "enqueue"]
     \/ /\ m_inventoryMax - Len(m_inventory) <= 0
        /\ Goto(c, "enqueue")
        /\ UNCHANGED m_inventory
  /\ UNCHANGED <<m_state, m_active, m_assignments, policy, jobVars,
                 m_inventoryMax, joining, scanVars, policyVars>>

\* Mutant: in front of the jobs of the same priority.
BeforeEquals(i, j) ==
  /\ i > 0 => priority[m_assignments[i]] > priority[j]
  /\ \A k \in (i + 1)..Len(m_assignments) :
        priority[m_assignments[k]] <= priority[j]

\* The job goes behind the last one with the same or a higher priority.
InsertionPoint(i, j) ==
  /\ i > 0 => priority[m_assignments[i]] >= priority[j]
  /\ \A k \in (i + 1)..Len(m_assignments) :
        priority[m_assignments[k]] < priority[j]

\* enqueue, second half, with assignJobs().
Enqueue(c) ==
  /\ At(c, "enqueue") /\ MutexFree
  /\ \E i \in 0..Len(m_assignments) :
        /\ InsertionPoint(i, job[c])
        /\ m_assignments' = InsertAt(m_assignments, i + 1, job[c])
  /\ job' = [job EXCEPT ![c] = NoJob]
  /\ WakeThreads(c, "idle")
  /\ UNCHANGED <<m_state, m_active, policy, jobVars, poolVars, scanVars,
                 policyVars>>

\* dequeue ( job ), with m_jobFinished.wakeOne().
Dequeue(c, j) ==
  /\ Calling(c, "dequeue") /\ MutexFree
  /\ j \in Queued
  /\ m_assignments' = RemoveFirst(m_assignments, j)
  /\ LET waiting == {d \in Clients : At(d, "finishWaiting")} IN
        \/ waiting = {} /\ UNCHANGED pc
        \/ \E d \in waiting : Goto(d, "finishTest")
  /\ UNCHANGED <<m_state, m_active, job, policy, jobVars, poolVars, scanVars,
                 policyVars>>

\* dequeue ().
DequeueAll(c) ==
  /\ Calling(c, "dequeueAll") /\ MutexFree
  /\ m_assignments # <<>>
  /\ m_assignments' = <<>>
  /\ UNCHANGED <<m_state, m_active, pc, job, policy, jobVars, poolVars,
                 scanVars, policyVars>>

SetMaximumNumberOfThreads(c, n) ==
  /\ Calling(c, "setMaximumNumberOfThreads") /\ MutexFree
  /\ m_inventoryMax' = n
  /\ UNCHANGED <<m_state, m_active, m_assignments, pc, job, policy, jobVars,
                 m_inventory, joining, scanVars, policyVars>>

SetCap(c, r, n) ==
  /\ Calling(c, "setCap")
  /\ setCap(r, n)
  /\ UNCHANGED <<m_state, m_active, m_assignments, pc, job, policy, jobVars,
                 poolVars, scanVars>>

\* The application may delete a job that is not queued, and one that was
\* executed as soon as done() has been emitted.
DeleteJob(c, j) ==
  /\ Calling(c, "deleteJob")
  /\ j \notin Queued \cup deleted
  /\ \A p \in Procs : job[p] = j => At(p, "jobDone")
  /\ destructed(j)
  /\ deleted' = deleted \cup {j}
  /\ UNCHANGED <<m_state, m_active, m_assignments, pc, job, policy, finished,
                 succeeded, poolVars, scanVars>>

\* suspend() is ignored in every other state.
Suspend(c) ==
  /\ Calling(c, "suspend") /\ c = Owner
  /\ m_state = "WorkingHard"
  /\ m_state' = "Suspending"
  /\ Goto(c, "activated")
  /\ UNCHANGED <<m_active, m_assignments, job, policy, jobVars, poolVars,
                 scanVars, policyVars>>

Resume(c) ==
  /\ Calling(c, "resume") /\ c = Owner
  /\ m_state \in {"Suspending", "Suspended"}
  /\ m_state' = "WorkingHard"
  /\ Goto(c, "activated")
  /\ UNCHANGED <<m_active, m_assignments, job, policy, jobVars, poolVars,
                 scanVars, policyVars>>

-----------------------------------------------------------------------------
(* finish() *)

IsIdle == m_assignments = <<>> /\ m_active = 0

Finish(c) ==
  /\ Calling(c, "finish")
  /\ Goto(c, "finishTest")
  /\ UNCHANGED <<m_state, m_active, m_assignments, job, policy, jobVars,
                 poolVars, scanVars, policyVars>>

FinishTest(c) ==
  /\ At(c, "finishTest") /\ MutexFree
  /\ Goto(c, IF IsIdle THEN "idle" ELSE "finishWait")
  /\ UNCHANGED <<m_state, m_active, m_assignments, job, policy, jobVars,
                 poolVars, scanVars, policyVars>>

FinishWait(c) ==
  /\ At(c, "finishWait")
  /\ Goto(c, "finishWaiting")
  /\ UNCHANGED <<m_state, m_active, m_assignments, job, policy, jobVars,
                 poolVars, scanVars, policyVars>>

\* Mutant: the client tests again and wakes nobody.
TimeoutWithoutWake(c) ==
  /\ At(c, "finishWaiting")
  /\ Goto(c, "finishTest")
  /\ UNCHANGED <<m_state, m_active, m_assignments, job, policy, jobVars,
                 poolVars, scanVars, policyVars>>

\* After MaxWaitMilliSeconds all threads are woken, to be sure.
FinishTimeout(c) ==
  /\ At(c, "finishWaiting")
  /\ WakeThreads(c, "finishTest")
  /\ UNCHANGED <<m_state, m_active, m_assignments, job, policy, jobVars,
                 poolVars, scanVars, policyVars>>

-----------------------------------------------------------------------------
(* ~WeaverImpl *)

ShutDown(c) ==
  /\ Calling(c, "delete") /\ c = Owner
  /\ \A d \in Clients : At(d, "idle")
  /\ m_state' = "ShuttingDown"
  /\ Goto(c, "dtorWake")
  /\ UNCHANGED <<m_active, m_assignments, job, policy, jobVars, poolVars,
                 scanVars, policyVars>>

DtorWake(c) ==
  /\ At(c, "dtorWake")
  /\ WakeThreads(c, "dtorNext")
  /\ UNCHANGED <<m_state, m_active, m_assignments, job, policy, jobVars,
                 poolVars, scanVars, policyVars>>

DtorNext(c) ==
  /\ At(c, "dtorNext")
  /\ m_inventory # <<>>
  /\ joining' = Head(m_inventory)
  /\ m_inventory' = Tail(m_inventory)
  /\ Goto(c, "dtorJoin")
  /\ UNCHANGED <<m_state, m_active, m_assignments, job, policy, jobVars,
                 m_inventoryMax, scanVars, policyVars>>

\* Mutant: one wait( 100 ), whether it succeeds or not.
JoinOnce(c) ==
  /\ At(c, "dtorJoin")
  /\ joining' = NoThread
  /\ Goto(c, "dtorNext")
  /\ UNCHANGED <<m_state, m_active, m_assignments, job, policy, jobVars,
                 m_inventoryMax, m_inventory, scanVars, policyVars>>

\* th->isFinished(), or th->wait( 100 ) that succeeds.
DtorJoined(c) ==
  /\ At(c, "dtorJoin")
  /\ At(joining, "exited")
  /\ joining' = NoThread
  /\ Goto(c, "dtorNext")
  /\ UNCHANGED <<m_state, m_active, m_assignments, job, policy, jobVars,
                 m_inventoryMax, m_inventory, scanVars, policyVars>>

\* Mutant: it waits without waking them again.
JoinWithoutWake(c) ==
  /\ At(c, "dtorJoin")
  /\ ~At(joining, "exited")
  /\ UNCHANGED vars

\* The thread has not exited yet: wake all and wait another 100 ms.
DtorRetry(c) ==
  /\ At(c, "dtorJoin")
  /\ ~At(joining, "exited")
  /\ WakeThreads(c, "dtorJoin")
  /\ UNCHANGED <<m_state, m_active, m_assignments, job, policy, jobVars,
                 poolVars, scanVars, policyVars>>

DtorEnd(c) ==
  /\ At(c, "dtorNext")
  /\ m_inventory = <<>>
  /\ m_state' = "Destructed"
  /\ Goto(c, "gone")
  /\ UNCHANGED <<m_active, m_assignments, job, policy, jobVars, poolVars,
                 scanVars, policyVars>>

-----------------------------------------------------------------------------
(* The steps of a client that is inside a call, and the calls. *)

ClientStep(c) ==
  \/ Enqueue(c)
  \/ FinishTest(c) \/ FinishWait(c) \/ FinishTimeout(c)
  \/ DtorWake(c) \/ DtorNext(c) \/ DtorJoined(c) \/ DtorRetry(c) \/ DtorEnd(c)
  \/ SetStateStep(c)

ClientCall(c) ==
  \/ \E j \in Jobs : AdjustInventory(c, j) \/ Dequeue(c, j) \/ DeleteJob(c, j)
  \/ \E n \in MaxValues : SetMaximumNumberOfThreads(c, n)
  \/ \E r \in Restrictions, n \in CapValues : SetCap(c, r, n)
  \/ DequeueAll(c) \/ Suspend(c) \/ Resume(c) \/ Finish(c) \/ ShutDown(c)

Next ==
  \/ \E t \in Threads : Worker(t)
  \/ \E c \in Clients : ClientStep(c) \/ ClientCall(c)

Spec == Init /\ [][Next]_vars

\* A thread runs on, job->run() returns, a mutex that is released again and
\* again is obtained at last; a client finishes a call it has begun, but
\* need not begin one.
Fairness ==
  /\ \A t \in Threads : SF_vars(Worker(t))
  /\ \A c \in Clients : SF_vars(ClientStep(c))

FairSpec == Spec /\ Fairness

-----------------------------------------------------------------------------
(* Type invariant *)

TypeOK ==
  /\ PolicyTypeOK
  /\ m_state \in StateIds
  /\ m_active \in Nat
  /\ m_inventoryMax \in Nat \ {0}
  /\ m_inventory \in Seq(Threads)
  /\ m_assignments \in Seq(Jobs)
  /\ m_mutex \in Threads \cup {NoThread}
  /\ index \in Nat \ {0}
  /\ pc \in [Procs -> ThreadPcs \cup ClientPcs \cup SetStatePcs]
  /\ \A t \in Threads : pc[t] \in ThreadPcs \cup SetStatePcs
  /\ \A c \in Clients : pc[c] \in ClientPcs \cup SetStatePcs
  /\ job \in [Procs -> Jobs \cup {NoJob}]
  /\ policy \in [Threads -> Nat \ {0}]
  /\ joining \in Threads \cup {NoThread}
  /\ finished \subseteq Jobs
  /\ succeeded \subseteq finished
  /\ deleted \subseteq Jobs

-----------------------------------------------------------------------------
(* Safety *)

\* Whatever the order of enqueue, dequeue and takeFirstAvailableJob: a job is
\* in the queue once or in the hands of one process, never both, and a job
\* that was executed is neither queued nor executed again.
JobsAreExclusive ==
  /\ IsInjective(m_assignments)
  /\ \A p, q \in Procs : job[p] # NoJob /\ job[p] = job[q] => p = q
  /\ \A p \in Procs : job[p] \notin Queued
  /\ Queued \cap (finished \cup deleted) = {}
  /\ \A p \in Procs : job[p] \in finished => pc[p] \in {"free", "jobDone"}

\* m_active is exactly the number of threads between incActiveThreadCount
\* and decActiveThreadCount: no thread is forgotten and none counted twice,
\* though the two calls are far apart.
ActiveCountExact ==
  m_active = Cardinality({t \in Threads : pc[t] \in Counted})

\* A restriction lists a job once, and exactly the jobs that were let
\* through and have not given the permission back: the one job being
\* scanned, and the ones held by threads, as far as freeQueuePolicyResources
\* has not got to the restriction yet.  Nothing leaks.
HoldsPermission(r, j) ==
  \/ /\ m_mutex # NoThread
     /\ index <= Len(m_assignments) /\ Scanned = j
     /\ \E n \in 1..(policy[m_mutex] - 1) : ScannedPolicies[n] = r
  \/ \E t \in Threads :
        /\ job[t] = j
        /\ \/ pc[t] \in {"taken", "execute"} /\ r \in ToSet(queuePolicies[j])
           \/ /\ pc[t] = "free"
              /\ \E n \in policy[t]..Len(queuePolicies[j]) :
                    queuePolicies[j][n] = r

PermissionsExact ==
  \A r \in Restrictions :
    /\ IsInjective(customers[r])
    /\ ToSet(customers[r]) = {j \in Jobs : HoldsPermission(r, j)}

\* However the cap is raised and lowered meanwhile, never do more jobs hold
\* the permission of a restriction (the one being scanned and those being
\* executed) than the largest cap it ever had.
CapRespected ==
  \A r \in Restrictions :
    \E n \in CapValues \cup {InitialCap[r]} :
      Cardinality({j \in Jobs : HoldsPermission(r, j)}) <= n

\* A job that a thread is about to execute or executes depends on no job
\* that is still to run, is running or has failed: each one has succeeded or
\* has been deleted, also when it was dequeued in between.
DependenciesHonoured ==
  \A t \in Threads : pc[t] \in {"taken", "execute"} =>
    \A d \in InitialDependencies :
      d[1] = job[t] => d[2] \in succeeded \cup deleted

\* When ~WeaverImpl has returned no thread that was ever started can touch
\* the weaver or hold a job any more.
DestructorLeavesNoThread ==
  At(Owner, "gone") =>
    \A t \in Threads : pc[t] \in {"none", "exited"} /\ job[t] = NoJob

-----------------------------------------------------------------------------
(* Action properties *)

Precedes(q, x, y) ==
  \E m, n \in 1..Len(q) : m < n /\ q[m] = x /\ q[n] = y

\* Priorities with first come, first served among equals: the jobs that stay
\* in the queue keep their order, and a new one comes behind exactly the
\* ones whose priority is not lower than its own.
QueueOrder ==
  [][LET stay == Queued \cap Queued' IN
       /\ \A x, y \in stay :
            Precedes(m_assignments, x, y) <=> Precedes(m_assignments', x, y)
       /\ \A x \in Queued' \ Queued, y \in stay :
            Precedes(m_assignments', y, x) <=> priority[y] >= priority[x]]_vars

-----------------------------------------------------------------------------
(* Liveness *)

\* Nothing a job in the queue waits for is missing: it is queued itself, or
\* a thread has it.
NothingMissing ==
  \A d \in dependencies : d[1] \in Queued =>
    d[2] \in Queued \/ \E t \in Threads : job[t] = d[2]

\* The weaver works or ends, and no thread is still on its way to Suspended.
Settled ==
  /\ m_state \in {"WorkingHard", "ShuttingDown"}
  /\ \A t \in Threads : pc[t] \notin SetStatePcs

\* finish() returns when all jobs it waits for can run, in spite of the
\* wake-ups m_jobAvailable may lose between the search of a thread for a job
\* and its wait: the timeout of finish() makes up for them.
FinishReturns ==
  \A c \in Clients :
    At(c, "finishTest") /\ NothingMissing /\ Settled ~> At(c, "idle")

\* suspend() does not hang in Suspending: the last thread that finishes its
\* job, or the call itself, completes it.
SuspendCompletes == m_state = "Suspending" ~> m_state # "Suspending"

\* The destructor ends: every thread is told to exit, also the ones that
\* were on their way into m_jobAvailable.wait when it woke all threads.
DestructorEnds == At(Owner, "dtorWake") /\ Settled ~> At(Owner, "gone")

-----------------------------------------------------------------------------
(* What the documentation says and the code does not do *)

\* WeaverImpl.h, applyForWork: a thread is suspended until jobs are
\* available.  With a free thread, a job that can run is taken.
QueuedJobIsTaken ==
  \A j \in Jobs :
    j \in Queued /\ m_state = "WorkingHard" /\ NothingMissing
      ~> j \notin Queued \/ m_state # "WorkingHard"

-----------------------------------------------------------------------------
(* Refinement *)

Stage(j) ==
  CASE j \in deleted -> "deleted"
    [] j \in finished \ deleted -> IF j \in succeeded THEN "succeeded" ELSE "failed"
    [] j \in Queued -> "queued"
    [] \E t \in Threads : job[t] = j /\ j \notin finished \cup deleted -> "running"
    [] OTHER -> "idle"

Scheduling == INSTANCE JobScheduling WITH
  DependsOn    <- InitialDependencies,
  RestrictedBy <- [j \in Jobs |-> ToSet(queuePolicies[j]) \cap Restrictions],
  InitialLimit <- InitialCap,
  status       <- [j \in Jobs |-> Stage(j)],
  permitted    <- [r \in Restrictions |-> ToSet(customers[r])],
  limit        <- cap

\* The queue, the scan under m_mutex, the policies and the threads together
\* do what JobScheduling promises.
ImplementsScheduling == Scheduling!SchedulingSpec
=============================================================================
