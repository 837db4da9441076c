# A verification project for kdelibs: ThreadWeaver, lock files, the io-slave scheduler, the directory cache

This directory holds TLA+ models of parts of this repository (kdelibs 4), the
TLC configurations that check them on small instances, and theorems about them
that TLAPS proves for every value of the constants. `PROJECT.json` is the index:
components, runs, the source lines every definition stands for, findings,
hazards, theorems.

## 1. Inventory

kdelibs is a collection of libraries and daemons. The parts whose own logic is
about order, concurrency or failure, with what they keep and how they interact:

| Component | State | Operations | What is hard |
|---|---|---|---|
| **ThreadWeaver queue** `threadweaver/Weaver` (`WeaverImpl`, the `State` classes, `Thread`, `Job`) | job queue, thread inventory, number of active threads, state object | enqueue, dequeue, suspend, resume, finish, setMaximumNumberOfThreads, destructor; a loop in every thread | three conditions and several mutexes, a state pointer nobody locks, jobs the application deletes |
| **ThreadWeaver policies** (`DependencyPolicy`, `ResourceRestrictionPolicy`) | a global multimap of dependencies; customers and cap per restriction | canRun, release, free, destructed, setCap, addDependency, removeDependency | called under the queue's mutex and outside it, partial acquisition |
| **ThreadWeaver collections** (`JobCollection`, `JobSequence`) | elements, counter of unfinished ones, pointer to the weaver | execute, stop, jobRunnerDone, aboutToBe(De)Queued | a job that enqueues and dequeues jobs, failure in the middle |
| **KIO scheduler, slaves** (`kio/kio/scheduler.cpp`, `slave.cpp`, `slaveinterface.cpp`, `slavebase.cpp`) | new and queued jobs; idle, active, connected slaves and the one on hold | doJob, scheduleJob, assignJobToSlave, cancelJob, startStep, getConnectedSlave, putSlaveOnHold | slaves that die at any moment, answers still under way when a job is killed, slots of a limited pool |
| KIO jobs (`job.cpp`, `copyjob.cpp`) | sub-jobs, a state machine per job | slots of sub-jobs, skip and overwrite, suspend, kill | errors and user answers at every stage |
| **KDirLister, KDirWatch** (`kio/kio/kdirlister.cpp`, `kdirlister_p.h`, `kdirwatch.cpp`) | directories in use and in the cache with their watch counts; listers that list or hold one; list jobs | openUrl, stop, updateDirectory, setAutoUpdate, destructor; slots of list jobs, watches and notifications | updates and deletions while a listing runs, listers that share its job, items posted through the event loop |
| **Lock files** (`kdecore/io/klockfile_unix.cpp`) | the lock file, its links and temporary files; what a waiter remembers of it | lock with and without NoBlock and Force, unlock | several processes on one directory, crashes between system calls, inodes that are used again |
| kdecore jobs and other files | KJob flags; temporary files | kill, suspend, emitResult; finalize | crash between two steps of a file operation |
| klauncher, kded, sycoca | request list, idle slaves; modules; database file | D-Bus calls, timers, child exits | start-up notification and failure, rebuild while read |
| cookie jar, khtml object cache | cookies with pending requests; LRU lists with references | lookups, advice, eviction | reentrancy |
| everything else (khtml's engine, kjs, widgets, kate, wrappers of services, build files) | | | sequential computation, I/O, user interface |

The application calls the weaver; the weaver creates threads; each thread calls
`WeaverImpl::applyForWork`, which goes through the current `State`; the queue
asks the policies of a job (`Job::canBeExecuted`) under the queue's mutex; the
thread executes the job and gives its resources back to the policies
(`Job::freeQueuePolicyResources`) without that mutex; the application learns of
the end by the signal `done` and may delete the job, which calls the policies
again.

A `SimpleJob` registers with the scheduler (`doJob`, `scheduleJob`), which gives it
a slave when it finds or may start one; the slave reads commands and writes
messages on a connection; what it answers ends the job and gives the slave back
(`jobFinished`), and its end reaches `slotSlaveDied`. A `KDirLister` asks the one
`KDirListerCache` of the process, which starts `ListJob`s (jobs of the scheduler),
watches directories through `KDirWatch` and hears of changes through `KDirNotify`.
Processes that lock the same file share nothing but the file system.

What makes the components correct:

* queue: a job is queued or executed once, never both; jobs start by priority,
  then by age; the number of active threads is exact; `finish` and `suspend`
  return and mean what they say; the destructor leaves no thread behind;
* policies: no job starts before the ones it depends on have succeeded; no
  restriction is exceeded; every permission that was given comes back;
* collections: every element is executed at most once, in order where it is a
  sequence; `done` comes after the last element; the counter matches the signals
  on their way; permissions come back; a failing sequence leaves nothing in the
  queue;
* lock files: one owner at a time, also when others crash; the lock of a crashed
  owner is noticed and broken only by who asked for it;
* scheduler: no slave and no job is lost or in two places; no job gets the answer
  to another one; slots come back; every job ends;
* directory lister: the cache knows its listers; directories are watched exactly
  while someone needs it; each view shows what the cache has; what counts as
  complete is up-to-date; every listing ends.

The hazards, at their lines, are in `PROJECT.json`, each with the properties that
would catch it; a note says why where there is none.

## 2. Modules

    QueuePolicies       the policies: what canRun, release, free and destructed do
      WeaverImpl        the queue, the states, the threads and their clients
        MCWeaverImpl    the instance for TLC (constants, symmetry)
        WeaverImplProofs  its invariant, the destructor, what the policies guarantee in it,
                        the order of the queue; WeaverImpl implements JobScheduling
                        (also EXTENDS SequenceLemmas)
    JobScheduling       the abstract specification WeaverImpl implements
      JobCollection     job collections and sequences on a reduced queue
        MCJobCollection the instances for TLC
        JobCollectionProofs  its invariants (also EXTENDS SequenceLemmas)
    QtLists             QList::removeAll (used by JobCollection and Scheduler)
    SequenceLemmas      facts about lists, least numbers and sums that the proofs share
    KLockFile           the system calls of lock and unlock of several processes
      MCKLockFile       the instances for TLC
      KLockFileProofs   types, mutual exclusion, KLockFile implements CrashableLock
    CrashableLock       the abstract specification KLockFile implements
    Scheduler           the scheduler of KIO for one protocol, its jobs and slaves
      MCScheduler       the instances for TLC
      SchedulerProofs   types, what startStep may do with a job, its safety properties
    DirListerCache      the cache of directories with its listers and jobs
      MCDirListerCache  the instances for TLC
      DirListerCacheProofs  types, registry, watches (also uses FoldLemmas)
        DirListerCacheJobs  the jobs and the listers that wait for them
    FoldLemmas          what FoldSet keeps, for any operation and any invariant

### QueuePolicies

`dependencies` is the multimap of `DependencyPolicy` as a set of pairs <<a, b>>, a
waits for b. `customers` and `cap` are the fields of every restriction. Each method
of a policy holds the mutex of the policy for its whole body, so each is one step.
`canRun` is the answer and `acquire` the effect of an answer that is true.
`destructed` differs from `free`: it runs in `~Job`, where `success()` is already
the one of the base class, which returns true, so the dependents of a failed
job are released when the job is deleted.

### WeaverImpl

`m_state`, `m_active`, `m_inventoryMax`, `m_inventory`, `m_assignments` are the
members of that name. `m_mutex` is the recursive queue mutex; it is a variable
because a thread holds it over several steps while it asks the policies of one job
after another, which other threads change meanwhile. All other sections of
`m_mutex` are one step and need `MutexFree`. `pc`, `job`, `policy`, `index`,
`joining` are program counters and locals. `finished` is `Job::Private::finished`,
`succeeded` the answer of `success()`.

A thread goes

    apply -> take -> scan -> taken -> execute -> free -> jobDone -> decActive -> apply
       \-> (scan finds nothing) wait -> block -> sleep -> (woken) apply

with `applyForWork`, `waitForAvailableJob` dispatched on the value `m_state` has at
that moment, since no lock protects it. The two sections of `m_mutex` in
`WorkingHardState::applyForWork` (take the job, count it) are two steps, and so
are the read of the active count and the write of `Suspended` in
`SuspendingState`. A client is any application thread: it queues and dequeues jobs,
deletes them, changes a cap or the maximum, and calls `finish`; the `Owner` also
calls suspend, resume and the destructor.

Choices that matter:

* `blockThreadUntilJobsAreBeingAssigned` is a step before the wait (`block`) and the
  wait (`sleep`): wake-ups in between are lost, as `QWaitCondition` loses them.
* The destructor's `wait( 100 )` and the timeout of `finish` are steps that may
  happen at any time while the process waits: time is not modelled.
* `m_jobFinished.wakeAll()` of `decActiveThreadCount` is one step with the change of
  the count. What a client could do between the two, a timeout allows as well.
* `setState` compares and assigns in one step. Two processes in it at once write the
  same values in either order.
* The constructor has returned: no thread exists in `InConstruction`, so `Init` is
  the state after `setState ( WorkingHard )`.
* Nobody else is in a call when the destructor begins, and no calls are made after:
  the class promises nothing otherwise.
* The application deletes a job when it has nothing to do with the weaver (never
  queued, dequeued) or after its `done`; it does not queue a job that has run.

### JobScheduling

What the queue promises, without a queue, threads or mutexes: a job is idle, queued,
running, succeeded or failed, or deleted; it starts when what it depends on is resolved and every
restriction lets it through. Only the order in which the jobs of the queue start is
not part of it (`QueueOrder` says it). `WeaverImpl` implements it under the mapping
at the end of the module: `status` from the queue, the threads and the sets of
finished jobs; `permitted` from `customers`; permissions are taken and given back
one by one, as the scan and `freeQueuePolicyResources` do.

### JobCollection

A collection is a job that queues its other elements when it executes, executes its
first element itself, and ends when `jobRunnerDone` has counted the `done` signals
of all runners. `weaver` is the set of collections whose `d->weaver` is set,
`jobCounter`, `finished` and `m_assignments` are the members of that name,
`succeeded` the answer of `success()`, `runnersDone` the runners that are finished
themselves. A thread goes

    apply -> scan -> taken -> execute -> free -> returned -> apply               (a job)
                     execute -> queueing -> execute of the first element         (a collection)
                     returned -> [stop] -> runnerDone -> returned                (an element)

so that the nesting of `execute` calls needs no stack: whoever returns is either the
first element of a collection, which then returns as well, or was taken from the
queue.

Choices that matter:

* An element and its `JobCollectionJobRunner` are one job: the runner
  forwards every question and only adds the call of `internalJobDone` and its own
  `done`. That signal crosses threads, so Qt posts it: `events` is the queue of the
  main thread, and `JobRunnerDone` delivers its head when `main` is in the event loop
  and no thread holds the mutex of the collection (`Locked`).
* `main` is the application's thread. In `finish` it does not run its event loop.
* The queue is the one of `WeaverImpl` without priorities, states and wake-ups: a
  thread without a job searches again. The policies of one job are asked in one
  step; `Asked` is the chain of jobs `canBeExecuted` goes through for a collection:
  the first element, which may be a collection, before the collection itself.
  `m_active` is the number of threads that are `Busy`, which `WeaverImpl` proves of
  the real counter (`ActiveCount`).
* Elements are a constant: `addJob` is for a collection that is not queued. An element
  belongs to one collection and the nesting ends (`CollectionsNest`): `addJob` takes a
  job that is complete, and the proofs follow a chain of first elements to its end.
  The elements of a sequence have the `DependencyPolicy` (`SequencePolicies`), since
  `JobSequence::aboutToBeQueued` adds dependencies that assign it to both jobs.
* The application queues top-level jobs once, dequeues what is queued, and deletes a
  collection after its `done` or when no job is queued or executed; the runners of
  a deleted collection disappear with their posted signals, as a QObject's do.

### KLockFile and CrashableLock

A name in the directory is a file or none; a file is its inode and the process
that wrote its pid into it. Every system call with what is computed from its
answer is a step of `pc[p]`; `call[p]` are the locals of `lock` and its
callees, `d[p]` the members of `KLockFile::Private`. `Crash` ends a process
between any two of its steps and leaves its files behind. Inodes without a name
are used again (`Free`), which is what `deleteStaleLock` worries about.

    lstat -> create -> link -> lstatUnique -> lstatLock -> [testLink..] -> removeUnique -> LockOK
    lstat (busy) -> readPid -> judge -> ReportStale, or: break -> statTemp -> statLock
                 -> unlinkLock -> unlinkTemp, or without link counts forceTemp -> forceLock

* On `"posix"` a hard link is a second name of the inode; on `"smbfs"`, which the
  code tests for in `testLinkCountSupport`, it is a copy and the link count stays 1.
* `TimePasses` is the moment from which `staleTimer` exceeds `staleTime`; `Late`
  says for whom it may come. The sleep between two attempts is not a state: other
  processes take steps anyway.
* `HardErrors` bounds the errors a call survives (5 in the code, 1 in the runs).
* `ForcerSets` chooses who calls `lock ( ForceFlag )`. With forcers the lock is
  not exclusive (the finding `stale_lock`), so that `MutualExclusion` and
  `ImplementsLock` speak of the others.

`CrashableLock` is what is left without files: acquire, be told so, release, and crash;
without force the lock of who has crashed stays his. A lock whose `lock()` returned `LockError` after
the link succeeded is acquired and never granted.

### Scheduler

`d` are the members of `SchedulerPrivate` and of the one `ProtocolInfo`; `job` the
`SimpleJob`s with their `m_slave`; `slave` each `Slave` object with its process and
connection. Lists the code may enter twice are counted (`activeSlaves`), so that a
double entry would show. The application has one thread: a call or an event handler
is a step, except `startStep` (`inStep`), which is one step per direct job and one for
the queue. A process executes its commands in order (`todo`), waits in `mimeType()` when
its job is put on hold (`phase`), and its messages arrive in order (`out`); it may
crash (`Crash`), which is noticed later (`SlaveDied`). `startJobScheduled` looks at the first
`Lookahead` entries (10 in the code): an exact match of a slave first, the skipping
of the first entry at most twice, then a slave that may be started.

`CallSets` chooses what an application does; `killBehind` and `disconnectEarly`
are calls that no document allows or forbids and that break the scheduler (the hazards at
`scheduler.cpp:433` and `:1015`): no run includes them.

### DirListerCache

`itemsInUse`, `itemsCached`, `listersCurrentlyListing` and `listersCurrentlyHolding`
are the members of that name; `job[dir]` is the entry of `runningListJobs`, with what the
slave has read and not sent; `jobData`, `lstDirs`, `complete`, `autoUpdate` and
`cachedItemsJob` those of each lister. `shown` is what the view of a lister shows after the
signals it got, and `doubled` records who was told of an item it showed already. `disk` is
what is really there, `dirty` what KDirWatch has seen and not reported, `signals`
the D-Bus signals on their way. All of the cache is one record `c`, because
`deleteDir`, `stop`, `forgetDirs` and `updateDirectory` call each other in the middle of
handlers: they are functions from one state of the cache to the next, composed as
the code composes them, and a handler is one step.

* A slave reads a directory at one moment and sends its items in any portions.
  Its answer to a directory that is gone is an error.
* `itemsCached` keeps 10 directories; which of them goes is not modelled, any may (`Evict`).
* A change of the disk makes `dirty` true for a watched directory. When the last
  watch is removed a change that was not reported is forgotten, as in
  `KDirWatchPrivate::removeEntry`.
* `UsageSets` chooses what the application and the world do. Beyond `openUrl` of an
  idle lister everything is a usage, so that an instance says which interferences it
  combines. Eight usages (`abandon`, `keepAgain`, `keepRoot`, `stopJob`, `removedEarly`,
  `updateFails`, `overtaken`, `racing`) and `keepEarly` with others lead to states in which a property below
  does not hold: TLC found each of them; `abandon` is a run, the others are
  hazards with a note, and `updateFails` leaves the item of a failed update complete.
* `openUrl` is modelled only where the lister has no `CachedItemsJob` left when it is to list (`MayEnter`). The
  constructor of that job asserts it; a directory that is read from the disk needs no such job, so that for
  those the code allows somewhat more than the model.
* Not exact: `isFinished()` may be true while a job of the lister runs, because
  `emitItemsFromCache` and `stop` set `complete`; no property forbids it. When a directory
  that two listers list is deleted, only the lister that forgets it last is finished.

## 3. Runs

The runs of `WeaverImpl` use three jobs a, b, c; b has a higher priority than a and c. Runs with
policies: b depends on a, and one restriction of cap 1 covers all three. a and b ask the restriction
before the dependency, so a refusal after a permission happens.

| Run | Instance | Shows |
|---|---|---|
| `weaver_policies` | 3 threads (symmetric), 1 client: enqueue, dequeue, setCap, delete; job a may fail | no job lost, doubled or run twice; permissions exact; caps and dependencies respected; the order of the queue; the refinement of `JobScheduling` |
| `weaver_lifecycle` | 2 threads, 1 client that makes every call, inventory 1 raised to 2; every state; fair | the active count is exact; the destructor leaves no thread behind and ends; `finish` returns in spite of lost wake-ups; suspending never gets stuck |
| `collections` | 2 threads (symmetric), o is a sequence of i and w, i a sequence of p and q, k a collection of u and v; w, q, u, v share a restriction of cap 1; p and u may fail; every call | no element executed twice or for nobody; counters exact; sequences in order; `done` last; permissions returned |
| `collections_complete` | 2 threads, fair; a sequence s of p and q, and k; u may fail | a collection that executes emits `done`; `finish` returns |
| `lock_file` | 2 processes, 3 inodes, hard links or copies, one forcer or none | exclusion, ownership of the lock file, the refinement of `CrashableLock`; a waiter behind a crashed owner is told |
| `scheduler` | 2 gets of one file and a job for another host, room for 2 slaves, 1 of them in the pool; five kinds of applications | slaves and jobs in one place, own answers, slots exact, the maximum respected, every job ends |
| `dir_lister` | 2 listers, a directory and a subdirectory with a file, 1 change of the disk (2 in one choice); eight combinations of usages | registrations, jobs, watch counts and views exact; complete is up-to-date; every listing ends |
| `lost_wakeup` | 2 threads, `WeaverImpl` | the code does not do what a comment or the documentation says; see below |
| `sequence_fails` | a failing element in a sequence, `JobCollection` | likewise |
| `stale_lock` | 3 processes, 2 inodes, one forces | likewise |
| `starvation` | jobs for one host without end, one slave | likewise |
| `abandoned_update` | `dir_lister` with listers that leave during an update | likewise |

Bounds. Three jobs are the least with a dependency, a competitor for the restriction
and a third priority place; with them the queue has a head, a middle and a tail.
Two threads give every race between two takers, between a taker and the end of a
job, and between a sleeper and a waker; the policies, where partial acquisition of
one thread can disturb two others, run with three. The constructor's maximum of 4
is `InventoryMax`; the runs use 1 to 3, so the limit is met. The job a client may
call for comes from `Jobs`, the caps from `CapValues`, the maxima from `MaxValues`; every
job runs at most once, so no counter is unbounded and no state constraint is used.
For collections two levels of nesting and two elements per collection give a first
and a last element at either level, an element that is executed by its collection
and one that is taken from the queue; the failing elements are the first of a
sequence and one of a collection.
For the lock file three inodes are the lock file, a unique file and one that is used
again; two processes give owner and waiter, and three are needed only for the forced
break, where a third one makes the new lock. For the scheduler one place in the
pool makes jobs wait, a second object is a slave started by a connection or
in place of one that was killed; the three jobs are two that may share a
held slave and one that may not. For the lister two are who shares a directory with
whom; one directory within the other is what a tree view opens, and what is deleted
below a listing; one change after another (`again`) covers a change during an update. The
choices combine at most three usages; all at once is beyond TLC. `MaxChanges` bounds
the changes; the disk starts in any state.

Where a weaver is destroyed, where applications need not call again, or where jobs are left queued behind a failed one and
sleeping threads, the system may stop: those configurations turn the deadlock
check off.

Fairness. `SF` of every thread's steps and of the steps of a client inside a call:
the operating system runs every thread, `QMutex` is granted to a thread
that asks for it while others take and release it, `run()` of a job returns, and the
two timed waits time out. A client need not begin a call. In
`JobCollection`, where nobody sleeps, `SF` of every thread means that it comes round
again; `SF` of `JobRunnerDone` that the main thread returns to its event loop between
its calls, and of `FinishReturn` that a `finish` whose condition holds notices. Weak fairness is not
enough only because the mutex may be taken again before a waiter gets it.
`KLockFile`: `WF` of the steps of a call and of the passing of time; no process needs to
call, unlock or crash. `Scheduler`: `WF` of the timer, of the input of every slave and
of its process: the event loop runs and slaves answer. `DirListerCache`: the event loop
turns and slaves answer. It is strong for jobs, since events that were posted earlier
delay the end of a job, but only within a turn, and weak for the rest; it is written as
formulas on what the steps change, since `WF_vars` of whole handlers takes TLC too long.
`ListingEnds` does not speak of applications that open, close or update directories without
end before they are listed (`Patient`).

### What the code does not do as documented

* `QueuedJobIsTaken`: a thread tests the queue, then waits for `m_jobAvailable`; a job
  queued in between wakes nobody. With no `finish` running, the job stays.
* `FinishReturns` in `sequence_fails`: `JobSequence` stops by dequeueing itself, but it is
  not in the queue while it runs. The rest of its elements stays queued behind a
  failed job, and `finish` does not return. The test that expects the contrary is in
  `JobTests.cpp`, which the build has disabled. A sequence of sequences, followed by `finish`
  in the main thread, is stuck likewise: the `done` of the inner one needs the event loop.
* `ForcedMutualExclusion` in `stale_lock`: a waiter that forces judges a lock by a pid it
  read earlier; a new lock file with the same inode and link count looks the
  same to it and to `deleteStaleLock`, and is deleted.
* `NoStarvation` in `starvation`: the count of how often the first entry was skipped is
  reset although it was not started; entries behind it overtake it for ever.
* `CompleteIsUpToDate` in `abandoned_update`: the last lister of a directory leaves while the
  directory is updated; the job is killed, and the old items are put into the
  cache as complete.

Others were found in the same way and have no run of their own; `PROJECT.json` lists
them as hazards with a note or under the property that comes closest: a thread writes
`Suspended` over `ShuttingDown` (`Settled` leaves it out of `DestructorEnds`); a job is out of the
queue before it is counted, so `finished()` and `Suspended` can come while it is about
to run; the runner of an element that is a collection ends when that has queued its
elements, so a collection may be done before its last element; a
collection with policies of its own keeps the permissions of its first element when
it is refused; and those of the scheduler and of the lister named in section 2.

## 4. Proofs

`SequenceLemmas` proves, for queues without duplicates, what inserting, removing by
position and removing by value do to the set of elements, to the absence of
duplicates and to the type; that `Without`, a recursive function, keeps the other
elements in their order; that a non-empty set of naturals has a least element, which is what the
proofs use in place of induction; and that a sum over a finite set, given by any function
of partial sums, does not depend on their order and bounds the number of its positive terms.

`WeaverImplProofs` proves `TypeOK`, `JobsAreExclusive` and `ActiveCountExact` for any number
of threads and clients, any jobs, policies and caps. The assumptions are the named
`ASSUME`s of `QueuePolicies` and `WeaverImpl`: clients and threads are different
processes, the sets of jobs and threads are finite, a job lists a policy once
(`assignQueuePolicy` tests it), dependencies are between different jobs that have the
policy, the maxima are positive.

None of the three is inductive. `IInv` adds

* `LockInv`: a thread that scans holds `m_mutex`, and only a scanning thread holds it. Without it two threads
  could take the same entry, and an enqueue could move the entries under `index`;
* `HoldInv`: which program counters have a job in `job` and which not; a thread that
  executes holds a real job, and one in `decActive` holds none any more;
* `DeletedInv`: no job that is being executed has been deleted; without it the
  deletion could take the job of a thread away.

`m_active' = m_active - 1` stays in `Nat` because the thread in `decActive` is one of those
counted: typing needs `ActiveCountExact`. The proof has one lemma per action; the
actions that change nothing but program counters between uncounted places share
`QuietStep`. `Invariance` puts them together, and the theorems follow with PTL.

It also proves `DependenciesHonoured`, `PermissionsExact` and `CapRespected`, from
the same assumptions and `IInv`. `StepCases` says once that of all the steps of the weaver nine, and
the deletion of a job, matter to a policy; every other one is a `SilentStep`.

* `DependenciesHonoured` is about a job that was taken, but the answer was given
  earlier. `DInv` follows it back: a dependency goes only for a success or a
  deletion (`ResolvedInv`); of a job being scanned whose `DependencyPolicy` has
  answered, and of a job that was taken, none is left. The steps in between are
  safe because dependencies only go away and nobody moves the queue under a scan.
* `PermissionsExact` compares the lists of the restrictions with the positions
  scans and threads have reached. `PInv` adds that a scan is at most one past the last policy of its job and that
  a thread has the position 1 when it begins to give back.
  That a list holds a job once also needs `PoliciesAssigned`: a job lists a policy once.
* `CapRespected` does not follow from `Len < cap` at the moment of `canRun`, as `setCap` may lower the cap
  under the customers that are there. `CapInv` says that the cap is one it was given and each list
  no longer than one of those; with `PermissionsExact` the length of the list bounds the holders.

`WeaverImplProofs` also proves `DestructorLeavesNoThread`, from `IInv` and `DtorInv`: a thread that runs is in
`m_inventory` or is the one being joined (`Registered`), only the owner is in the destructor, and nothing is being
joined elsewhere than in `dtorJoin` (`OwnerDeletes`). All but five actions are an `OrdinaryStep`, which
neither starts a thread nor touches the inventory. `AdjustInventory` is not possible any more in the destructor
because nobody calls a weaver that is being deleted, the assumption the theorem rests on.

`KLockFileProofs` proves `TypeOK`, `MutualExclusion` and `HolderOwnsFile` for any number of processes,
inodes and hosts, both file systems and any `HardErrors`, from the `ASSUME`s of
`KLockFile`: the processes are a finite set without `NoPid`, and `NoFile` is no file. `IInv` is
`TypeOK` with

* `HasTemp`: at the places of `TempPcs` the temporary name of a process is a file, so that
  the comparison of `lstat`s is about a file that is there;
* `Exclusion`, where nobody forces: nobody is or will be in `deleteStaleLock`
  (`NoBreaking`), a unique file is its creator's own (`OwnTemp`), and from its link to its
  unlock the lock file is that of the winner (`OwnLock`), who is idle when it has the
  lock (`LockedIsIdle`). The link succeeds only where there is no lock file, so there is
  one winner; none of it depends on inodes, which is why reuse does no harm without force.

Proved per group of system calls (`LockFileExclusion`, `TestExclusion`, `StaleExclusion`, ...), with lemmas on what
`Again`, `Error`, `Busy` and `Broken` leave alone.

`KLockFileProofs` also proves from the same `IInv` that `KLockFile` implements `CrashableLock`. The
abstract holder is the writer of the lock file, `granted` are those who have got `LockOK`.
`StepLives` shows that only `Crash` changes who lives, `StepLocks` that of the steps of a call only the
link and the return of `LockOK` change what the abstract lock sees. Then one lemma
per abstract action: the link is `Acquire` because there is no lock file at that moment
(`LinkAcquires`), the return is `Grant` because the lock file is still the winner's (`ReturnGrants`,
from `OwnLock`), `unlock` is `Release`, a crash `Crash`. With forcers the abstract lock
has no holder and only crashes are visible: nothing is claimed of it.

`WeaverImplProofs` ends with `QueueOrder` and `ImplementsScheduling`.

* `QueueOrder` follows from `Sorted`: no job of the queue is behind one of a lower
  priority. That is why it suffices that `enqueue` looks at its neighbour only
  (`InsertionPointSplits`). A step takes one entry out (`JobLeaves`), puts one in
  (`JobComes`) or leaves the queue alone (`QueueMoves`), and none changes the places of the others
  relative to each other.
* For the refinement every job is in one of the stages of `JobScheduling` (`OneStage`, from
  `JobsAreExclusive` and `DoneInv`: who has ended is in nobody's hands). One lemma per abstract
  action: `EnqueueSubmits`, `Withdraws`, `TakeStarts`, `RunEnds`, `DeleteDeletes`, `SetCapChanges`,
  `AgreesPermits` for a policy that agrees during a scan, `RefusesReturns` and
  `FreeReturns` for permissions on their way back. `AgreesPermits` compares the length of the list
  of customers with the cardinality of the abstract set, which needs `PermissionsExact`; `TakeStarts` needs
  `DInv` and `PInv`, since the answers of the policies were given in earlier steps. All other steps
  are stutters of the abstract specification (`Stutters`).

`SchedulerProofs` proves `TypeOK` of the scheduler for all calls, and describes what
`startJobScheduled` and `startJobDirect` may do with a job as one of four outcomes (`Outcome`: it
gets the slave on hold, an idle slave, a new slave, or none), so that the long search
is unfolded once. It then proves the six safety invariants the run checks.
Their hypothesis is `Careful`: the application never makes the two calls that
break the scheduler (section 2); no run includes them either, and with them the
properties are false.

* `IInv` gives every slave one of eight roles (`Role`: gone, resting, busy, on hold, unused,
  connecting, connected, busy for a connection) that says in
  which lists it is, whether it has a job, and what its process still has to do and to
  say; and every job one place (`Place`): a list of new or scheduled jobs, the queue of a connected slave,
  or a slave that works for it and for no other. None of the six is inductive without the
  messages: that a slave may go to the idle ones when its job ends holds because nothing
  else is under way.
* A slave on hold that `startJobScheduled` finds for an entry it does not start in the end
  is on hold no longer, but stays among the active slaves without a job: `Unused`. A held slave may
  be in that list twice. This is the reason why `ActiveSlavesWork` speaks of schedulers
  without holding only (the hazard at `scheduler.cpp:829`).
* Each handler changes the role of at most one slave and the place of at most one job;
  `RolesKept` and `PlacesAfter` carry all others over, `GoesKeeps` covers every way a slave
  leaves (its death, `kill`, the cleaning of idle slaves).
* `MaxSlavesRespected` needs one more invariant, `Limited`, with sums: `activeSlaves` is a
  bag, so that its size is a sum over all slaves, at least the number of different ones
  (`SumOfPositives`). It is about applications that schedule all jobs, as the property is.

`JobCollectionProofs` proves all six invariants of the run, for any nesting of
collections, any policies and any number of threads.

* `IInv` says of every thread what its place means (`Place`) and of every job whose
  collection has not begun, or has not reached yet while it queues its elements one by one
  (`Ahead`), that it is idle (`IdleInv`): not queued, not finished, no
  counter, no signal. The counter is the number of elements that have not
  ended or whose `done` is posted (`CountInv`), and whoever is queued or executed is
  counted by its collection (`CountedInv`), so that `stop` and `jobRunnerDone` find
  the counter they expect.
* `Asked`, the chain of jobs that `canBeExecuted` asks, is recursive over the nesting. It is well
  defined because of `CollectionsNest`; the proof takes a least job for which it is not.
  Nothing is proved by induction over it.
* `SequenceInOrder`: dependencies are added when a sequence is queued and go only with a
  success (`ToldInv`); for the job of a scan that the policy has answered (`AgreedInv`) and for
  what has begun (`OrderInv`) the one before is over.
* `DoneIsLast` has the hypothesis `NestedInSequences`: an element that is a collection is in a
  sequence and not its last. Without it the property is false, because the `execute` of such an element returns
  when its own elements are queued (the hazard at `JobCollection.cpp:90`). In a sequence the
  dependency of the next element delays the end.
* `PermissionsReturned` has the hypothesis `OneAsks`: of the jobs that are asked
  together none has a restriction while another one has a policy. Without it a refusal leaves permissions behind
  (the hazard at `JobCollection.cpp:260`). `PermInv` says who is a customer: the jobs that the scan has asked with success,
  and those that execute and have not come to `free` yet. The instance of the run satisfies both hypotheses.

`DirListerCacheProofs` proves `TypeOK`, `UsersRegistered` and `WatchCountExact` of the directory
lister, for any listers, any tree of directories and any number of changes of the disk. The hypothesis is
`~Does("keepRoot")`: a lister whose first directory was deleted is not opened with `Keep` again, after which
`lstDirs` and the lists of the cache differ (section 2; the properties are false with it). The other
twenty usages are all allowed. The assumptions are the `ASSUME`s of the model: the sets are finite, and
directories form a tree below `Top` (`DirsAreTree`).

* The three need each other: `DecAutoUpdate` stays a count because the user that leaves was counted, and
  an item is in use because somebody is registered. `Consistent` is their conjunction per directory (`DirOK`,
  `CountOK`, `RegistryOK`) with, per lister, `RootOK`: its first directory is one of its own, and all it has is
  below that one; and `PostedOK`: a `CachedItemsJob` is for a directory the lister lists.
* Most of what the handlers do is a `Harmless` step: users may move between listing and holding, and no
  count changes without its item. `HarmlessKeeps` is proved once, then for each state function
  that it is harmless.
* `forgetDirs`, `deleteDir`, `setAutoUpdate`, `updateDirectory` go through sets of listers or directories. The
  library's theorems about folds have operators as parameters; `FoldLemmas` has them as constants instead,
  and each fold is an `INSTANCE` of it with the operation and the invariant of that loop (`Forgotten`, `Stopped`,
  `Lost`, `Removed`, ...). `FoldKeeps` proves that the invariant holds at the end, whatever the order.
* In the middle of `deleteDir`, `Consistent` is broken: a lister that loses its first directory has an
  empty `lstDirs` and is in the lists of those below until their turn comes. `Deleting` says that it
  is broken for such strays only, and only for directories that are being deleted (`Stray`), which needs that
  the directories below the first one of a lister are deleted with it: `RootOK`. `keepRoot` breaks just that.
* `Below`, which is recursive over the tree, is well defined because of `DirsAreTree` (`BelowStep`). Nothing is
  proved by induction over it.

`DirListerCacheJobs` proves `JobsServeListers` with the same assumptions and, besides `~Does("keepRoot")`,
`Orderly`: no list job is stopped (`stopJob`) and no job ends before what was posted to its listers
(`overtaken`). With either usage the property is false, and the repository's tests do stop list jobs
(`kdirlistertest.cpp:708`, `testOpenAndStop`): the theorem says what holds as long as nobody does.

* The invariant is one of each directory (`Served`): who lists it waits for a job or for items that are posted
  (`AwaitedAt`), who counts it in `jobData` is a user of it and its job runs (`CountedAt`), and a list job has
  no holders (`FreshAt`); with `NoneEnded`, that no lister counts a job that is gone. `AllServed` is all of
  them, and `JobsInv` adds `IInv` of `DirListerCacheProofs`, which says who is registered where.
* Two states are compared by `SameService`: the directory has the same users, has a job if it had one and becomes
  no list job, nobody counts its job who did not, and nothing posted for it is lost. Most of what a handler does
  is of that kind for all directories but its own, which then is the only one to look at.
* `stop`, `forgetDirs`, `deleteDir` and the update that finds directories gone go through sets again, with an
  invariant of their own for the jobs. While `deleteDir` empties directories, the service of those that are
  not concerned goes on; of the others only `CountedAt` holds, and `Served` again once the tree is deleted
  (`Serving`, `DeleteDirServing`).

Checked by TLC only: liveness under fairness, which the prover does not handle, and of `DirListerCache`
`ViewIsCache` and `CompleteIsUpToDate`: they relate what the views show and the disk to items that a job has
read earlier, and need an invariant about every item on its way from the disk to a view.

## 5. Not modelled

Signals, debug output, observers and the GUI; the global weaver; requestAbort, which
changes nothing in the queue; assigning or removing policies and dependencies while
the job is queued; spurious wake-ups (any waiter is woken by real ones, and all
tests are repeated); wrap-around of the active count, which the number of
threads bounds. Of collections: `addJob` and payloads deleted while the collection
lives, `dequeue` of an empty collection (it reads the first of no elements), and the
mutexes of the collections apart from `Locked`. Of lock files: contents without a pid,
lock files that others delete, `setStaleTime` during a call; `KSaveFile` and
`KAutoSaveFile`. Of the scheduler: several protocols, klauncher and its slaves, suspended jobs,
redirection, authentication, and data between job and slave. Of the lister: redirections and renames, root
items, filters and mime types, the delayed updates of single files, progress. All other components of section 1: see the notes in
`PROJECT.json`.

## 6. Plan

1. Proofs of the other invariants of `DirListerCache`, `ViewIsCache` and `CompleteIsUpToDate`, with what is on
   its way to a view.
2. An abstract specification of a collection (its elements, then `done`) that
   `JobCollection` implements where no collection is a last element.
3. `DependencyPolicy` with its multimap: adding twice, removing, resolving, checked
   against a set-valued reference.
4. `KJob`/`KCompositeJob` with their suspension and kill, the cookie jar's pending
   requests, klauncher's requests. Each with an abstract specification of what its
   clients may rely on.
