----------------------------- MODULE Scheduler ------------------------------
(***************************************************************************)
(* KIO::Scheduler (kio/kio/scheduler.cpp) for one protocol: the jobs of an *)
(* application, the pool of io-slaves they are given to, and what SimpleJob*)
(* (job.cpp) and Slave (slave.cpp) do for it.                              *)
(*                                                                         *)
(* The application has one thread: a call or the handler of an event is a  *)
(* step, except that startStep is one step per job it starts directly and  *)
(* one for the queue.  An io-slave is a process.  It executes the commands *)
(* it is sent in their order (slavebase.cpp), its messages arrive in their *)
(* order, and it may crash at any time, which is noticed some time later.  *)
(***************************************************************************)
EXTENDS Integers, SequencesExt, QtLists

CONSTANTS
  Jobs,           \* the SimpleJobs the application may create
  url,            \* the url of every job
  host,           \* the host of every url (with its port and user)
  Gets,           \* the jobs whose command is CMD_GET, from the beginning
  Slaves,         \* the Slave objects there is room for
  MaxSlaves,      \* maxSlaves of the protocol
  Lookahead,      \* the entries of joblist that are looked at; 10 in the code
  CallSets,       \* what an application does: the choices
  ConnectUrls,    \* arguments of getConnectedSlave
  NoSlave, NoUrl, NoHost,
  Connect         \* CMD_CONNECT

ASSUME PoolAssumption ==
  /\ NoSlave \notin Slaves /\ Connect \notin Jobs
  /\ IsFiniteSet(Slaves) /\ IsFiniteSet(Jobs)
ASSUME LimitsAssumption == MaxSlaves \in Nat \ {0} /\ Lookahead \in Nat \ {0}
ASSUME UrlAssumption ==
  /\ ConnectUrls \subseteq DOMAIN host /\ Range(url) \subseteq DOMAIN host
  /\ DOMAIN url = Jobs /\ Gets \subseteq Jobs
  /\ NoUrl \notin DOMAIN host /\ NoHost \notin Range(host)

VARIABLES
  calls,          \* what the application does
  job,            \* of every job: whether it exists, and its m_slave
  d,              \* the members of SchedulerPrivate and of ProtocolInfo
  inStep,         \* startStep is being executed
  slave           \* every Slave object with its process and their connection

vars == <<calls, job, d, inStep, slave>>

\* Every method that an application may call; "again" if it creates jobs for
\* ever.  Two are kept apart: to kill a job that waits for a connected slave
\* while that executes another one, and to disconnect a slave that is not
\* connected yet.
Calls == {"direct", "scheduled", "again", "kill", "killBehind", "putOnHold",
          "removeOnHold", "publish", "connect", "disconnectEarly"}

ASSUME CallsAssumption == \A K \in CallSets : K \subseteq Calls

Urls == DOMAIN host

Commands == Jobs \union {Connect}

Messages == [type : {"connected", "error", "mimeType", "finished"}, of : Commands]

\* No object: also the values of a new one.
NoObject ==
  [exists |-> FALSE, alive |-> TRUE, contacted |-> FALSE, connecting |-> FALSE,
   host |-> NoHost, running |-> TRUE, todo |-> <<>>, phase |-> "ready",
   out |-> <<>>]

\* alive: not dead; contacted: isConnected (); connecting: its connected () is
\* connected to slotSlaveConnected.  Of the process: todo, the commands it has
\* not answered; phase, whether the first of them waits in mimeType () or is
\* past it; out, its messages that have not been read.
SlaveStates ==
  [exists : BOOLEAN, alive : BOOLEAN, contacted : BOOLEAN, connecting : BOOLEAN,
   host : Range(host) \union {NoHost}, running : BOOLEAN, todo : Seq(Commands),
   phase : {"ready", "mimeType", "going"}, out : Seq(Messages)]

Schedulers ==
  [newJobs : Seq(Jobs), joblist : Seq(Jobs),
   activeSlaves : [Slaves -> Nat],      \* how many times it is in the list
   idleSlaves : Seq(Slaves),
   coSlaves : SUBSET Slaves, queue : [Slaves -> Seq(Jobs)],
   coIdleSlaves : SUBSET Slaves,
   skipCount : Nat,
   slaveOnHold : Slaves \union {NoSlave}, urlOnHold : Urls \union {NoUrl},
   slaveTimer : BOOLEAN, coSlaveTimer : BOOLEAN]

Init ==
  /\ calls \in CallSets
  /\ job = [j \in Jobs |-> [state |-> "none", slave |-> NoSlave]]
  /\ d = [newJobs |-> <<>>, joblist |-> <<>>,
          activeSlaves |-> [s \in Slaves |-> 0], idleSlaves |-> <<>>,
          coSlaves |-> {}, queue |-> [s \in Slaves |-> <<>>],
          coIdleSlaves |-> {}, skipCount |-> 0,
          slaveOnHold |-> NoSlave, urlOnHold |-> NoUrl,
          slaveTimer |-> FALSE, coSlaveTimer |-> FALSE]
  /\ inStep = FALSE
  /\ slave = [s \in Slaves |-> NoObject]

-----------------------------------------------------------------------------
(* Jobs and slaves *)

Exists(j) == job[j].state = "created"

\* Between two events of the application.
Idle == ~inStep

\* The jobs that are connected to the signals of s.
Listeners(s) == {j \in Jobs : job[j].slave = s}

InQueueOf(j, s) == Contains(d.queue[s], j)

\* Jobs of K have emitted their result and are deleted; the application may
\* create others like them.
Ended(K) ==
  [j \in Jobs |->
     IF j \in K
       THEN [state |-> IF "again" \in calls THEN "none" ELSE "ended", slave |-> NoSlave]
       ELSE job[j]]

\* Slave::kill, with the process.
Killed(S, K) == [s \in Slaves |-> IF s \in K THEN [S[s] EXCEPT !.alive = FALSE] ELSE S[s]]

\* deref () deletes the object; nobody reads its connection any more.
Deleted(s) == [slave EXCEPT ![s] = NoObject]

Objects == {s \in Slaves : slave[s].exists}

\* createSlave appends the new object to the idle slaves, from where all
\* callers take it again at once.  Which object it is makes no difference.
NewSlave == CHOOSE s \in Slaves : s \notin Objects

MayCreateSlave == Objects # Slaves

Created(S, s) == [S EXCEPT ![s] = [NoObject EXCEPT !.exists = TRUE]]

\* setupSlave and SimpleJobPrivate::start.
Started(S, s, j) ==
  [S EXCEPT ![s].host = host[url[j]], ![s].todo = Append(@, j)]

-----------------------------------------------------------------------------
(* Calls of the scheduler by jobs and slaves *)

\* Mutant: the place among the active slaves is not given back.
jobFinishedStillActive(D, s, alive) ==
  LET next == [D EXCEPT !.slaveTimer = @ \/ D.joblist # <<>>]
  IN  IF ~alive THEN next
      ELSE IF s \in D.coSlaves
             THEN [D EXCEPT !.coIdleSlaves = @ \union {s},
                            !.coSlaveTimer = @ \/ D.queue[s] # <<>>]
             ELSE [next EXCEPT !.idleSlaves = Append(@, s)]

\* Mutant: the timer is only started for a slave that is alive.
jobFinishedSilently(D, s, alive) ==
  LET taken == [D EXCEPT !.activeSlaves[s] = 0]
      next == [taken EXCEPT !.slaveTimer = @ \/ D.joblist # <<>>]
  IN  IF ~alive THEN taken
      ELSE IF s \in D.coSlaves
             THEN [taken EXCEPT !.coIdleSlaves = @ \union {s},
                                !.coSlaveTimer = @ \/ D.queue[s] # <<>>]
             ELSE [next EXCEPT !.idleSlaves = Append(@, s)]

\* jobFinished: the slave is given back.
jobFinished(D, s, alive) ==
  LET taken == [D EXCEPT !.activeSlaves[s] = 0]
      next == [taken EXCEPT !.slaveTimer = @ \/ D.joblist # <<>>]
  IN  IF ~alive THEN next
      ELSE IF s \in D.coSlaves
             THEN [taken EXCEPT !.coIdleSlaves = @ \union {s},
                                !.coSlaveTimer = @ \/ D.queue[s] # <<>>]
             ELSE [next EXCEPT !.idleSlaves = Append(@, s)]

\* Mutant: a slave that is not connected any more stays in coIdleSlaves.
DisconnectedStillIdle(D, s) ==
  [D EXCEPT !.coSlaves = @ \ {s}, !.queue[s] = <<>>]

\* disconnectSlave, but for a slave that is alive.  The jobs in its queue are
\* killed.
Disconnected(D, s) ==
  [D EXCEPT !.coSlaves = @ \ {s}, !.queue[s] = <<>>, !.coIdleSlaves = @ \ {s}]

\* Mutant: removeOne, as if jobFinished had not been there first.
slotSlaveDiedOnce(D, s) ==
  LET held == D.slaveOnHold = s
  IN  Disconnected([D EXCEPT !.activeSlaves[s] = @ - 1,
                             !.idleSlaves = removeAll(@, s),
                             !.slaveOnHold = IF held THEN NoSlave ELSE @,
                             !.urlOnHold = IF held THEN NoUrl ELSE @], s)

\* slotSlaveDied.
slotSlaveDied(D, s) ==
  LET held == D.slaveOnHold = s
  IN  Disconnected([D EXCEPT !.activeSlaves[s] = 0,
                             !.idleSlaves = removeAll(@, s),
                             !.slaveOnHold = IF held THEN NoSlave ELSE @,
                             !.urlOnHold = IF held THEN NoUrl ELSE @], s)

\* Mutant: the queue of a connected slave is deleted, not its jobs.
NoneKilledWith(s) == {}

\* The jobs that slotSlaveDied kills.
KilledWith(s) == ToSet(d.queue[s])

NotOnHold(D) == [D EXCEPT !.slaveOnHold = NoSlave, !.urlOnHold = NoUrl]

-----------------------------------------------------------------------------
(* The application *)

May(c) == Idle /\ c \in calls

Create(j) == job' = [job EXCEPT ![j].state = "created"]

\* A new job registers itself.
DoJob(j) ==
  /\ May("direct") /\ job[j].state = "none"
  /\ Create(j)
  /\ d' = [d EXCEPT !.newJobs = Append(@, j), !.slaveTimer = TRUE]
  /\ UNCHANGED <<calls, inStep, slave>>

\* A new job is scheduled before the timer can start it.
ScheduleJob(j) ==
  /\ May("scheduled") /\ job[j].state = "none"
  /\ Create(j)
  /\ d' = [d EXCEPT !.joblist = Append(@, j), !.slaveTimer = TRUE]
  /\ UNCHANGED <<calls, inStep, slave>>

\* A new job is given to a connected slave, to whose host it must belong.
AssignJobToSlave(j, s) ==
  /\ May("connect") /\ job[j].state = "none"
  /\ s \in d.coSlaves /\ slave[s].host = host[url[j]]
  /\ Create(j)
  /\ d' = [d EXCEPT !.queue[s] = Append(@, j),
                    !.slaveTimer = TRUE, !.coSlaveTimer = TRUE]
  /\ UNCHANGED <<calls, inStep, slave>>

\* cancelJob of a job that neither runs nor waits for a connected slave.
KillWaiting(j) ==
  /\ May("kill") /\ Exists(j) /\ job[j].slave = NoSlave
  /\ \A s \in Slaves : ~InQueueOf(j, s)
  /\ d' = [d EXCEPT !.newJobs = removeAll(@, j), !.joblist = removeAll(@, j)]
  /\ job' = Ended({j})
  /\ UNCHANGED <<calls, inStep, slave>>

\* Mutant: the job is cancelled, and the slave given back as if it had ended.
KillWithoutSlave(j, s) ==
  /\ May("kill") /\ Exists(j) /\ job[j].slave = s
  /\ d' = jobFinished(d, s, TRUE)
  /\ job' = Ended({j})
  /\ UNCHANGED <<calls, inStep, slave>>

\* cancelJob of a job that runs on s, or is in the queue of s: in both cases
\* the slave is killed.
KillWithSlave(j, s) ==
  /\ May("kill") /\ Exists(j)
  /\ \/ job[j].slave = s
     \/ /\ InQueueOf(j, s)
        /\ Listeners(s) = {} \/ "killBehind" \in calls
  /\ d' = slotSlaveDied(jobFinished(d, s, FALSE), s)
  /\ job' = Ended({j} \union KilledWith(s))
  /\ slave' = Deleted(s)
  /\ UNCHANGED <<calls, inStep>>

RemoveSlaveOnHold ==
  /\ May("removeOnHold") /\ d.slaveOnHold # NoSlave
  /\ slave' = Killed(slave, {d.slaveOnHold})
  /\ d' = NotOnHold(d)
  /\ UNCHANGED <<calls, job, inStep>>

\* The slave goes to klauncher, and is dead for this application.
PublishSlaveOnHold ==
  /\ May("publish") /\ d.slaveOnHold # NoSlave
  /\ d' = slotSlaveDied(d, d.slaveOnHold)
  /\ job' = Ended(KilledWith(d.slaveOnHold))
  /\ slave' = Deleted(d.slaveOnHold)
  /\ UNCHANGED <<calls, inStep>>

-----------------------------------------------------------------------------
(* Idle slaves *)

SameHost(u) ==
  {i \in DOMAIN d.idleSlaves : slave[d.idleSlaves[i]].host = host[u]}

\* The first slave with the same host, or else the first.
searchIdleList(u) ==
  IF d.idleSlaves = <<>> THEN NoSlave
  ELSE d.idleSlaves[IF SameHost(u) = {} THEN 1 ELSE Min(SameHost(u))]

\* findIdleSlave of a GET reuses the slave on hold or discards it.
Reuses(j) == d.slaveOnHold # NoSlave /\ j \in Gets /\ url[j] = d.urlOnHold

Discarded(K) ==
  {s \in {d.slaveOnHold} \ {NoSlave} : \E j \in K : j \in Gets /\ ~Reuses(j)}

findIdleSlave(j) == IF Reuses(j) THEN d.slaveOnHold ELSE searchIdleList(url[j])

\* The scheduler when findIdleSlave has been asked for the jobs of K.
AfterFind(K) == IF K \intersect Gets = {} THEN d ELSE NotOnHold(d)

\* Mutant: a slave that is started stays in the list of idle slaves.
StartStillIdle(D, S, s, j) ==
  /\ d' = [D EXCEPT !.activeSlaves[s] = @ + 1]
  /\ slave' = Started(S, s, j)
  /\ job' = [job EXCEPT ![j].slave = s]

\* The job is started on a slave of the state S.
Start(D, S, s, j) ==
  /\ d' = [D EXCEPT !.activeSlaves[s] = @ + 1, !.idleSlaves = removeAll(@, s)]
  /\ slave' = Started(S, s, j)
  /\ job' = [job EXCEPT ![j].slave = s]

\* createSlave fails, and so does the job.
StartFails(D, S, j) ==
  /\ d' = [D EXCEPT !.joblist = removeAll(@, j)]
  /\ slave' = S
  /\ job' = Ended({j})

-----------------------------------------------------------------------------
(* startStep *)

StartStep ==
  /\ Idle /\ d.slaveTimer
  /\ d' = [d EXCEPT !.slaveTimer = FALSE]
  /\ inStep' = TRUE
  /\ UNCHANGED <<calls, job, slave>>

\* startJobDirect: with an idle slave or a new one, however many there are.
StartJobDirect ==
  /\ inStep /\ d.newJobs # <<>>
  /\ LET j == Head(d.newJobs)
         D == [AfterFind({j}) EXCEPT !.newJobs = Tail(@)]
         S == Killed(slave, Discarded({j}))
         s == findIdleSlave(j)
     IN  \/ s # NoSlave /\ Start(D, S, s, j)
         \/ s = NoSlave /\ MayCreateSlave
              /\ Start(D, Created(S, NewSlave), NewSlave, j)
         \/ s = NoSlave /\ StartFails(D, S, j)
  /\ UNCHANGED <<calls, inStep>>

\* The loop of startJobScheduled over the first entries.  Only the first GET
\* finds a slave on hold; that is not an exact match, and the loop goes on.
FirstGet ==
  LET gets == {i \in DOMAIN d.joblist : d.joblist[i] \in Gets}
  IN  IF gets = {} THEN 0 ELSE Min(gets)

\* Its job, if it is looked at.
FirstGetOf(K) == {j \in K : FirstGet # 0 /\ j = d.joblist[FirstGet]}

ReusesAt(i) == i = FirstGet /\ Reuses(d.joblist[i])

FoundAt(i) ==
  IF ReusesAt(i) THEN d.slaveOnHold ELSE searchIdleList(url[d.joblist[i]])

ExactAt(i) == ~ReusesAt(i) /\ SameHost(url[d.joblist[i]]) # {}

\* Where the loop ends.
LastLooked ==
  LET last == Min({Len(d.joblist), Lookahead})
  IN  Min({last} \union {i \in 1..last : ExactAt(i) \/ FoundAt(i) = NoSlave})

\* The first entry was skipped often enough: it is the only one looked at.
Forced == d.skipCount > 2

Looked == IF Forced THEN 1 ELSE LastLooked

\* The entry to start: the one with an exact match, or the first.
Chosen == IF ~Forced /\ ExactAt(LastLooked) THEN LastLooked ELSE 1

Skips == IF Forced \/ d.joblist[Chosen] = Head(d.joblist) THEN 0 ELSE d.skipCount + 1

CountOf(active) == FoldFunction(+, 0, active)

\* Mutant: one slave too many.
MayStartOneMore == MaxSlaves >= CountOf(d.activeSlaves)

\* There is room for another slave.
MayStartSlave == MaxSlaves > CountOf(d.activeSlaves)

StartJobScheduled ==
  /\ inStep /\ d.newJobs = <<>> /\ d.joblist # <<>>
  /\ LET j == d.joblist[Chosen]
         K == {d.joblist[i] : i \in 1..Looked}
         D == [AfterFind(K) EXCEPT !.skipCount = Skips]
         S == Killed(slave, Discarded(FirstGetOf(K)))
         s == FoundAt(Chosen)
         E == [D EXCEPT !.joblist = RemoveFirst(@, j), !.slaveTimer = TRUE]
     IN  \/ s # NoSlave /\ Start(E, S, s, j)
         \/ /\ s = NoSlave /\ MayStartSlave /\ MayCreateSlave
            /\ Start(E, Created(S, NewSlave), NewSlave, j)
         \/ s = NoSlave /\ MayStartSlave /\ StartFails(E, S, j)
         \/ s = NoSlave /\ ~MayStartSlave /\ d' = D /\ slave' = S /\ UNCHANGED job
  /\ inStep' = FALSE
  /\ UNCHANGED calls

NothingToSchedule ==
  /\ inStep /\ d.newJobs = <<>> /\ d.joblist = <<>>
  /\ inStep' = FALSE
  /\ UNCHANGED <<calls, job, d, slave>>

-----------------------------------------------------------------------------
(* Connected slaves *)

\* An idle slave or a new one; if that fails, nothing has happened.
GetConnectedSlave(u) ==
  /\ May("connect")
  /\ LET found == searchIdleList(u)
         s == IF found = NoSlave THEN NewSlave ELSE found
         S == IF found = NoSlave THEN Created(slave, s) ELSE slave
     IN  /\ found # NoSlave \/ MayCreateSlave
         /\ d' = [d EXCEPT !.idleSlaves = removeAll(@, s),
                           !.coSlaves = @ \union {s}]
         /\ slave' = [S EXCEPT ![s].host = host[u], ![s].connecting = TRUE,
                               ![s].todo = Append(@, Connect)]
  /\ UNCHANGED <<calls, job, inStep>>

\* Of a slave that executes no job.
DisconnectSlave(s) ==
  /\ May("connect") /\ s \in d.coSlaves /\ Listeners(s) = {}
  /\ slave[s].contacted \/ "disconnectEarly" \in calls
  /\ d' = [Disconnected(d, s) EXCEPT !.idleSlaves = Append(@, s)]
  /\ job' = Ended(KilledWith(s))
  /\ slave' = [slave EXCEPT ![s].contacted = FALSE, ![s].connecting = FALSE]
  /\ UNCHANGED <<calls, inStep>>

\* slotScheduleCoSlave starts a job on every idle slave that has one.
ScheduleCoSlave ==
  /\ Idle /\ d.coSlaveTimer
  /\ LET ready == {s \in d.coIdleSlaves : d.queue[s] # <<>>}
     IN  /\ d' = [d EXCEPT
              !.coSlaveTimer = FALSE,
              !.coIdleSlaves = @ \ ready,
              !.queue = [s \in Slaves |-> IF s \in ready THEN Tail(@[s]) ELSE @[s]]]
         /\ job' = [j \in Jobs |->
              IF \E s \in ready : Head(d.queue[s]) = j
                THEN [job[j] EXCEPT !.slave =
                        CHOOSE s \in ready : Head(d.queue[s]) = j]
                ELSE job[j]]
         /\ slave' = [s \in Slaves |->
              IF s \in ready
                THEN [slave[s] EXCEPT !.todo = Append(@, Head(d.queue[s]))]
                ELSE slave[s]]
  /\ UNCHANGED <<calls, inStep>>

-----------------------------------------------------------------------------
(* Messages of the slaves *)

\* Slave::gotInput: the next message of s.
Receives(s, type) ==
  /\ Idle /\ slave[s].exists /\ slave[s].out # <<>>
  /\ Head(slave[s].out).type = type

Read(s) == [slave EXCEPT ![s].out = Tail(@)]

\* slotSlaveConnected, if it is still connected.
SlaveConnected(s) ==
  /\ Receives(s, "connected")
  /\ IF slave[s].connecting
       THEN /\ d' = [d EXCEPT !.coIdleSlaves = @ \union {s}, !.coSlaveTimer = TRUE]
            /\ slave' = [Read(s) EXCEPT ![s].contacted = TRUE, ![s].connecting = FALSE]
       ELSE slave' = Read(s) /\ UNCHANGED d
  /\ UNCHANGED <<calls, job, inStep>>

\* The job lets the slave go on, with CMD_NONE.
MimeType(s) ==
  /\ Receives(s, "mimeType")
  /\ slave' = [Read(s) EXCEPT ![s].phase = "going"]
  /\ UNCHANGED <<calls, job, d, inStep>>

\* The job puts the slave on hold and is killed.
PutSlaveOnHold(j, s) ==
  /\ Receives(s, "mimeType") /\ May("putOnHold")
  /\ job[j].slave = s /\ s \notin d.coSlaves
  /\ d' = [d EXCEPT !.slaveOnHold = s, !.urlOnHold = url[j]]
  /\ slave' = Killed(Read(s), {d.slaveOnHold})
  /\ job' = Ended({j})
  /\ UNCHANGED <<calls, inStep>>

\* slotFinished and slotError of the job, and slaveDone.  An error that no
\* job waits for is only forwarded to the application.
JobAnswered(s, type) ==
  /\ Receives(s, type)
  /\ IF Listeners(s) = {} THEN UNCHANGED <<d, job>>
     ELSE /\ d' = jobFinished(d, s, slave[s].alive)
          /\ job' = Ended(Listeners(s))
  /\ slave' = Read(s)
  /\ UNCHANGED <<calls, inStep>>

\* gotInput or timeout () find that the process is gone; what it had sent and
\* is not read yet is lost.  The job gets ERR_SLAVE_DIED first.
SlaveDied(s) ==
  /\ Idle /\ slave[s].exists /\ ~(slave[s].running /\ slave[s].alive)
  /\ d' = slotSlaveDied(IF Listeners(s) = {} THEN d ELSE jobFinished(d, s, FALSE), s)
  /\ job' = Ended(Listeners(s) \union KilledWith(s))
  /\ slave' = Deleted(s)
  /\ UNCHANGED <<calls, inStep>>

\* slotCleanIdleSlaves: the slave has been idle for a long time.
CleanIdleSlave(s) ==
  /\ Idle /\ Contains(d.idleSlaves, s)
  /\ d' = [d EXCEPT !.idleSlaves = removeAll(@, s)]
  /\ slave' = Deleted(s)
  /\ UNCHANGED <<calls, job, inStep>>

-----------------------------------------------------------------------------
(* The processes *)

Runs(s) == slave[s].exists /\ slave[s].running /\ slave[s].alive

Executes(s, c) == Runs(s) /\ slave[s].todo # <<>> /\ Head(slave[s].todo) = c

Answer(s, type, phase, todo) ==
  slave' = [slave EXCEPT
    ![s].phase = phase, ![s].todo = todo,
    ![s].out = Append(@, [type |-> type, of |-> Head(slave[s].todo)])]

\* openConnection ().
OpenConnection(s) ==
  /\ Executes(s, Connect)
  /\ \E type \in {"connected", "error"} : Answer(s, type, "ready", Tail(slave[s].todo))

\* mimeType () sends the type and waits for CMD_NONE.
SendMimeType(s) ==
  /\ \E j \in Gets : Executes(s, j)
  /\ slave[s].phase = "ready"
  /\ Answer(s, "mimeType", "mimeType", slave[s].todo)

\* Any other command makes mimeType () send the type again, and is gone.
SendMimeTypeAgain(s) ==
  /\ Runs(s) /\ slave[s].phase = "mimeType" /\ Len(slave[s].todo) > 1
  /\ Answer(s, "mimeType", "mimeType", RemoveAt(slave[s].todo, 2))

\* finished () or error (), which comes before mimeType () as well.
Finish(s) ==
  /\ \E j \in Jobs : Executes(s, j)
  /\ slave[s].phase # "mimeType"
  /\ Answer(s, "finished", "ready", Tail(slave[s].todo))

Process(s) ==
  /\ Idle /\ UNCHANGED <<calls, job, d, inStep>>
  /\ OpenConnection(s) \/ SendMimeType(s) \/ SendMimeTypeAgain(s) \/ Finish(s)

Crash(s) ==
  /\ Idle /\ Runs(s)
  /\ slave' = [slave EXCEPT ![s].running = FALSE]
  /\ UNCHANGED <<calls, job, d, inStep>>

-----------------------------------------------------------------------------
Application ==
  \/ \E j \in Jobs : DoJob(j) \/ ScheduleJob(j) \/ KillWaiting(j)
  \/ \E j \in Jobs, s \in Slaves : AssignJobToSlave(j, s) \/ KillWithSlave(j, s)
  \/ RemoveSlaveOnHold \/ PublishSlaveOnHold
  \/ \E u \in ConnectUrls : GetConnectedSlave(u)
  \/ \E s \in Slaves : DisconnectSlave(s)

Timer == StartStep \/ StartJobDirect \/ StartJobScheduled \/ NothingToSchedule

Input(s) ==
  \/ SlaveConnected(s) \/ MimeType(s)
  \/ JobAnswered(s, "finished") \/ JobAnswered(s, "error") \/ SlaveDied(s)

Next ==
  \/ Application \/ Timer \/ ScheduleCoSlave
  \/ \E s \in Slaves :
       \/ Input(s) \/ (\E j \in Jobs : PutSlaveOnHold(j, s))
       \/ CleanIdleSlave(s) \/ Process(s) \/ Crash(s)

Spec == Init /\ [][Next]_vars

\* The event loop runs, and a slave answers in the end.
FairSpec ==
  /\ Spec
  /\ WF_vars(Timer) /\ WF_vars(ScheduleCoSlave)
  /\ \A s \in Slaves : WF_vars(Input(s)) /\ WF_vars(Process(s))

-----------------------------------------------------------------------------
(* Properties *)

TypeOK ==
  /\ calls \in SUBSET Calls /\ inStep \in BOOLEAN
  /\ job \in [Jobs -> [state : {"none", "created", "ended"},
                        slave : Slaves \union {NoSlave}]]
  /\ d \in Schedulers
  /\ slave \in [Slaves -> SlaveStates]

\* How many of the statements in the tuple hold.
HowMany(statements) == Cardinality({i \in DOMAIN statements : statements[i]})

\* A Slave object is in one of the lists activeSlaves, idleSlaves, coSlaves,
\* whatever died, was killed or put on hold at whatever moment; what is in a
\* list or on hold still exists, and a slave that can be given a job for
\* connected slaves is connected.
SlavesInOneList ==
  /\ IsInjective(d.idleSlaves)
  /\ \A s \in Slaves :
       HowMany(<<d.activeSlaves[s] > 0, Contains(d.idleSlaves, s), s \in d.coSlaves>>)
         = IF slave[s].exists THEN 1 ELSE 0
  /\ d.slaveOnHold # NoSlave => d.activeSlaves[d.slaveOnHold] > 0
  /\ \A s \in Slaves : d.queue[s] # <<>> => s \in d.coSlaves
  /\ \A s \in d.coIdleSlaves : s \in d.coSlaves /\ slave[s].contacted

\* No job is forgotten: until it ends it waits in one list, or a slave that
\* exists has it.
JobsInOnePlace ==
  \A j \in Jobs :
    HowMany(<<Contains(d.newJobs, j), Contains(d.joblist, j),
              \E s \in Slaves : InQueueOf(j, s),
              \E s \in Slaves : job[j].slave = s /\ slave[s].exists>>)
      = IF Exists(j) THEN 1 ELSE 0

\* A slave has at most one job, and is not idle meanwhile, so that it is not
\* given another one.
OneJobPerSlave ==
  \A s \in Slaves :
    /\ Cardinality(Listeners(s)) <= 1
    /\ Listeners(s) # {} =>
         /\ ~Contains(d.idleSlaves, s) /\ s \notin d.coIdleSlaves
         /\ s # d.slaveOnHold

\* Whatever is on its way to or from a slave that has a job answers that job,
\* or one for the same url that was put on hold: no job gets the answer to
\* another one that was killed or finished before.
AnswersAreOwn ==
  \A s \in Slaves : \A j \in Listeners(s) :
    \A c \in ToSet(slave[s].todo) \union {m.of : m \in ToSet(slave[s].out)} :
      c \in Jobs => url[c] = url[j]

\* Without slaves on hold every place among the active slaves, of which there
\* are maxSlaves, is taken once and by a slave with a job.
ActiveSlavesWork ==
  "putOnHold" \notin calls =>
    \A s \in Slaves : d.activeSlaves[s] = Cardinality(Listeners(s) \ {j \in Jobs : s \in d.coSlaves})

\* If all jobs are scheduled, a maximum number of slaves is created.
MaxSlavesRespected ==
  calls \intersect {"direct", "connect"} = {} => Cardinality(Objects) <= MaxSlaves

\* A job that waits for a connected slave that is not connected yet.
Unconnected(j) == \E s \in Slaves : InQueueOf(j, s) /\ ~slave[s].contacted

\* Without slaves on hold every job that is not left to a slave that does not
\* get connected ends: slaves that fail to start, fail or crash give back
\* their place, and whoever has to look at the queue is woken.
JobsEnd ==
  \A j \in Jobs :
    "putOnHold" \notin calls /\ Exists(j) ~> ~Exists(j) \/ Unconnected(j)

Queued(j) == Contains(d.joblist, j)

\* The comment in startJobScheduled: no starvation, the first entry of the
\* queue is skipped at most 2 times in a row.
NoStarvation == \A j \in Jobs : Queued(j) ~> ~Queued(j)
=============================================================================
