-------------------------- MODULE SchedulerProofs ---------------------------
(***************************************************************************)
(* What KIO::Scheduler keeps true of its slaves and jobs, for any number   *)
(* of them, any maxSlaves and any application that neither kills a job     *)
(* that waits for a connected slave while that executes another one nor    *)
(* disconnects a slave that is not connected yet: those two break it.      *)
(***************************************************************************)
EXTENDS Scheduler, SequenceLemmas

-----------------------------------------------------------------------------
(* The type invariant *)

LEMMA UrlsOfJobs ==
  \A j \in Jobs : url[j] \in Urls /\ host[url[j]] \in Range(host)
BY UrlAssumption DEF Urls, Range

\* jobFinished and slotSlaveDied, field by field.
LEMMA JobFinishedFacts ==
  ASSUME NEW D \in Schedulers, NEW s \in Slaves, NEW alive \in BOOLEAN
  PROVE  LET E == jobFinished(D, s, alive) IN
         /\ E \in Schedulers
         /\ E.newJobs = D.newJobs /\ E.joblist = D.joblist /\ E.queue = D.queue
         /\ E.coSlaves = D.coSlaves
         /\ E.slaveOnHold = D.slaveOnHold /\ E.urlOnHold = D.urlOnHold
         /\ E.activeSlaves = [D.activeSlaves EXCEPT ![s] = 0]
         /\ E.idleSlaves = IF alive /\ s \notin D.coSlaves
                             THEN Append(D.idleSlaves, s) ELSE D.idleSlaves
         /\ E.coIdleSlaves = IF alive /\ s \in D.coSlaves
                               THEN D.coIdleSlaves \union {s} ELSE D.coIdleSlaves
<1> DEFINE E == jobFinished(D, s, alive)
<1>1. CASE ~alive
  BY <1>1 DEF jobFinished, Schedulers
<1>2. CASE alive /\ s \in D.coSlaves
  BY <1>2 DEF jobFinished, Schedulers
<1>3. CASE alive /\ s \notin D.coSlaves
  <2>1. Append(D.idleSlaves, s) \in Seq(Slaves)
    BY AppendProperties DEF Schedulers
  <2> QED BY <1>3, <2>1 DEF jobFinished, Schedulers
<1> QED BY <1>1, <1>2, <1>3

LEMMA SlaveDiedFacts ==
  ASSUME NEW D \in Schedulers, NEW s \in Slaves
  PROVE  LET E == slotSlaveDied(D, s) IN
         /\ E \in Schedulers
         /\ E.newJobs = D.newJobs /\ E.joblist = D.joblist
         /\ E.queue = [D.queue EXCEPT ![s] = <<>>]
         /\ E.coSlaves = D.coSlaves \ {s} /\ E.coIdleSlaves = D.coIdleSlaves \ {s}
         /\ E.activeSlaves = [D.activeSlaves EXCEPT ![s] = 0]
         /\ E.idleSlaves = removeAll(D.idleSlaves, s)
         /\ E.slaveOnHold = IF D.slaveOnHold = s THEN NoSlave ELSE D.slaveOnHold
         /\ D.slaveOnHold # s => E.urlOnHold = D.urlOnHold
<1> DEFINE held == D.slaveOnHold = s
           C == [D EXCEPT !.activeSlaves[s] = 0,
                          !.idleSlaves = removeAll(@, s),
                          !.slaveOnHold = IF held THEN NoSlave ELSE @,
                          !.urlOnHold = IF held THEN NoUrl ELSE @]
<1>1. removeAll(D.idleSlaves, s) \in Seq(Slaves)
  BY WithoutSet DEF removeAll, Schedulers
<1>2. /\ C \in Schedulers
      /\ C.newJobs = D.newJobs /\ C.joblist = D.joblist /\ C.queue = D.queue
      /\ C.coSlaves = D.coSlaves /\ C.coIdleSlaves = D.coIdleSlaves
      /\ C.activeSlaves = [D.activeSlaves EXCEPT ![s] = 0]
      /\ C.idleSlaves = removeAll(D.idleSlaves, s)
      /\ C.slaveOnHold = IF held THEN NoSlave ELSE D.slaveOnHold
      /\ ~held => C.urlOnHold = D.urlOnHold
  BY <1>1 DEF Schedulers
<1>3. slotSlaveDied(D, s) = Disconnected(C, s)
  BY DEF slotSlaveDied
<1> HIDE DEF C
<1>4. [C.queue EXCEPT ![s] = <<>>] \in [Slaves -> Seq(Jobs)]
  BY <1>2 DEF Schedulers
<1>5. LET E == Disconnected(C, s) IN
      /\ E \in Schedulers
      /\ E.newJobs = C.newJobs /\ E.joblist = C.joblist
      /\ E.queue = [C.queue EXCEPT ![s] = <<>>]
      /\ E.coSlaves = C.coSlaves \ {s} /\ E.coIdleSlaves = C.coIdleSlaves \ {s}
      /\ E.activeSlaves = C.activeSlaves /\ E.idleSlaves = C.idleSlaves
      /\ E.slaveOnHold = C.slaveOnHold /\ E.urlOnHold = C.urlOnHold
  BY <1>2, <1>4 DEF Disconnected, Schedulers
<1> QED BY <1>2, <1>3, <1>5

LEMMA EndedType ==
  ASSUME TypeOK, NEW K
  PROVE  Ended(K) \in [Jobs -> [state : {"none", "created", "ended"},
                                slave : Slaves \union {NoSlave}]]
BY DEF TypeOK, Ended

LEMMA NewSlaveFacts ==
  ASSUME TypeOK, MayCreateSlave
  PROVE  NewSlave \in Slaves /\ ~slave[NewSlave].exists
BY DEF NewSlave, MayCreateSlave, Objects

LEMMA SearchFacts ==
  ASSUME TypeOK, NEW u
  PROVE  \/ d.idleSlaves = <<>> /\ searchIdleList(u) = NoSlave
         \/ searchIdleList(u) \in ToSet(d.idleSlaves) \intersect Slaves
<1> DEFINE L == d.idleSlaves
<1>1. L \in Seq(Slaves)
  BY DEF TypeOK, Schedulers
<1>2. CASE L = <<>>
  BY <1>2 DEF searchIdleList
<1>3. CASE L # <<>>
  <2> DEFINE i == IF SameHost(u) = {} THEN 1 ELSE Min(SameHost(u))
  <2>1. Len(L) \in Nat \ {0} /\ DOMAIN L = 1..Len(L)
    BY <1>1, <1>3
  <2>2. SameHost(u) \subseteq 1..Len(L)
    BY <2>1 DEF SameHost
  <2>3. SameHost(u) # {} => Min(SameHost(u)) \in SameHost(u)
    <3>1. SameHost(u) \subseteq Nat
      BY <2>1, <2>2
    <3> QED BY <3>1, MinOfNaturals
  <2>4. i \in 1..Len(L)
    BY <2>1, <2>2, <2>3
  <2>5. searchIdleList(u) = L[i]
    BY <1>3 DEF searchIdleList
  <2> HIDE DEF i
  <2>6. L[i] \in ToSet(L) /\ L[i] \in Slaves
    BY <1>1, <2>1, <2>4 DEF ToSet
  <2> QED BY <2>5, <2>6
<1> QED BY <1>2, <1>3

\* The entry that startJobScheduled starts is one it has looked at.
LEMMA ChosenFacts ==
  ASSUME TypeOK, d.joblist # <<>>
  PROVE  /\ Looked \in 1..Len(d.joblist) /\ Chosen \in 1..Looked
         /\ d.joblist[Chosen] \in Jobs \intersect ToSet(d.joblist)
<1> DEFINE n == Len(d.joblist)
           last == Min({n, Lookahead})
           I == {last} \union {i \in 1..last : ExactAt(i) \/ FoundAt(i) = NoSlave}
<1>1. d.joblist \in Seq(Jobs) /\ n \in Nat \ {0} /\ DOMAIN d.joblist = 1..n
  BY DEF TypeOK, Schedulers
<1>2. Lookahead \in Nat \ {0}
  BY LimitsAssumption
<1>3. last \in 1..n
  <2>1. {n, Lookahead} \subseteq Nat
    BY <1>1, <1>2
  <2>2. \A k \in {n, Lookahead} : Min({n, Lookahead}) <= k
    BY <2>1, LeastNatural DEF Min
  <2>3. Min({n, Lookahead}) \in {n, Lookahead}
    BY <2>1, MinOfNaturals
  <2> QED BY <1>1, <1>2, <2>2, <2>3
<1> HIDE DEF last
<1>4. LastLooked \in 1..n
  <2>1. I \subseteq 1..n /\ I # {}
    BY <1>1, <1>3
  <2>2. LastLooked = Min(I)
    BY DEF LastLooked, last
  <2> HIDE DEF I
  <2>3. I \subseteq Nat
    BY <1>1, <2>1
  <2> QED BY <2>1, <2>2, <2>3, MinOfNaturals
<1>5. Looked \in 1..n /\ Chosen \in 1..Looked
  BY <1>1, <1>4 DEF Looked, Chosen
<1>6. d.joblist[Chosen] \in Jobs \intersect ToSet(d.joblist)
  BY <1>1, <1>5 DEF ToSet
<1> QED BY <1>5, <1>6

-----------------------------------------------------------------------------
(* What startJobDirect and startJobScheduled may do                         *)

\* The slave on hold is left alone, or is discarded, or found for a job that
\* is not started: S are the slaves then.
Searched(S) ==
  \/ /\ d'.slaveOnHold = d.slaveOnHold /\ d'.urlOnHold = d.urlOnHold
     /\ S = slave
  \/ /\ d'.slaveOnHold = NoSlave /\ d'.urlOnHold = NoUrl
     /\ S = slave \/ S = Killed(slave, {d.slaveOnHold})

OnSlave(s, j) ==
  /\ d'.activeSlaves = [d.activeSlaves EXCEPT ![s] = @ + 1]
  /\ d'.idleSlaves = removeAll(d.idleSlaves, s)
  /\ job' = [job EXCEPT ![j].slave = s]

OnSlaveOnHold(s, j) ==
  /\ s = d.slaveOnHold /\ url[j] = d.urlOnHold /\ d'.slaveOnHold = NoSlave
  /\ OnSlave(s, j)
  /\ slave' = Started(slave, s, j)

OnIdleSlave(s, j) ==
  /\ s \in ToSet(d.idleSlaves)
  /\ OnSlave(s, j)
  /\ \E S : Searched(S) /\ slave' = Started(S, s, j)

OnNewSlave(s, j) ==
  /\ ~slave[s].exists /\ d.idleSlaves = <<>>
  /\ OnSlave(s, j)
  /\ \E S : Searched(S) /\ slave' = Started(Created(S, s), s, j)

NotStarted == Searched(slave') /\ UNCHANGED <<d.activeSlaves, d.idleSlaves>>

\* The outcomes for the job j.
Outcome(j) ==
  /\ d' \in Schedulers
  /\ UNCHANGED <<d.queue, d.coSlaves, d.coIdleSlaves, calls>>
  /\ \/ \E s \in Slaves : OnSlaveOnHold(s, j)
     \/ \E s \in Slaves : OnIdleSlave(s, j)
     \/ \E s \in Slaves : OnNewSlave(s, j)
     \/ NotStarted /\ job' = Ended({j})

LEMMA AfterFindFacts ==
  ASSUME TypeOK, NEW K, NEW M, M \subseteq K
  PROVE  LET D == AfterFind(K)
             S == Killed(slave, Discarded(M)) IN
         /\ D \in Schedulers
         /\ D.newJobs = d.newJobs /\ D.joblist = d.joblist /\ D.queue = d.queue
         /\ D.coSlaves = d.coSlaves /\ D.coIdleSlaves = d.coIdleSlaves
         /\ D.activeSlaves = d.activeSlaves /\ D.idleSlaves = d.idleSlaves
         /\ \/ /\ D.slaveOnHold = d.slaveOnHold /\ D.urlOnHold = d.urlOnHold
               /\ S = slave
            \/ /\ D.slaveOnHold = NoSlave /\ D.urlOnHold = NoUrl
               /\ S = slave \/ S = Killed(slave, {d.slaveOnHold})
         /\ K \intersect Gets # {} => D.slaveOnHold = NoSlave
         /\ Discarded(M) = {} => S = slave
<1>1. Discarded(M) = {} \/ Discarded(M) = {d.slaveOnHold}
  BY DEF Discarded
<1>2. Killed(slave, {}) = slave
  BY DEF Killed, TypeOK
<1>3. Discarded(M) # {} => K \intersect Gets # {}
  BY DEF Discarded
<1>4. CASE K \intersect Gets = {}
  BY <1>1, <1>2, <1>3, <1>4 DEF AfterFind, TypeOK
<1>5. CASE K \intersect Gets # {}
  BY <1>1, <1>2, <1>5 DEF AfterFind, NotOnHold, TypeOK, Schedulers
<1> QED BY <1>4, <1>5

\* D and S: what findIdleSlave has made of the scheduler and of the slaves.
Prepared(D, S) ==
  /\ D \in Schedulers
  /\ D.queue = d.queue
  /\ D.coSlaves = d.coSlaves /\ D.coIdleSlaves = d.coIdleSlaves
  /\ D.activeSlaves = d.activeSlaves /\ D.idleSlaves = d.idleSlaves
  /\ \/ /\ D.slaveOnHold = d.slaveOnHold /\ D.urlOnHold = d.urlOnHold
        /\ S = slave
     \/ /\ D.slaveOnHold = NoSlave /\ D.urlOnHold = NoUrl
        /\ S = slave \/ S = Killed(slave, {d.slaveOnHold})

\* s: the slave that findIdleSlave has found for j.
Found(D, S, s, j) ==
  \/ /\ s = d.slaveOnHold /\ s \in Slaves /\ url[j] = d.urlOnHold
     /\ D.slaveOnHold = NoSlave /\ S = slave
  \/ s \in ToSet(d.idleSlaves) \intersect Slaves
  \/ s = NoSlave /\ d.idleSlaves = <<>>

\* What becomes of the lists of waiting jobs.
Waiting(D, j) ==
  /\ d'.newJobs = D.newJobs
  /\ d'.joblist = D.joblist \/ d'.joblist = removeAll(D.joblist, j)

LEMMA StartForm ==
  ASSUME NEW D \in Schedulers, NEW S, NEW s \in Slaves, NEW j \in Jobs,
         Prepared(D, S), Start(D, S, s, j)
  PROVE  /\ d' \in Schedulers
         /\ d'.newJobs = D.newJobs /\ d'.joblist = D.joblist
         /\ d'.queue = D.queue /\ d'.coSlaves = D.coSlaves
         /\ d'.coIdleSlaves = D.coIdleSlaves
         /\ d'.slaveOnHold = D.slaveOnHold /\ d'.urlOnHold = D.urlOnHold
         /\ d'.activeSlaves = [D.activeSlaves EXCEPT ![s] = @ + 1]
         /\ d'.idleSlaves = removeAll(D.idleSlaves, s)
         /\ slave' = Started(S, s, j) /\ job' = [job EXCEPT ![j].slave = s]
<1>1. removeAll(D.idleSlaves, s) \in Seq(Slaves)
  BY WithoutSet DEF removeAll, Schedulers
<1>2. [D.activeSlaves EXCEPT ![s] = @ + 1] \in [Slaves -> Nat]
  BY DEF Schedulers
<1> QED BY <1>1, <1>2 DEF Start, Schedulers

LEMMA StartOutcome ==
  ASSUME TypeOK, UNCHANGED calls,
         NEW D, NEW S, NEW s, NEW j \in Jobs,
         Prepared(D, S), Found(D, S, s, j),
         \/ s # NoSlave /\ Start(D, S, s, j)
         \/ s = NoSlave /\ MayCreateSlave /\ Start(D, Created(S, NewSlave), NewSlave, j)
         \/ s = NoSlave /\ StartFails(D, S, j)
  PROVE  Outcome(j) /\ Waiting(D, j)
<1>1. NoSlave \notin Slaves /\ D \in Schedulers
  BY PoolAssumption DEF Prepared
<1>2. CASE s # NoSlave /\ Start(D, S, s, j)
  <2>1. s \in Slaves
    BY <1>2 DEF Found
  <2>2. /\ d' \in Schedulers
        /\ d'.newJobs = D.newJobs /\ d'.joblist = D.joblist
        /\ d'.queue = D.queue /\ d'.coSlaves = D.coSlaves
        /\ d'.coIdleSlaves = D.coIdleSlaves
        /\ d'.slaveOnHold = D.slaveOnHold /\ d'.urlOnHold = D.urlOnHold
        /\ d'.activeSlaves = [D.activeSlaves EXCEPT ![s] = @ + 1]
        /\ d'.idleSlaves = removeAll(D.idleSlaves, s)
        /\ slave' = Started(S, s, j) /\ job' = [job EXCEPT ![j].slave = s]
    BY <1>1, <1>2, <2>1, StartForm
  <2>3. OnSlave(s, j)
    BY <2>2 DEF OnSlave, Prepared
  <2>4. OnSlaveOnHold(s, j) \/ OnIdleSlave(s, j)
    <3>1. Searched(S)
      BY <2>2 DEF Searched, Prepared
    <3> QED BY <1>1, <2>1, <2>2, <2>3, <3>1 DEF Found, OnSlaveOnHold, OnIdleSlave
  <2> QED BY <2>1, <2>2, <2>4 DEF Outcome, Waiting, Prepared
<1>3. CASE /\ s = NoSlave /\ MayCreateSlave
           /\ Start(D, Created(S, NewSlave), NewSlave, j)
  <2>1. PICK n \in Slaves : n = NewSlave /\ ~slave[n].exists
    BY <1>3, NewSlaveFacts
  <2>2. /\ d' \in Schedulers
        /\ d'.newJobs = D.newJobs /\ d'.joblist = D.joblist
        /\ d'.queue = D.queue /\ d'.coSlaves = D.coSlaves
        /\ d'.coIdleSlaves = D.coIdleSlaves
        /\ d'.slaveOnHold = D.slaveOnHold /\ d'.urlOnHold = D.urlOnHold
        /\ d'.activeSlaves = [D.activeSlaves EXCEPT ![n] = @ + 1]
        /\ d'.idleSlaves = removeAll(D.idleSlaves, n)
        /\ slave' = Started(Created(S, n), n, j) /\ job' = [job EXCEPT ![j].slave = n]
    <3> DEFINE T == Created(S, n)
    <3>1. Start(D, Created(S, n), n, j)
      BY <1>3, <2>1
    <3>2. Start(D, T, n, j) /\ Prepared(D, S)
      BY <3>1
    <3>3. /\ d' = [D EXCEPT !.activeSlaves[n] = @ + 1,
                            !.idleSlaves = removeAll(@, n)]
          /\ slave' = Started(T, n, j) /\ job' = [job EXCEPT ![j].slave = n]
      BY <3>2, Zenon DEF Start
    <3>4. removeAll(D.idleSlaves, n) \in Seq(Slaves)
      BY <1>1, WithoutSet DEF removeAll, Schedulers
    <3>5. [D.activeSlaves EXCEPT ![n] = @ + 1] \in [Slaves -> Nat]
      BY <1>1, <2>1 DEF Schedulers
    <3> HIDE DEF T
    <3>6. /\ d' \in Schedulers
          /\ d'.newJobs = D.newJobs /\ d'.joblist = D.joblist
          /\ d'.queue = D.queue /\ d'.coSlaves = D.coSlaves
          /\ d'.coIdleSlaves = D.coIdleSlaves
          /\ d'.slaveOnHold = D.slaveOnHold /\ d'.urlOnHold = D.urlOnHold
          /\ d'.activeSlaves = [D.activeSlaves EXCEPT ![n] = @ + 1]
          /\ d'.idleSlaves = removeAll(D.idleSlaves, n)
      BY <1>1, <2>1, <3>3, <3>4, <3>5 DEF Schedulers
    <3> QED BY <3>3, <3>6 DEF T
  <2>3. d.idleSlaves = <<>>
    <3>1. s \notin Slaves
      BY <1>1, <1>3
    <3> QED BY <3>1 DEF Found
  <2>4. Searched(S) /\ OnSlave(n, j)
    BY <2>2 DEF Searched, OnSlave, Prepared
  <2>5. OnNewSlave(n, j)
    BY <2>1, <2>2, <2>3, <2>4 DEF OnNewSlave
  <2> QED BY <2>2, <2>5 DEF Outcome, Waiting, Prepared
<1>4. CASE s = NoSlave /\ StartFails(D, S, j)
  <2>1. removeAll(D.joblist, j) \in Seq(Jobs)
    BY <1>1, WithoutSet DEF removeAll, Schedulers
  <2>2. /\ d' \in Schedulers /\ d'.newJobs = D.newJobs
        /\ d'.joblist = removeAll(D.joblist, j)
        /\ d'.queue = D.queue /\ d'.coSlaves = D.coSlaves
        /\ d'.coIdleSlaves = D.coIdleSlaves
        /\ d'.slaveOnHold = D.slaveOnHold /\ d'.urlOnHold = D.urlOnHold
        /\ d'.activeSlaves = D.activeSlaves /\ d'.idleSlaves = D.idleSlaves
        /\ slave' = S /\ job' = Ended({j})
    BY <1>1, <1>4, <2>1 DEF StartFails, Schedulers
  <2>3. NotStarted
    BY <2>2 DEF NotStarted, Searched, Prepared
  <2> QED BY <2>2, <2>3 DEF Outcome, Waiting, Prepared
<1> QED BY <1>2, <1>3, <1>4

LEMMA DirectOutcome ==
  ASSUME TypeOK, StartJobDirect
  PROVE  LET j == Head(d.newJobs) IN
         /\ d.newJobs # <<>> /\ j \in Jobs /\ Outcome(j)
         /\ d'.newJobs = Tail(d.newJobs)
         /\ d'.joblist = d.joblist \/ d'.joblist = removeAll(d.joblist, j)
<1>1. /\ d.newJobs # <<>> /\ Head(d.newJobs) \in Jobs
      /\ Tail(d.newJobs) \in Seq(Jobs)
  BY DEF StartJobDirect, TypeOK, Schedulers
<1>2. PICK j \in Jobs : j = Head(d.newJobs)
  BY <1>1
<1> DEFINE A == AfterFind({j})
           D == [A EXCEPT !.newJobs = Tail(@)]
           S == Killed(slave, Discarded({j}))
           s == findIdleSlave(j)
<1>3. /\ UNCHANGED calls
      /\ \/ s # NoSlave /\ Start(D, S, s, j)
         \/ s = NoSlave /\ MayCreateSlave /\ Start(D, Created(S, NewSlave), NewSlave, j)
         \/ s = NoSlave /\ StartFails(D, S, j)
  BY <1>2 DEF StartJobDirect
<1>4. /\ A \in Schedulers
      /\ A.newJobs = d.newJobs /\ A.joblist = d.joblist /\ A.queue = d.queue
      /\ A.coSlaves = d.coSlaves /\ A.coIdleSlaves = d.coIdleSlaves
      /\ A.activeSlaves = d.activeSlaves /\ A.idleSlaves = d.idleSlaves
      /\ \/ /\ A.slaveOnHold = d.slaveOnHold /\ A.urlOnHold = d.urlOnHold
            /\ S = slave
         \/ /\ A.slaveOnHold = NoSlave /\ A.urlOnHold = NoUrl
            /\ S = slave \/ S = Killed(slave, {d.slaveOnHold})
      /\ {j} \intersect Gets # {} => A.slaveOnHold = NoSlave
      /\ Discarded({j}) = {} => S = slave
  BY AfterFindFacts
<1>5. \/ Reuses(j) /\ s = d.slaveOnHold /\ Discarded({j}) = {}
      \/ ~Reuses(j) /\ s = searchIdleList(url[j])
  BY DEF findIdleSlave, Discarded
<1>6. \/ d.idleSlaves = <<>> /\ searchIdleList(url[j]) = NoSlave
      \/ searchIdleList(url[j]) \in ToSet(d.idleSlaves) \intersect Slaves
  BY SearchFacts
<1>7. d.slaveOnHold \in Slaves \union {NoSlave}
  BY DEF TypeOK, Schedulers
<1>8. Reuses(j) => /\ d.slaveOnHold # NoSlave /\ url[j] = d.urlOnHold
                   /\ {j} \intersect Gets # {}
  BY DEF Reuses
<1>9. D = [A EXCEPT !.newJobs = Tail(@)]
  OBVIOUS
<1> HIDE DEF A, D, S, s
<1>10. /\ Prepared(D, S)
       /\ D.newJobs = Tail(d.newJobs) /\ D.joblist = d.joblist
       /\ D.slaveOnHold = A.slaveOnHold
  BY <1>1, <1>4, <1>9 DEF Prepared, Schedulers
<1>11. Found(D, S, s, j)
  BY <1>4, <1>5, <1>6, <1>7, <1>8, <1>10 DEF Found
<1>12. Outcome(j) /\ Waiting(D, j)
  BY <1>3, <1>10, <1>11, StartOutcome
<1> QED BY <1>1, <1>2, <1>10, <1>12 DEF Waiting

\* No slave is found, and none may be created.
Nothing ==
  /\ d' \in Schedulers /\ NotStarted
  /\ UNCHANGED <<d.newJobs, d.joblist, d.queue, d.coSlaves, d.coIdleSlaves,
                 job, calls>>

LEMMA ScheduledOutcome ==
  ASSUME TypeOK, StartJobScheduled
  PROVE  \/ Nothing
         \/ \E j \in Jobs \intersect ToSet(d.joblist) :
              /\ Outcome(j) /\ d'.newJobs = d.newJobs
              /\ \/ d'.joblist = RemoveFirst(d.joblist, j)
                 \/ d'.joblist = removeAll(RemoveFirst(d.joblist, j), j)
<1>1. d.joblist # <<>> /\ d.joblist \in Seq(Jobs) /\ UNCHANGED calls
  BY DEF StartJobScheduled, TypeOK, Schedulers
<1>2. /\ Looked \in 1..Len(d.joblist) /\ Chosen \in 1..Looked
      /\ d.joblist[Chosen] \in Jobs \intersect ToSet(d.joblist)
  BY <1>1, ChosenFacts
<1>3. PICK j \in Jobs \intersect ToSet(d.joblist) : j = d.joblist[Chosen]
  BY <1>2
<1> DEFINE K == {d.joblist[i] : i \in 1..Looked}
           A == AfterFind(K)
           D == [A EXCEPT !.skipCount = Skips]
           S == Killed(slave, Discarded(FirstGetOf(K)))
           s == FoundAt(Chosen)
           E == [D EXCEPT !.joblist = RemoveFirst(@, j), !.slaveTimer = TRUE]
<1>4. \/ s # NoSlave /\ Start(E, S, s, j)
      \/ s = NoSlave /\ MayCreateSlave /\ Start(E, Created(S, NewSlave), NewSlave, j)
      \/ s = NoSlave /\ StartFails(E, S, j)
      \/ d' = D /\ slave' = S /\ UNCHANGED job
  BY <1>3 DEF StartJobScheduled
<1>5. /\ A \in Schedulers
      /\ A.newJobs = d.newJobs /\ A.joblist = d.joblist /\ A.queue = d.queue
      /\ A.coSlaves = d.coSlaves /\ A.coIdleSlaves = d.coIdleSlaves
      /\ A.activeSlaves = d.activeSlaves /\ A.idleSlaves = d.idleSlaves
      /\ \/ /\ A.slaveOnHold = d.slaveOnHold /\ A.urlOnHold = d.urlOnHold
            /\ S = slave
         \/ /\ A.slaveOnHold = NoSlave /\ A.urlOnHold = NoUrl
            /\ S = slave \/ S = Killed(slave, {d.slaveOnHold})
      /\ K \intersect Gets # {} => A.slaveOnHold = NoSlave
      /\ Discarded(FirstGetOf(K)) = {} => S = slave
  <2>1. FirstGetOf(K) \subseteq K
    BY DEF FirstGetOf
  <2> QED BY <2>1, AfterFindFacts
<1>6. /\ ReusesAt(Chosen) => /\ s = d.slaveOnHold
                             /\ Chosen = FirstGet /\ Reuses(j)
      /\ ~ReusesAt(Chosen) => s = searchIdleList(url[j])
  BY <1>3 DEF ReusesAt, FoundAt
<1>7. ReusesAt(Chosen) => Discarded(FirstGetOf(K)) = {}
  <2>1. ReusesAt(Chosen) => FirstGetOf(K) \subseteq {j}
    BY <1>3, <1>6 DEF FirstGetOf
  <2> QED BY <1>6, <2>1, Zenon DEF Discarded
<1>8. Reuses(j) => /\ d.slaveOnHold # NoSlave /\ url[j] = d.urlOnHold
                   /\ K \intersect Gets # {}
  BY <1>2, <1>3 DEF Reuses
<1>9. \/ d.idleSlaves = <<>> /\ searchIdleList(url[j]) = NoSlave
      \/ searchIdleList(url[j]) \in ToSet(d.idleSlaves) \intersect Slaves
  BY SearchFacts
<1>10. d.slaveOnHold \in Slaves \union {NoSlave} /\ Skips \in Nat
  BY DEF TypeOK, Schedulers, Skips
<1>11. RemoveFirst(d.joblist, j) \in Seq(Jobs)
  BY <1>1, RemoveFirstSet
<1>12. D = [A EXCEPT !.skipCount = Skips]
  OBVIOUS
<1>13. E = [D EXCEPT !.joblist = RemoveFirst(@, j), !.slaveTimer = TRUE]
  OBVIOUS
<1> HIDE DEF A, D, S, s, E
<1>14. /\ Prepared(D, S) /\ D.newJobs = d.newJobs /\ D.joblist = d.joblist
       /\ D.slaveOnHold = A.slaveOnHold
  BY <1>5, <1>10, <1>12 DEF Prepared, Schedulers
<1>15. /\ Prepared(E, S) /\ E.newJobs = d.newJobs
       /\ E.joblist = RemoveFirst(d.joblist, j) /\ E.slaveOnHold = A.slaveOnHold
  BY <1>11, <1>13, <1>14 DEF Prepared, Schedulers
<1>16. Found(E, S, s, j)
  BY <1>5, <1>6, <1>7, <1>8, <1>9, <1>10, <1>15 DEF Found
<1>17. CASE d' = D /\ slave' = S /\ UNCHANGED job
  BY <1>1, <1>14, <1>17 DEF Nothing, NotStarted, Searched, Prepared
<1>18. CASE ~(d' = D /\ slave' = S /\ UNCHANGED job)
  <2>1. Outcome(j) /\ Waiting(E, j)
    BY <1>1, <1>4, <1>15, <1>16, <1>18, StartOutcome
  <2> QED BY <1>3, <1>15, <2>1 DEF Waiting
<1> QED BY <1>17, <1>18

-----------------------------------------------------------------------------
(* Every step keeps the types                                               *)

SlaveArrays == [Slaves -> SlaveStates]

JobArrays ==
  [Jobs -> [state : {"none", "created", "ended"}, slave : Slaves \union {NoSlave}]]

LEMMA SlaveTypes ==
  ASSUME NEW S \in SlaveArrays
  PROVE  /\ NoObject \in SlaveStates
         /\ \A K : Killed(S, K) \in SlaveArrays
         /\ \A s \in Slaves : Created(S, s) \in SlaveArrays
         /\ \A s \in Slaves, j \in Jobs : Started(S, s, j) \in SlaveArrays
<1>1. NoObject \in SlaveStates
  BY DEF NoObject, SlaveStates
<1>2. ASSUME NEW K PROVE Killed(S, K) \in SlaveArrays
  BY DEF Killed, SlaveArrays, SlaveStates
<1>3. ASSUME NEW s \in Slaves PROVE Created(S, s) \in SlaveArrays
  <2>1. [NoObject EXCEPT !.exists = TRUE] \in SlaveStates
    BY <1>1 DEF SlaveStates
  <2> QED BY <2>1 DEF Created, SlaveArrays
<1>4. ASSUME NEW s \in Slaves, NEW j \in Jobs PROVE Started(S, s, j) \in SlaveArrays
  <2>1. host[url[j]] \in Range(host) \union {NoHost}
    BY UrlsOfJobs
  <2>2. Append(S[s].todo, j) \in Seq(Commands)
    BY AppendProperties DEF Commands, SlaveArrays, SlaveStates
  <2> DEFINE h == host[url[j]]
             q == Append(S[s].todo, j)
             r == [S[s] EXCEPT !.host = h, !.todo = q]
  <2>3. S[s] \in SlaveStates
    BY DEF SlaveArrays
  <2>4. r \in SlaveStates
    <3> HIDE DEF h, q
    <3> QED BY <2>1, <2>2, <2>3 DEF SlaveStates, h, q
  <2>5. Started(S, s, j) = [S EXCEPT ![s] = r]
    <3> HIDE DEF h, q
    <3> QED BY <2>3 DEF Started, SlaveArrays, SlaveStates, h, q
  <2> HIDE DEF r
  <2> QED BY <2>4, <2>5 DEF SlaveArrays
<1> QED BY <1>1, <1>2, <1>3, <1>4

\* One object changes.
LEMMA ObjectType ==
  ASSUME NEW S \in SlaveArrays, NEW s \in Slaves, NEW r \in SlaveStates
  PROVE  [S EXCEPT ![s] = r] \in SlaveArrays
BY DEF SlaveArrays

LEMMA SearchedType ==
  ASSUME TypeOK, NEW S, Searched(S)
  PROVE  S \in SlaveArrays
<1>1. slave \in SlaveArrays
  BY DEF TypeOK, SlaveArrays
<1> QED BY <1>1, SlaveTypes DEF Searched

LEMMA OutcomeType ==
  ASSUME TypeOK, NEW j \in Jobs, Outcome(j), inStep' \in BOOLEAN
  PROVE  TypeOK'
<1>1. /\ slave \in SlaveArrays /\ job \in JobArrays /\ d' \in Schedulers
      /\ calls' \in SUBSET Calls
  BY DEF TypeOK, SlaveArrays, JobArrays, Outcome
<1>2. slave' \in SlaveArrays /\ job' \in JobArrays
  <2>1. ASSUME NEW s \in Slaves, OnSlaveOnHold(s, j)
        PROVE  slave' \in SlaveArrays /\ job' \in JobArrays
    BY <1>1, <2>1, SlaveTypes DEF OnSlaveOnHold, OnSlave, JobArrays
  <2>2. ASSUME NEW s \in Slaves, OnIdleSlave(s, j)
        PROVE  slave' \in SlaveArrays /\ job' \in JobArrays
    <3>1. PICK S : Searched(S) /\ slave' = Started(S, s, j)
      BY <2>2 DEF OnIdleSlave
    <3>2. slave' \in SlaveArrays
      BY <3>1, SearchedType, SlaveTypes
    <3> QED BY <1>1, <2>2, <3>2 DEF OnIdleSlave, OnSlave, JobArrays
  <2>3. ASSUME NEW s \in Slaves, OnNewSlave(s, j)
        PROVE  slave' \in SlaveArrays /\ job' \in JobArrays
    <3>1. PICK S : Searched(S) /\ slave' = Started(Created(S, s), s, j)
      BY <2>3 DEF OnNewSlave
    <3>2. Created(S, s) \in SlaveArrays
      BY <3>1, SearchedType, SlaveTypes
    <3>3. slave' \in SlaveArrays
      BY <3>1, <3>2, SlaveTypes
    <3> QED BY <1>1, <2>3, <3>3 DEF OnNewSlave, OnSlave, JobArrays
  <2>4. ASSUME NotStarted, job' = Ended({j})
        PROVE  slave' \in SlaveArrays /\ job' \in JobArrays
    BY <1>1, <2>4, SearchedType, EndedType DEF NotStarted, JobArrays
  <2> QED BY <2>1, <2>2, <2>3, <2>4 DEF Outcome
<1> QED BY <1>1, <1>2 DEF TypeOK, SlaveArrays, JobArrays

LEMMA ApplicationType ==
  ASSUME TypeOK, Application
  PROVE  TypeOK'
<1>0. /\ slave \in SlaveArrays /\ job \in JobArrays /\ d \in Schedulers
      /\ calls \in SUBSET Calls /\ inStep \in BOOLEAN
  BY DEF TypeOK, SlaveArrays, JobArrays
<1>1. SUFFICES d' \in Schedulers /\ slave' \in SlaveArrays /\ job' \in JobArrays
               /\ UNCHANGED <<calls, inStep>>
  BY <1>0 DEF TypeOK, SlaveArrays, JobArrays
<1>2. \A K : Ended(K) \in JobArrays
  BY EndedType DEF JobArrays
<1>3. \A s \in Slaves : Deleted(s) \in SlaveArrays
  BY <1>0, SlaveTypes DEF Deleted, SlaveArrays
<1>4. ASSUME NEW j \in Jobs, DoJob(j) \/ ScheduleJob(j)
      PROVE  d' \in Schedulers /\ UNCHANGED <<slave, calls, inStep>> /\ job' \in JobArrays
  <2>1. Append(d.newJobs, j) \in Seq(Jobs) /\ Append(d.joblist, j) \in Seq(Jobs)
    BY <1>0, AppendProperties DEF Schedulers
  <2>2. job' \in JobArrays
    BY <1>0, <1>4 DEF DoJob, ScheduleJob, Create, JobArrays
  <2> QED BY <1>0, <1>4, <2>1, <2>2 DEF DoJob, ScheduleJob, Schedulers
<1>5. ASSUME NEW j \in Jobs, KillWaiting(j)
      PROVE  d' \in Schedulers /\ UNCHANGED <<slave, calls, inStep>> /\ job' \in JobArrays
  <2>1. removeAll(d.newJobs, j) \in Seq(Jobs) /\ removeAll(d.joblist, j) \in Seq(Jobs)
    BY <1>0, WithoutSet DEF removeAll, Schedulers
  <2> QED BY <1>0, <1>2, <1>5, <2>1 DEF KillWaiting, Schedulers
<1>6. ASSUME NEW j \in Jobs, NEW s \in Slaves, AssignJobToSlave(j, s)
      PROVE  d' \in Schedulers /\ UNCHANGED <<slave, calls, inStep>> /\ job' \in JobArrays
  <2>1. Append(d.queue[s], j) \in Seq(Jobs)
    BY <1>0, AppendProperties DEF Schedulers
  <2>2. job' \in JobArrays
    BY <1>0, <1>6 DEF AssignJobToSlave, Create, JobArrays
  <2>3. [d.queue EXCEPT ![s] = Append(@, j)] \in [Slaves -> Seq(Jobs)]
    BY <1>0, <2>1 DEF Schedulers
  <2> QED BY <1>0, <1>6, <2>2, <2>3 DEF AssignJobToSlave, Schedulers
<1>7. ASSUME NEW j \in Jobs, NEW s \in Slaves, KillWithSlave(j, s)
      PROVE  d' \in Schedulers /\ slave' \in SlaveArrays /\ job' \in JobArrays
             /\ UNCHANGED <<calls, inStep>>
  <2>1. jobFinished(d, s, FALSE) \in Schedulers
    BY <1>0, JobFinishedFacts
  <2> QED BY <1>2, <1>3, <1>7, <2>1, SlaveDiedFacts DEF KillWithSlave
<1>8. ASSUME RemoveSlaveOnHold
      PROVE  d' \in Schedulers /\ slave' \in SlaveArrays /\ UNCHANGED <<job, calls, inStep>>
  BY <1>0, <1>8, SlaveTypes DEF RemoveSlaveOnHold, NotOnHold, Schedulers
<1>9. ASSUME PublishSlaveOnHold
      PROVE  d' \in Schedulers /\ slave' \in SlaveArrays /\ job' \in JobArrays
             /\ UNCHANGED <<calls, inStep>>
  <2>1. d.slaveOnHold \in Slaves
    BY <1>0, <1>9 DEF PublishSlaveOnHold, Schedulers
  <2> QED BY <1>0, <1>2, <1>3, <1>9, <2>1, SlaveDiedFacts DEF PublishSlaveOnHold
<1>10. ASSUME NEW u \in ConnectUrls, GetConnectedSlave(u)
       PROVE  d' \in Schedulers /\ slave' \in SlaveArrays /\ UNCHANGED <<job, calls, inStep>>
  <2>1. PICK s \in Slaves, S \in SlaveArrays :
          /\ d' = [d EXCEPT !.idleSlaves = removeAll(@, s), !.coSlaves = @ \union {s}]
          /\ slave' = [S EXCEPT ![s].host = host[u], ![s].connecting = TRUE,
                                ![s].todo = Append(@, Connect)]
    <3>1. CASE searchIdleList(u) = NoSlave
      <4>1. MayCreateSlave
        BY <1>10, <3>1 DEF GetConnectedSlave
      <4>2. PICK n \in Slaves : n = NewSlave
        BY <4>1, NewSlaveFacts
      <4>3. Created(slave, n) \in SlaveArrays
        BY <1>0, SlaveTypes
      <4> QED BY <1>10, <3>1, <4>2, <4>3 DEF GetConnectedSlave
    <3>2. CASE searchIdleList(u) # NoSlave
      <4>1. searchIdleList(u) \in Slaves
        BY <3>2, SearchFacts
      <4> QED BY <1>0, <1>10, <3>2, <4>1 DEF GetConnectedSlave
    <3> QED BY <3>1, <3>2
  <2>2. removeAll(d.idleSlaves, s) \in Seq(Slaves)
    BY <1>0, WithoutSet DEF removeAll, Schedulers
  <2>3. host[u] \in Range(host)
    BY UrlAssumption DEF Range
  <2>4. Append(S[s].todo, Connect) \in Seq(Commands)
    BY AppendProperties DEF Commands, SlaveArrays, SlaveStates
  <2>5. d' \in Schedulers
    BY <1>0, <2>1, <2>2 DEF Schedulers
  <2>6. slave' \in SlaveArrays
    BY <2>1, <2>3, <2>4 DEF SlaveArrays, SlaveStates
  <2> QED BY <1>10, <2>5, <2>6 DEF GetConnectedSlave
<1>11. ASSUME NEW s \in Slaves, DisconnectSlave(s)
       PROVE  d' \in Schedulers /\ slave' \in SlaveArrays /\ job' \in JobArrays
              /\ UNCHANGED <<calls, inStep>>
  <2>1. /\ Append(d.idleSlaves, s) \in Seq(Slaves)
        /\ [d.queue EXCEPT ![s] = <<>>] \in [Slaves -> Seq(Jobs)]
    BY <1>0, AppendProperties DEF Schedulers
  <2>2. d' \in Schedulers
    <3> DEFINE E == Disconnected(d, s)
    <3>1. E \in Schedulers /\ E.idleSlaves = d.idleSlaves
      BY <1>0, <2>1 DEF Disconnected, Schedulers
    <3>2. d' = [E EXCEPT !.idleSlaves = Append(@, s)]
      BY <1>11 DEF DisconnectSlave
    <3> HIDE DEF E
    <3> QED BY <2>1, <3>1, <3>2 DEF Schedulers
  <2>3. slave' \in SlaveArrays
    <3> DEFINE r == [slave[s] EXCEPT !.contacted = FALSE, !.connecting = FALSE]
    <3>1. r \in SlaveStates
      BY <1>0 DEF SlaveArrays, SlaveStates
    <3>2. slave' = [slave EXCEPT ![s] = r]
      BY <1>0, <1>11 DEF DisconnectSlave, SlaveArrays
    <3> HIDE DEF r
    <3> QED BY <1>0, <3>1, <3>2, ObjectType
  <2> QED BY <1>2, <1>11, <2>2, <2>3 DEF DisconnectSlave
<1> QED BY <1>0, <1>1, <1>4, <1>5, <1>6, <1>7, <1>8, <1>9, <1>10, <1>11 DEF Application

LEMMA InputType ==
  ASSUME TypeOK, NEW s \in Slaves,
         \/ Input(s) \/ (\E j \in Jobs : PutSlaveOnHold(j, s))
         \/ CleanIdleSlave(s) \/ Process(s) \/ Crash(s)
  PROVE  TypeOK'
<1>0. /\ slave \in SlaveArrays /\ job \in JobArrays /\ d \in Schedulers
      /\ calls \in SUBSET Calls /\ inStep \in BOOLEAN
  BY DEF TypeOK, SlaveArrays, JobArrays
<1>1. SUFFICES d' \in Schedulers /\ slave' \in SlaveArrays /\ job' \in JobArrays
               /\ UNCHANGED <<calls, inStep>>
  BY <1>0 DEF TypeOK, SlaveArrays, JobArrays
<1>2. \A K : Ended(K) \in JobArrays
  BY EndedType DEF JobArrays
<1>3. Deleted(s) \in SlaveArrays
  BY <1>0, SlaveTypes DEF Deleted, SlaveArrays
<1>4. slave[s].out # <<>> => Read(s) \in SlaveArrays
  <2>1. slave[s].out # <<>> => Tail(slave[s].out) \in Seq(Messages)
    BY <1>0 DEF SlaveArrays, SlaveStates
  <2> QED BY <1>0, <2>1 DEF Read, SlaveArrays, SlaveStates
<1>5. ASSUME SlaveConnected(s)
      PROVE  d' \in Schedulers /\ slave' \in SlaveArrays /\ UNCHANGED <<job, calls, inStep>>
  <2> DEFINE R == Read(s)
  <2>1. R \in SlaveArrays
    BY <1>4, <1>5 DEF SlaveConnected, Receives
  <2>2. \/ /\ d' = [d EXCEPT !.coIdleSlaves = @ \union {s}, !.coSlaveTimer = TRUE]
           /\ slave' = [R EXCEPT ![s].contacted = TRUE, ![s].connecting = FALSE]
        \/ slave' = R /\ UNCHANGED d
    BY <1>5 DEF SlaveConnected
  <2> HIDE DEF R
  <2>3. slave' \in SlaveArrays
    <3> DEFINE r == [R[s] EXCEPT !.contacted = TRUE, !.connecting = FALSE]
    <3>1. r \in SlaveStates
      BY <2>1 DEF SlaveArrays, SlaveStates
    <3>2. slave' = [R EXCEPT ![s] = r] \/ slave' = R
      BY <2>1, <2>2 DEF SlaveArrays
    <3> HIDE DEF r
    <3> QED BY <2>1, <3>1, <3>2, ObjectType
  <2>4. d' \in Schedulers
    <3>1. \/ d' = [d EXCEPT !.coIdleSlaves = @ \union {s}, !.coSlaveTimer = TRUE]
          \/ d' = d
      BY <2>2
    <3>2. [d EXCEPT !.coIdleSlaves = @ \union {s}, !.coSlaveTimer = TRUE]
            \in Schedulers
      BY <1>0 DEF Schedulers
    <3> QED BY <1>0, <3>1, <3>2
  <2> QED BY <1>5, <2>3, <2>4 DEF SlaveConnected
<1>6. ASSUME MimeType(s)
      PROVE  slave' \in SlaveArrays /\ UNCHANGED <<d, job, calls, inStep>>
  <2> DEFINE R == Read(s)
  <2>1. R \in SlaveArrays
    BY <1>4, <1>6 DEF MimeType, Receives
  <2>2. slave' = [R EXCEPT ![s].phase = "going"]
    BY <1>6 DEF MimeType
  <2> HIDE DEF R
  <2>3. slave' \in SlaveArrays
    BY <2>1, <2>2 DEF SlaveArrays, SlaveStates
  <2> QED BY <1>6, <2>3 DEF MimeType
<1>7. ASSUME NEW j \in Jobs, PutSlaveOnHold(j, s)
      PROVE  d' \in Schedulers /\ slave' \in SlaveArrays /\ job' \in JobArrays
             /\ UNCHANGED <<calls, inStep>>
  <2>1. Read(s) \in SlaveArrays
    BY <1>4, <1>7 DEF PutSlaveOnHold, Receives
  <2>2. slave' \in SlaveArrays
    BY <1>7, <2>1, SlaveTypes DEF PutSlaveOnHold
  <2>3. d' \in Schedulers
    BY <1>0, <1>7, UrlsOfJobs DEF PutSlaveOnHold, Schedulers
  <2> QED BY <1>2, <1>7, <2>2, <2>3 DEF PutSlaveOnHold
<1>8. ASSUME JobAnswered(s, "finished") \/ JobAnswered(s, "error")
      PROVE  d' \in Schedulers /\ slave' \in SlaveArrays /\ job' \in JobArrays
             /\ UNCHANGED <<calls, inStep>>
  <2>1. slave' \in SlaveArrays
    BY <1>4, <1>8 DEF JobAnswered, Receives
  <2>2. slave[s].alive \in BOOLEAN
    BY <1>0 DEF SlaveArrays, SlaveStates
  <2>3. jobFinished(d, s, slave[s].alive) \in Schedulers
    BY <1>0, <2>2, JobFinishedFacts
  <2> QED BY <1>0, <1>2, <1>8, <2>1, <2>3 DEF JobAnswered
<1>9. ASSUME SlaveDied(s)
      PROVE  d' \in Schedulers /\ slave' \in SlaveArrays /\ job' \in JobArrays
             /\ UNCHANGED <<calls, inStep>>
  <2>1. jobFinished(d, s, FALSE) \in Schedulers
    BY <1>0, JobFinishedFacts
  <2>2. d' \in Schedulers
    <3>1. CASE Listeners(s) = {}
      BY <1>0, <1>9, <3>1, SlaveDiedFacts DEF SlaveDied
    <3>2. CASE Listeners(s) # {}
      BY <1>9, <2>1, <3>2, SlaveDiedFacts DEF SlaveDied
    <3> QED BY <3>1, <3>2
  <2> QED BY <1>2, <1>3, <1>9, <2>2 DEF SlaveDied
<1>10. ASSUME CleanIdleSlave(s)
       PROVE  d' \in Schedulers /\ slave' \in SlaveArrays /\ UNCHANGED <<job, calls, inStep>>
  <2>1. removeAll(d.idleSlaves, s) \in Seq(Slaves)
    BY <1>0, WithoutSet DEF removeAll, Schedulers
  <2> QED BY <1>0, <1>3, <1>10, <2>1 DEF CleanIdleSlave, Schedulers
<1>11. ASSUME Process(s)
       PROVE  slave' \in SlaveArrays /\ UNCHANGED <<d, job, calls, inStep>>
  <2>0. SUFFICES slave' \in SlaveArrays
    BY <1>11 DEF Process
  <2>1. ASSUME NEW type \in {"connected", "error", "mimeType", "finished"},
               NEW phase \in {"ready", "mimeType", "going"},
               NEW todo \in Seq(Commands), slave[s].todo # <<>>,
               Answer(s, type, phase, todo)
        PROVE  slave' \in SlaveArrays
    <3>1. Head(slave[s].todo) \in Commands
      BY <1>0, <2>1 DEF Answer, SlaveArrays, SlaveStates
    <3>2. [type |-> type, of |-> Head(slave[s].todo)] \in Messages
      BY <3>1 DEF Messages
    <3>3. Append(slave[s].out, [type |-> type, of |-> Head(slave[s].todo)])
            \in Seq(Messages)
      BY <1>0, <3>2, AppendProperties DEF SlaveArrays, SlaveStates
    <3> DEFINE m == Append(slave[s].out, [type |-> type, of |-> Head(slave[s].todo)])
               r == [slave[s] EXCEPT !.phase = phase, !.todo = todo, !.out = m]
    <3>4. r \in SlaveStates
      BY <1>0, <2>1, <3>3 DEF SlaveArrays, SlaveStates
    <3>5. slave' = [slave EXCEPT ![s] = r]
      BY <1>0, <2>1 DEF Answer, SlaveArrays
    <3> HIDE DEF r
    <3> QED BY <1>0, <3>4, <3>5, ObjectType
  <2>2. slave[s].todo \in Seq(Commands)
    BY <1>0 DEF SlaveArrays, SlaveStates
  <2>3. ASSUME slave[s].todo # <<>> PROVE Tail(slave[s].todo) \in Seq(Commands)
    BY <2>2, <2>3
  <2>4. ASSUME Len(slave[s].todo) > 1
        PROVE  slave[s].todo # <<>> /\ RemoveAt(slave[s].todo, 2) \in Seq(Commands)
    <3>1. 2 \in 1..Len(slave[s].todo)
      BY <2>2, <2>4
    <3> QED BY <2>2, <2>4, <3>1, RemoveAtFacts
  <2>5. CASE OpenConnection(s)
    <3> DEFINE todo == Tail(slave[s].todo)
    <3>1. slave[s].todo # <<>> /\ todo \in Seq(Commands)
      BY <2>3, <2>5 DEF OpenConnection, Executes
    <3>2. PICK type \in {"connected", "error", "mimeType", "finished"},
               phase \in {"ready", "mimeType", "going"} : Answer(s, type, phase, todo)
      BY <2>5 DEF OpenConnection
    <3> HIDE DEF todo
    <3> QED BY <2>1, <3>1, <3>2
  <2>6. CASE SendMimeType(s)
    <3> DEFINE todo == slave[s].todo
    <3>1. slave[s].todo # <<>> /\ todo \in Seq(Commands)
      BY <2>2, <2>6 DEF SendMimeType, Executes
    <3>2. PICK type \in {"connected", "error", "mimeType", "finished"},
               phase \in {"ready", "mimeType", "going"} : Answer(s, type, phase, todo)
      BY <2>6 DEF SendMimeType
    <3> HIDE DEF todo
    <3> QED BY <2>1, <3>1, <3>2
  <2>7. CASE SendMimeTypeAgain(s)
    <3> DEFINE todo == RemoveAt(slave[s].todo, 2)
    <3>1. slave[s].todo # <<>> /\ todo \in Seq(Commands)
      BY <2>4, <2>7 DEF SendMimeTypeAgain
    <3>2. PICK type \in {"connected", "error", "mimeType", "finished"},
               phase \in {"ready", "mimeType", "going"} : Answer(s, type, phase, todo)
      BY <2>7 DEF SendMimeTypeAgain
    <3> HIDE DEF todo
    <3> QED BY <2>1, <3>1, <3>2
  <2>8. CASE Finish(s)
    <3> DEFINE todo == Tail(slave[s].todo)
    <3>1. slave[s].todo # <<>> /\ todo \in Seq(Commands)
      BY <2>3, <2>8 DEF Finish, Executes
    <3>2. PICK type \in {"connected", "error", "mimeType", "finished"},
               phase \in {"ready", "mimeType", "going"} : Answer(s, type, phase, todo)
      BY <2>8 DEF Finish
    <3> HIDE DEF todo
    <3> QED BY <2>1, <3>1, <3>2
  <2> QED BY <1>11, <2>5, <2>6, <2>7, <2>8 DEF Process
<1>12. ASSUME Crash(s)
       PROVE  slave' \in SlaveArrays /\ UNCHANGED <<d, job, calls, inStep>>
  BY <1>0, <1>12 DEF Crash, SlaveArrays, SlaveStates
<1> QED BY <1>0, <1>5, <1>6, <1>7, <1>8, <1>9, <1>10, <1>11, <1>12 DEF Input

LEMMA TimerType ==
  ASSUME TypeOK, Timer \/ ScheduleCoSlave
  PROVE  TypeOK'
<1>0. /\ slave \in SlaveArrays /\ job \in JobArrays /\ d \in Schedulers
      /\ calls \in SUBSET Calls /\ inStep \in BOOLEAN
  BY DEF TypeOK, SlaveArrays, JobArrays
<1>1. CASE StartStep
  BY <1>0, <1>1 DEF StartStep, Schedulers, TypeOK
<1>2. CASE StartJobDirect
  <2>1. inStep' \in BOOLEAN
    BY <1>0, <1>2 DEF StartJobDirect
  <2>2. PICK j \in Jobs : Outcome(j)
    BY <1>2, DirectOutcome
  <2> QED BY <2>1, <2>2, OutcomeType
<1>3. CASE StartJobScheduled
  <2>1. inStep' \in BOOLEAN
    BY <1>3 DEF StartJobScheduled
  <2>2. CASE Nothing
    <3>1. slave' \in SlaveArrays
      BY <2>2, SearchedType DEF Nothing, NotStarted
    <3> QED BY <1>0, <2>1, <2>2, <3>1 DEF Nothing, TypeOK, SlaveArrays
  <2>3. CASE \E j \in Jobs : Outcome(j)
    BY <2>1, <2>3, OutcomeType
  <2> QED BY <1>3, <2>2, <2>3, ScheduledOutcome
<1>4. CASE NothingToSchedule
  BY <1>0, <1>4 DEF NothingToSchedule, TypeOK
<1>5. CASE ScheduleCoSlave
  <2> DEFINE ready == {s \in d.coIdleSlaves : d.queue[s] # <<>>}
  <2>1. /\ d' = [d EXCEPT
              !.coSlaveTimer = FALSE,
              !.coIdleSlaves = @ \ ready,
              !.queue = [s \in Slaves |-> IF s \in ready THEN Tail(@[s]) ELSE @[s]]]
        /\ job' = [j \in Jobs |->
              IF \E s \in ready : Head(d.queue[s]) = j
                THEN [job[j] EXCEPT !.slave =
                        CHOOSE s \in ready : Head(d.queue[s]) = j]
                ELSE job[j]]
        /\ slave' = [s \in Slaves |->
              IF s \in ready
                THEN [slave[s] EXCEPT !.todo = Append(@, Head(d.queue[s]))]
                ELSE slave[s]]
        /\ UNCHANGED <<calls, inStep>>
    BY <1>5 DEF ScheduleCoSlave
  <2>2. ready \subseteq Slaves /\ d.coIdleSlaves \subseteq Slaves
        /\ \A s \in ready : /\ Head(d.queue[s]) \in Jobs
                            /\ Tail(d.queue[s]) \in Seq(Jobs)
    BY <1>0 DEF Schedulers
  <2> HIDE DEF ready
  <2>3. d' \in Schedulers
    <3>1. [s \in Slaves |-> IF s \in ready THEN Tail(d.queue[s]) ELSE d.queue[s]]
            \in [Slaves -> Seq(Jobs)]
      BY <1>0, <2>2 DEF Schedulers
    <3> QED BY <1>0, <2>1, <2>2, <3>1 DEF Schedulers
  <2>4. slave' \in SlaveArrays
    <3>1. ASSUME NEW s \in ready
          PROVE  Append(slave[s].todo, Head(d.queue[s])) \in Seq(Commands)
      BY <1>0, <2>2, <3>1, AppendProperties DEF SlaveArrays, SlaveStates, Commands
    <3>2. ASSUME NEW s \in ready
          PROVE  [slave[s] EXCEPT !.todo = Append(@, Head(d.queue[s]))] \in SlaveStates
      BY <1>0, <2>2, <3>1, <3>2 DEF SlaveArrays, SlaveStates
    <3> QED BY <1>0, <2>1, <2>2, <3>2 DEF SlaveArrays
  <2>5. job' \in JobArrays
    <3>1. ASSUME NEW j \in Jobs, \E s \in ready : Head(d.queue[s]) = j
          PROVE  (CHOOSE s \in ready : Head(d.queue[s]) = j) \in Slaves
      BY <2>2, <3>1
    <3> QED BY <1>0, <2>1, <3>1 DEF JobArrays
  <2> QED BY <1>0, <2>1, <2>3, <2>4, <2>5 DEF TypeOK, SlaveArrays, JobArrays
<1> QED BY <1>1, <1>2, <1>3, <1>4, <1>5 DEF Timer

\* The state is what its declarations say, whatever is called, killed or
\* crashes in whatever order: no list, timer or object of the scheduler is
\* left in a state that the code does not expect.
THEOREM SchedulerTypes == Spec => []TypeOK
<1>1. Init => TypeOK
  <2>1. ASSUME Init PROVE TypeOK
    <3>1. d \in Schedulers
      BY <2>1 DEF Init, Schedulers
    <3>2. slave \in SlaveArrays
      BY <2>1 DEF Init, NoObject, SlaveArrays, SlaveStates
    <3>3. calls \in SUBSET Calls
      BY <2>1, CallsAssumption DEF Init
    <3> QED BY <2>1, <3>1, <3>2, <3>3 DEF Init, TypeOK, SlaveArrays
  <2> QED BY <2>1
<1>2. TypeOK /\ [Next]_vars => TypeOK'
  <2>1. CASE UNCHANGED vars
    BY <2>1 DEF vars, TypeOK
  <2>2. CASE Next
    BY <2>2, ApplicationType, TimerType, InputType DEF Next
  <2> QED BY <2>1, <2>2
<1> QED BY <1>1, <1>2, PTL DEF Spec

-----------------------------------------------------------------------------
(* What is on its way to and from a slave                                   *)

\* The process of s waits for commands and has answered all it got.
AtRest(s) ==
  slave[s].todo = <<>> /\ slave[s].out = <<>> /\ slave[s].phase = "ready"

\* It executes the command c and has not sent a message about it, or it waits
\* in mimeType () and the job is about to learn that, or the command of another
\* job for the same url is on its way to it, or it has answered.
Starts(s, c) ==
  slave[s].todo = <<c>> /\ slave[s].out = <<>> /\ slave[s].phase \in {"ready", "going"}

TellsMimeType(s, c) ==
  /\ slave[s].todo = <<c>> /\ slave[s].phase = "mimeType"
  /\ slave[s].out = <<[type |-> "mimeType", of |-> c]>>

IsReused(s, c, u) ==
  /\ slave[s].phase = "mimeType" /\ slave[s].out = <<>>
  /\ \E b \in Jobs : url[b] = u /\ slave[s].todo = <<c, b>>

Answers(s, c) ==
  /\ slave[s].todo = <<>> /\ slave[s].phase = "ready"
  /\ slave[s].out = <<[type |-> "finished", of |-> c]>>

\* All that is for the url u.
Works(s, u) ==
  \E c \in Jobs :
    /\ url[c] = u
    /\ Starts(s, c) \/ TellsMimeType(s, c) \/ IsReused(s, c, u) \/ Answers(s, c)

\* It waits in mimeType (), and its job has gone.
Suspended(s, u) ==
  /\ slave[s].phase = "mimeType" /\ slave[s].out = <<>>
  /\ \E c \in Jobs : url[c] = u /\ slave[s].todo = <<c>>

\* It opens its connection.
Connects(s) ==
  /\ slave[s].phase = "ready"
  /\ \/ slave[s].todo = <<Connect>> /\ slave[s].out = <<>>
     \/ slave[s].todo = <<>> /\ slave[s].out = <<>>
     \/ /\ slave[s].todo = <<>>
        /\ \E type \in {"connected", "error"} :
             slave[s].out = <<[type |-> type, of |-> Connect]>>

-----------------------------------------------------------------------------
(* The inductive invariant: what every slave is used for, and where every   *)
(* job is                                                                   *)

InIdle(s) == s \in ToSet(d.idleSlaves)

IsActive(s) ==
  /\ d.activeSlaves[s] > 0 /\ ~InIdle(s)
  /\ s \notin d.coSlaves /\ s \notin d.coIdleSlaves /\ d.queue[s] = <<>>

IsIdle(s) ==
  /\ d.activeSlaves[s] = 0 /\ InIdle(s) /\ s # d.slaveOnHold
  /\ s \notin d.coSlaves /\ s \notin d.coIdleSlaves /\ d.queue[s] = <<>>

IsCo(s) ==
  /\ d.activeSlaves[s] = 0 /\ ~InIdle(s) /\ s # d.slaveOnHold
  /\ s \in d.coSlaves

Object(s, contacted, connecting) ==
  /\ slave[s].exists
  /\ slave[s].contacted = contacted /\ slave[s].connecting = connecting

Gone(s) ==
  /\ ~slave[s].exists /\ Listeners(s) = {}
  /\ d.activeSlaves[s] = 0 /\ ~InIdle(s) /\ s # d.slaveOnHold
  /\ s \notin d.coSlaves /\ s \notin d.coIdleSlaves /\ d.queue[s] = <<>>

Resting(s) ==
  /\ IsIdle(s) /\ Object(s, FALSE, FALSE) /\ slave[s].alive
  /\ Listeners(s) = {} /\ AtRest(s)

\* Only a slave that was on hold can be more than once in activeSlaves.
Busy(s) ==
  /\ IsActive(s) /\ Object(s, FALSE, FALSE) /\ slave[s].alive
  /\ s # d.slaveOnHold
  /\ \E j \in Jobs : Listeners(s) = {j} /\ Works(s, url[j])
  /\ "putOnHold" \notin calls => d.activeSlaves[s] = 1

OnHold(s) ==
  /\ IsActive(s) /\ Object(s, FALSE, FALSE) /\ slave[s].alive
  /\ s = d.slaveOnHold
  /\ Listeners(s) = {} /\ "putOnHold" \in calls
  /\ \E u \in Urls : u = d.urlOnHold /\ Suspended(s, u)

\* It was on hold, and is killed, or is forgotten because startJobScheduled
\* found it for an entry that it did not start.
Unused(s) ==
  /\ IsActive(s) /\ Object(s, FALSE, FALSE)
  /\ s # d.slaveOnHold
  /\ Listeners(s) = {} /\ "putOnHold" \in calls
  /\ \E u \in Urls : Suspended(s, u)

Connecting(s) ==
  /\ IsCo(s) /\ Object(s, FALSE, TRUE) /\ slave[s].alive
  /\ s \notin d.coIdleSlaves /\ Listeners(s) = {} /\ Connects(s)

Connected(s) ==
  /\ IsCo(s) /\ Object(s, TRUE, FALSE) /\ slave[s].alive
  /\ s \in d.coIdleSlaves /\ Listeners(s) = {} /\ AtRest(s)

CoBusy(s) ==
  /\ IsCo(s) /\ Object(s, TRUE, FALSE) /\ slave[s].alive
  /\ s \notin d.coIdleSlaves
  /\ \E j \in Jobs : Listeners(s) = {j} /\ Works(s, url[j])

Role(s) ==
  \/ Gone(s) \/ Resting(s) \/ Busy(s) \/ OnHold(s) \/ Unused(s)
  \/ Connecting(s) \/ Connected(s) \/ CoBusy(s)

InNew(j) == j \in ToSet(d.newJobs)
InList(j) == j \in ToSet(d.joblist)
Behind(j, s) == j \in ToSet(d.queue[s])

Place(j) ==
  /\ Exists(j) <=> \/ InNew(j) \/ InList(j) \/ job[j].slave # NoSlave
                   \/ \E s \in Slaves : Behind(j, s)
  /\ ~(InNew(j) /\ InList(j))
  /\ \A s \in Slaves : Behind(j, s) => ~InNew(j) /\ ~InList(j)
  /\ \A r, s \in Slaves : Behind(j, r) /\ Behind(j, s) => r = s
  /\ job[j].slave # NoSlave =>
       ~InNew(j) /\ ~InList(j) /\ \A s \in Slaves : ~Behind(j, s)

NoRepeats ==
  /\ IsInjective(d.idleSlaves) /\ IsInjective(d.newJobs) /\ IsInjective(d.joblist)
  /\ \A s \in Slaves : IsInjective(d.queue[s])

\* Nobody makes the two calls that break the invariant: cancelJob of a job
\* that waits for a connected slave kills the slave under the job it executes,
\* and a slave that is disconnected before it is connected becomes idle.
Careful == {"killBehind", "disconnectEarly"} \intersect calls = {}

IInv ==
  /\ TypeOK /\ Careful /\ NoRepeats
  /\ \A s \in Slaves : Role(s)
  /\ \A j \in Jobs : Place(j)

-----------------------------------------------------------------------------
(* What a step leaves alone                                                 *)

\* The objects o and p differ in the host or in that the process has crashed.
Alike(o, p) ==
  /\ o.exists = p.exists /\ o.alive = p.alive
  /\ o.contacted = p.contacted /\ o.connecting = p.connecting
  /\ o.todo = p.todo /\ o.phase = p.phase /\ o.out = p.out

\* Nothing happens to s, but for jobs that wait for it if it is connected.
SlaveKept(s) ==
  /\ UNCHANGED calls
  /\ Alike(slave[s], slave'[s])
  /\ d'.activeSlaves[s] = d.activeSlaves[s]
  /\ InIdle(s)' <=> InIdle(s)
  /\ s \in d'.coSlaves <=> s \in d.coSlaves
  /\ s \in d'.coIdleSlaves <=> s \in d.coIdleSlaves
  /\ d'.queue[s] = d.queue[s] \/ s \in d.coSlaves
  /\ s = d'.slaveOnHold <=> s = d.slaveOnHold
  /\ s = d.slaveOnHold => d'.urlOnHold = d.urlOnHold
  /\ Listeners(s)' = Listeners(s)

LEMMA AlikeTraffic ==
  ASSUME NEW s \in Slaves, Alike(slave[s], slave'[s])
  PROVE  /\ AtRest(s) => AtRest(s)'
         /\ \A u : Works(s, u) => Works(s, u)'
         /\ \A u : Suspended(s, u) => Suspended(s, u)'
         /\ Connects(s) => Connects(s)'
<1>1. AtRest(s) => AtRest(s)'
  BY DEF Alike, AtRest
<1>2. \A u : Works(s, u) => Works(s, u)'
  BY DEF Alike, Works, Starts, TellsMimeType, IsReused, Answers
<1>3. \A u : Suspended(s, u) => Suspended(s, u)'
  BY DEF Alike, Suspended
<1>4. Connects(s) => Connects(s)'
  BY DEF Alike, Connects
<1> QED BY <1>1, <1>2, <1>3, <1>4

LEMMA RoleKept ==
  ASSUME NEW s \in Slaves, Role(s), SlaveKept(s)
  PROVE  Role(s)'
<1> DEFINE o == slave[s]
           p == slave'[s]
<1>1. /\ AtRest(s) => AtRest(s)'
      /\ \A u : Works(s, u) => Works(s, u)'
      /\ \A u : Suspended(s, u) => Suspended(s, u)'
      /\ Connects(s) => Connects(s)'
  BY AlikeTraffic DEF SlaveKept
<1>2. /\ p.exists = o.exists /\ p.alive = o.alive
      /\ p.contacted = o.contacted /\ p.connecting = o.connecting
  BY DEF SlaveKept, Alike
<1>3. /\ IsActive(s) => IsActive(s)'
      /\ IsIdle(s) => IsIdle(s)'
      /\ IsCo(s) => IsCo(s)'
  BY DEF SlaveKept, IsActive, IsIdle, IsCo
<1>4. CASE Gone(s)
  BY <1>2, <1>4 DEF Gone, SlaveKept, Role
<1>5. CASE Resting(s)
  BY <1>1, <1>2, <1>3, <1>5 DEF Resting, Object, SlaveKept, Role
<1>6. CASE Busy(s)
  BY <1>1, <1>2, <1>3, <1>6 DEF Busy, Object, SlaveKept, Role
<1>7. CASE OnHold(s)
  BY <1>1, <1>2, <1>3, <1>7 DEF OnHold, Object, SlaveKept, Role
<1>8. CASE Unused(s)
  BY <1>1, <1>2, <1>3, <1>8 DEF Unused, Object, SlaveKept, Role
<1>9. CASE Connecting(s)
  BY <1>1, <1>2, <1>3, <1>9 DEF Connecting, Object, SlaveKept, Role
<1>10. CASE Connected(s)
  BY <1>1, <1>2, <1>3, <1>10 DEF Connected, Object, SlaveKept, Role
<1>11. CASE CoBusy(s)
  BY <1>1, <1>2, <1>3, <1>11 DEF CoBusy, Object, SlaveKept, Role
<1> QED BY <1>4, <1>5, <1>6, <1>7, <1>8, <1>9, <1>10, <1>11 DEF Role

JobKept(j) ==
  /\ job'[j] = job[j]
  /\ InNew(j)' <=> InNew(j)
  /\ InList(j)' <=> InList(j)
  /\ \A s \in Slaves : Behind(j, s)' <=> Behind(j, s)

LEMMA PlaceKept ==
  ASSUME NEW j \in Jobs, Place(j), JobKept(j)
  PROVE  Place(j)'
<1>1. /\ InNew(j)' <=> InNew(j)
      /\ InList(j)' <=> InList(j)
      /\ \A s \in Slaves : Behind(j, s)' <=> Behind(j, s)
      /\ Exists(j)' <=> Exists(j)
      /\ job'[j].slave = job[j].slave
  BY DEF JobKept, Exists
<1> QED BY <1>1 DEF Place

\* A job that has ended is nowhere.
LEMMA PlaceOfEnded ==
  ASSUME NEW j \in Jobs, job'[j].state # "created", job'[j].slave = NoSlave,
         ~InNew(j)', ~InList(j)', \A s \in Slaves : ~Behind(j, s)'
  PROVE  Place(j)'
<1>1. ~Exists(j)'
  BY DEF Exists
<1> QED BY <1>1 DEF Place

\* Whom the signals of a slave reach when the jobs of K have ended.
LEMMA EndedFacts ==
  ASSUME TypeOK, NEW K, job' = Ended(K)
  PROVE  /\ \A j \in Jobs \ K : job'[j] = job[j]
         /\ \A j \in Jobs \intersect K :
              job'[j].state # "created" /\ job'[j].slave = NoSlave
         /\ \A s \in Slaves : Listeners(s)' = Listeners(s) \ K
<1>1. /\ \A j \in Jobs \ K : job'[j] = job[j]
      /\ \A j \in Jobs \intersect K :
           job'[j].state # "created" /\ job'[j].slave = NoSlave
  BY DEF TypeOK, Ended
<1>2. \A s \in Slaves : Listeners(s)' = Listeners(s) \ K
  BY <1>1, PoolAssumption DEF Listeners
<1> QED BY <1>1, <1>2

\* What IInv says of the types.
LEMMA InvTypes ==
  ASSUME IInv
  PROVE  /\ TypeOK /\ d \in Schedulers
         /\ d.newJobs \in Seq(Jobs) /\ d.joblist \in Seq(Jobs)
         /\ d.idleSlaves \in Seq(Slaves)
         /\ d.coSlaves \subseteq Slaves /\ d.coIdleSlaves \subseteq Slaves
         /\ d.activeSlaves \in [Slaves -> Nat]
         /\ d.queue \in [Slaves -> Seq(Jobs)]
         /\ d.slaveOnHold \in Slaves \union {NoSlave} /\ NoSlave \notin Slaves
         /\ slave \in [Slaves -> SlaveStates]
         /\ job \in [Jobs -> [state : {"none", "created", "ended"},
                              slave : Slaves \union {NoSlave}]]
<1>1. TypeOK /\ d \in Schedulers
  BY DEF IInv, TypeOK
<1>2. /\ slave \in [Slaves -> SlaveStates]
      /\ job \in [Jobs -> [state : {"none", "created", "ended"},
                           slave : Slaves \union {NoSlave}]]
  BY <1>1 DEF TypeOK
<1> QED BY <1>1, <1>2, PoolAssumption DEF Schedulers

\* Only jobs that wait for connected slaves come or go.
LEMMA RolesKept ==
  ASSUME IInv,
         UNCHANGED <<calls, slave, d.activeSlaves, d.idleSlaves, d.coSlaves,
                     d.coIdleSlaves, d.slaveOnHold, d.urlOnHold>>,
         \A s \in Slaves : d'.queue[s] = d.queue[s] \/ s \in d.coSlaves,
         \A s \in Slaves : Listeners(s)' = Listeners(s)
  PROVE  \A s \in Slaves : Role(s)'
<1>1. ASSUME NEW s \in Slaves PROVE Role(s)'
  <2>1. Role(s) /\ Alike(slave[s], slave'[s]) /\ (InIdle(s)' <=> InIdle(s))
    BY DEF IInv, Alike, InIdle
  <2>2. SlaveKept(s)
    BY <2>1 DEF SlaveKept
  <2> QED BY <2>1, <2>2, RoleKept
<1> QED BY <1>1

\* A new job is in one list, where no other job comes or goes.
Enters(j) ==
  \/ /\ ToSet(d'.newJobs) = ToSet(d.newJobs) \union {j}
     /\ UNCHANGED <<d.joblist, d.queue>>
  \/ /\ ToSet(d'.joblist) = ToSet(d.joblist) \union {j}
     /\ UNCHANGED <<d.newJobs, d.queue>>
  \/ /\ \E s \in Slaves :
          /\ ToSet(d'.queue[s]) = ToSet(d.queue[s]) \union {j}
          /\ \A r \in Slaves \ {s} : d'.queue[r] = d.queue[r]
     /\ UNCHANGED <<d.newJobs, d.joblist>>

LEMMA PlacesWithNew ==
  ASSUME IInv, NEW j \in Jobs, job[j].state = "none", Create(j), Enters(j)
  PROVE  /\ \A k \in Jobs : Place(k)'
         /\ \A s \in Slaves : Listeners(s)' = Listeners(s)
         /\ j \notin ToSet(d.newJobs) /\ j \notin ToSet(d.joblist)
         /\ \A s \in Slaves : j \notin ToSet(d.queue[s])
<1>1. job \in [Jobs -> [state : {"none", "created", "ended"},
                        slave : Slaves \union {NoSlave}]]
  BY InvTypes
<1>2. /\ ~InNew(j) /\ ~InList(j) /\ job[j].slave = NoSlave
      /\ \A s \in Slaves : ~Behind(j, s)
  <2>1. ~Exists(j) /\ Place(j)
    BY DEF Exists, IInv
  <2> QED BY <2>1 DEF Place
<1>3. /\ job'[j].state = "created" /\ job'[j].slave = NoSlave
      /\ \A k \in Jobs \ {j} : job'[k] = job[k]
  BY <1>1, <1>2 DEF Create
<1>4. \A s \in Slaves : Listeners(s)' = Listeners(s)
  BY <1>2, <1>3, PoolAssumption DEF Listeners
<1>5. ASSUME NEW k \in Jobs \ {j} PROVE Place(k)'
  <2>1. JobKept(k)
    BY <1>3 DEF JobKept, InNew, InList, Behind, Enters
  <2> QED BY <2>1, PlaceKept DEF IInv
<1>6. Place(j)'
  <2>1. Exists(j)' /\ job'[j].slave = NoSlave
    BY <1>3 DEF Exists
  <2>2. \/ InNew(j)' /\ ~InList(j)' /\ \A s \in Slaves : ~Behind(j, s)'
        \/ ~InNew(j)' /\ InList(j)' /\ \A s \in Slaves : ~Behind(j, s)'
        \/ /\ ~InNew(j)' /\ ~InList(j)'
           /\ \E s \in Slaves : Behind(j, s)' /\ \A r \in Slaves \ {s} : ~Behind(j, r)'
    BY <1>2 DEF Enters, InNew, InList, Behind
  <2> QED BY <2>1, <2>2 DEF Place
<1> QED BY <1>2, <1>4, <1>5, <1>6 DEF InNew, InList, Behind

LEMMA DoJobKeeps ==
  ASSUME IInv, TypeOK', NEW j \in Jobs, DoJob(j)
  PROVE  IInv'
<1>1. /\ job[j].state = "none" /\ Create(j)
      /\ UNCHANGED <<calls, slave, d.activeSlaves, d.idleSlaves, d.coSlaves,
                     d.coIdleSlaves, d.slaveOnHold, d.urlOnHold, d.queue, d.joblist>>
      /\ d'.newJobs = Append(d.newJobs, j)
  BY InvTypes DEF DoJob, Schedulers
<1>2. /\ ToSet(d'.newJobs) = ToSet(d.newJobs) \union {j}
      /\ IsInjective(d.newJobs) /\ j \notin ToSet(d.newJobs) => IsInjective(d'.newJobs)
  BY <1>1, InvTypes, AppendSet
<1>3. /\ \A k \in Jobs : Place(k)'
      /\ \A s \in Slaves : Listeners(s)' = Listeners(s)
      /\ j \notin ToSet(d.newJobs)
  BY <1>1, <1>2, PlacesWithNew DEF Enters
<1>4. \A s \in Slaves : Role(s)'
  BY <1>1, <1>3, RolesKept
<1>5. NoRepeats'
  BY <1>1, <1>2, <1>3 DEF IInv, NoRepeats
<1> QED BY <1>1, <1>3, <1>4, <1>5 DEF IInv, Careful

LEMMA ScheduleJobKeeps ==
  ASSUME IInv, TypeOK', NEW j \in Jobs, ScheduleJob(j)
  PROVE  IInv'
<1>1. /\ job[j].state = "none" /\ Create(j)
      /\ UNCHANGED <<calls, slave, d.activeSlaves, d.idleSlaves, d.coSlaves,
                     d.coIdleSlaves, d.slaveOnHold, d.urlOnHold, d.queue, d.newJobs>>
      /\ d'.joblist = Append(d.joblist, j)
  BY InvTypes DEF ScheduleJob, Schedulers
<1>2. /\ ToSet(d'.joblist) = ToSet(d.joblist) \union {j}
      /\ IsInjective(d.joblist) /\ j \notin ToSet(d.joblist) => IsInjective(d'.joblist)
  BY <1>1, InvTypes, AppendSet
<1>3. /\ \A k \in Jobs : Place(k)'
      /\ \A s \in Slaves : Listeners(s)' = Listeners(s)
      /\ j \notin ToSet(d.joblist)
  BY <1>1, <1>2, PlacesWithNew DEF Enters
<1>4. \A s \in Slaves : Role(s)'
  BY <1>1, <1>3, RolesKept
<1>5. NoRepeats'
  BY <1>1, <1>2, <1>3 DEF IInv, NoRepeats
<1> QED BY <1>1, <1>3, <1>4, <1>5 DEF IInv, Careful

LEMMA AssignJobKeeps ==
  ASSUME IInv, TypeOK', NEW j \in Jobs, NEW s \in Slaves, AssignJobToSlave(j, s)
  PROVE  IInv'
<1>1. /\ job[j].state = "none" /\ Create(j) /\ s \in d.coSlaves
      /\ UNCHANGED <<calls, slave, d.activeSlaves, d.idleSlaves, d.coSlaves,
                     d.coIdleSlaves, d.slaveOnHold, d.urlOnHold, d.newJobs, d.joblist>>
      /\ d'.queue = [d.queue EXCEPT ![s] = Append(@, j)]
  BY InvTypes DEF AssignJobToSlave, Schedulers
<1>2. /\ d'.queue[s] = Append(d.queue[s], j)
      /\ \A r \in Slaves \ {s} : d'.queue[r] = d.queue[r]
      /\ d.queue[s] \in Seq(Jobs)
  BY <1>1, InvTypes
<1>3. /\ ToSet(d'.queue[s]) = ToSet(d.queue[s]) \union {j}
      /\ IsInjective(d.queue[s]) /\ j \notin ToSet(d.queue[s]) => IsInjective(d'.queue[s])
  BY <1>2, AppendSet
<1>4. /\ \A k \in Jobs : Place(k)'
      /\ \A r \in Slaves : Listeners(r)' = Listeners(r)
      /\ j \notin ToSet(d.queue[s])
  BY <1>1, <1>2, <1>3, PlacesWithNew DEF Enters
<1>5. \A r \in Slaves : Role(r)'
  BY <1>1, <1>2, <1>4, RolesKept
<1>6. NoRepeats'
  BY <1>1, <1>2, <1>3, <1>4 DEF IInv, NoRepeats
<1> QED BY <1>1, <1>4, <1>5, <1>6 DEF IInv, Careful

LEMMA KillWaitingKeeps ==
  ASSUME IInv, TypeOK', NEW j \in Jobs, KillWaiting(j)
  PROVE  IInv'
<1>1. /\ job' = Ended({j}) /\ job[j].slave = NoSlave
      /\ \A s \in Slaves : ~InQueueOf(j, s)
      /\ UNCHANGED <<calls, slave, d.activeSlaves, d.idleSlaves, d.coSlaves,
                     d.coIdleSlaves, d.slaveOnHold, d.urlOnHold, d.queue>>
      /\ d'.newJobs = removeAll(d.newJobs, j) /\ d'.joblist = removeAll(d.joblist, j)
  BY InvTypes DEF KillWaiting, Schedulers
<1>2. /\ ToSet(d'.newJobs) = ToSet(d.newJobs) \ {j}
      /\ ToSet(d'.joblist) = ToSet(d.joblist) \ {j}
      /\ IsInjective(d.newJobs) => IsInjective(d'.newJobs)
      /\ IsInjective(d.joblist) => IsInjective(d'.joblist)
  <2>1. d.newJobs \in Seq(Jobs) /\ d.joblist \in Seq(Jobs)
    BY InvTypes
  <2> QED BY <1>1, <2>1, WithoutSet DEF removeAll
<1>3. \A s \in Slaves : ~Behind(j, s)
  <2>1. ASSUME NEW s \in Slaves PROVE ~Behind(j, s)
    <3>1. d.queue[s] \in Seq(Jobs) /\ ~Contains(d.queue[s], j)
      BY <1>1, InvTypes DEF InQueueOf
    <3> QED BY <3>1, ContainsIsIn DEF Behind
  <2> QED BY <2>1
<1>4. /\ \A k \in Jobs \ {j} : job'[k] = job[k]
      /\ job'[j].state # "created" /\ job'[j].slave = NoSlave
      /\ \A s \in Slaves : Listeners(s)' = Listeners(s) \ {j}
  BY <1>1, InvTypes, EndedFacts
<1>5. \A s \in Slaves : Listeners(s)' = Listeners(s)
  <2>1. \A s \in Slaves : j \notin Listeners(s)
    BY <1>1, PoolAssumption DEF Listeners
  <2> QED BY <1>4, <2>1
<1>6. \A s \in Slaves : Role(s)'
  BY <1>1, <1>5, RolesKept
<1>7. ASSUME NEW k \in Jobs PROVE Place(k)'
  <2>1. CASE k = j
    BY <1>1, <1>2, <1>3, <1>4, <2>1, PlaceOfEnded DEF InNew, InList, Behind
  <2>2. CASE k # j
    <3>1. JobKept(k)
      BY <1>1, <1>2, <1>4, <2>2 DEF JobKept, InNew, InList, Behind
    <3> QED BY <3>1, PlaceKept DEF IInv
  <2> QED BY <2>1, <2>2
<1>8. NoRepeats'
  BY <1>1, <1>2 DEF IInv, NoRepeats
<1> QED BY <1>1, <1>6, <1>7, <1>8 DEF IInv, Careful

-----------------------------------------------------------------------------
(* A slave is deleted                                                       *)

\* s is in no list any more, and the jobs that it had or that waited for it
\* have ended.
Goes(s) ==
  /\ UNCHANGED <<calls, d.newJobs, d.joblist>>
  /\ slave' = Deleted(s)
  /\ job' = Ended(Listeners(s) \union ToSet(d.queue[s]))
  /\ d'.queue = [d.queue EXCEPT ![s] = <<>>]
  /\ d'.coSlaves = d.coSlaves \ {s} /\ d'.coIdleSlaves = d.coIdleSlaves \ {s}
  /\ d'.activeSlaves = [d.activeSlaves EXCEPT ![s] = 0]
  /\ d'.idleSlaves = removeAll(d.idleSlaves, s)
  /\ d'.slaveOnHold = IF d.slaveOnHold = s THEN NoSlave ELSE d.slaveOnHold
  /\ d.slaveOnHold # s => d'.urlOnHold = d.urlOnHold

\* The jobs of s, running or waiting for it, end.
LEMMA PlacesGo ==
  ASSUME IInv, NEW s \in Slaves, UNCHANGED <<d.newJobs, d.joblist>>,
         job' = Ended(Listeners(s) \union ToSet(d.queue[s])),
         d'.queue = [d.queue EXCEPT ![s] = <<>>]
  PROVE  \A j \in Jobs : Place(j)'
<1> DEFINE K == Listeners(s) \union ToSet(d.queue[s])
<1>1. /\ d.queue \in [Slaves -> Seq(Jobs)] /\ TypeOK /\ NoSlave \notin Slaves
      /\ job' = Ended(K)
  BY InvTypes
<1>2. /\ \A j \in Jobs \ K : job'[j] = job[j]
      /\ \A j \in Jobs \intersect K :
           job'[j].state # "created" /\ job'[j].slave = NoSlave
  BY <1>1, EndedFacts
<1>3. ASSUME NEW j \in Jobs PROVE Place(j)'
  <2>0. ToSet(<<>>) = {}
    BY DEF ToSet
  <2>1. /\ InNew(j)' <=> InNew(j)
        /\ InList(j)' <=> InList(j)
        /\ \A r \in Slaves : Behind(j, r)' <=> Behind(j, r) /\ r # s
    BY <1>1, <2>0 DEF InNew, InList, Behind
  <2>2. CASE j \in K
    <3>1. Behind(j, s) \/ job[j].slave = s
      BY <2>2 DEF Behind, Listeners
    <3>2. ~InNew(j) /\ ~InList(j) /\ \A r \in Slaves \ {s} : ~Behind(j, r)
      BY <1>1, <3>1 DEF IInv, Place
    <3> QED BY <1>2, <2>1, <2>2, <3>2, PlaceOfEnded
  <2>3. CASE j \notin K
    <3>1. ~Behind(j, s)
      BY <2>3 DEF Behind
    <3>2. JobKept(j)
      BY <1>2, <2>1, <2>3, <3>1 DEF JobKept
    <3> QED BY <3>2, PlaceKept DEF IInv
  <2> QED BY <2>2, <2>3
<1> QED BY <1>3

\* Only jobs that a slave has end.
LEMMA PlacesAfter ==
  ASSUME IInv, UNCHANGED <<d.newJobs, d.joblist, d.queue>>,
         NEW K, job' = Ended(K), \A j \in K : job[j].slave # NoSlave
  PROVE  \A j \in Jobs : Place(j)'
<1>1. /\ \A j \in Jobs \ K : job'[j] = job[j]
      /\ \A j \in Jobs \intersect K :
           job'[j].state # "created" /\ job'[j].slave = NoSlave
  BY InvTypes, EndedFacts
<1>2. ASSUME NEW j \in Jobs PROVE Place(j)'
  <2>1. /\ InNew(j)' <=> InNew(j)
        /\ InList(j)' <=> InList(j)
        /\ \A r \in Slaves : Behind(j, r)' <=> Behind(j, r)
    BY DEF InNew, InList, Behind
  <2>2. CASE j \in K
    <3>1. ~InNew(j) /\ ~InList(j) /\ \A r \in Slaves : ~Behind(j, r)
      BY <2>2 DEF IInv, Place
    <3> QED BY <1>1, <2>1, <2>2, <3>1, PlaceOfEnded
  <2>3. CASE j \notin K
    <3>1. JobKept(j)
      BY <1>1, <2>1, <2>3 DEF JobKept
    <3> QED BY <3>1, PlaceKept DEF IInv
  <2> QED BY <2>2, <2>3
<1> QED BY <1>2

LEMMA NobodyEnds ==
  ASSUME IInv
  PROVE  job = Ended({})
BY InvTypes DEF Ended

\* The elements of a list that is searched for one of them.
LEMMA IdleWithout ==
  ASSUME IInv, NEW s, d'.idleSlaves = removeAll(d.idleSlaves, s)
  PROVE  /\ \A r \in Slaves : InIdle(r)' <=> InIdle(r) /\ r # s
         /\ IsInjective(d'.idleSlaves)
<1>1. d.idleSlaves \in Seq(Slaves) /\ IsInjective(d.idleSlaves)
  BY InvTypes DEF IInv, NoRepeats
<1>2. /\ ToSet(d'.idleSlaves) = ToSet(d.idleSlaves) \ {s}
      /\ IsInjective(d'.idleSlaves)
  BY <1>1, WithoutSet DEF removeAll
<1> QED BY <1>2 DEF InIdle

LEMMA GoesKeeps ==
  ASSUME IInv, TypeOK', NEW s \in Slaves, Goes(s)
  PROVE  IInv'
<1> DEFINE K == Listeners(s) \union ToSet(d.queue[s])
<1>1. /\ d.queue \in [Slaves -> Seq(Jobs)] /\ d.activeSlaves \in [Slaves -> Nat]
      /\ slave \in [Slaves -> SlaveStates] /\ TypeOK /\ NoSlave \notin Slaves
      /\ job' = Ended(K)
  BY InvTypes DEF Goes
<1>2. /\ \A j \in Jobs \ K : job'[j] = job[j]
      /\ \A j \in Jobs \intersect K :
           job'[j].state # "created" /\ job'[j].slave = NoSlave
      /\ \A r \in Slaves : Listeners(r)' = Listeners(r) \ K
  BY <1>1, EndedFacts
<1>3. ASSUME NEW j \in Jobs, j \in K
      PROVE  /\ ~InNew(j) /\ ~InList(j)
             /\ \A r \in Slaves \ {s} : ~Behind(j, r) /\ job[j].slave # r
  <2>1. Behind(j, s) \/ job[j].slave = s
    BY <1>3 DEF Behind, Listeners
  <2>2. Place(j)
    BY DEF IInv
  <2> QED BY <1>1, <2>1, <2>2 DEF Place
<1>4. ToSet(<<>>) = {}
  BY DEF ToSet
<1>5. /\ \A r \in Slaves \ {s} : d'.queue[r] = d.queue[r]
      /\ d'.queue[s] = <<>> /\ d'.activeSlaves[s] = 0
      /\ \A r \in Slaves \ {s} : d'.activeSlaves[r] = d.activeSlaves[r]
      /\ \A r \in Slaves \ {s} : slave'[r] = slave[r]
      /\ slave'[s] = NoObject
  BY <1>1 DEF Goes, Deleted
<1>6. /\ \A r \in Slaves : InIdle(r)' <=> InIdle(r) /\ r # s
      /\ IsInjective(d'.idleSlaves)
  BY IdleWithout DEF Goes
<1>7. ASSUME NEW r \in Slaves, r # s PROVE Role(r)'
  <2>1. Listeners(r)' = Listeners(r)
    BY <1>2, <1>3, <1>7 DEF Listeners
  <2>2. Alike(slave[r], slave'[r])
    BY <1>5, <1>7 DEF Alike
  <2>3. SlaveKept(r)
    BY <1>1, <1>5, <1>6, <1>7, <2>1, <2>2 DEF SlaveKept, Goes
  <2> QED BY <2>3, RoleKept DEF IInv
<1>8. Role(s)'
  <2>1. Listeners(s)' = {} /\ ~slave'[s].exists
    BY <1>2, <1>5 DEF NoObject
  <2> QED BY <1>1, <1>5, <1>6, <2>1 DEF Goes, Gone, Role
<1>9. \A j \in Jobs : Place(j)'
  BY PlacesGo DEF Goes
<1>10. NoRepeats'
  <2>1. IsInjective(d'.queue[s])
    BY <1>5 DEF IsInjective
  <2> QED BY <1>5, <1>6, <2>1 DEF IInv, NoRepeats, Goes
<1> QED BY <1>7, <1>8, <1>9, <1>10 DEF IInv, Careful, Goes

\* slotSlaveDied, after jobFinished or not, takes a slave out of all lists.
LEMMA DiedGoes ==
  ASSUME IInv, NEW s \in Slaves, UNCHANGED calls, slave' = Deleted(s),
         job' = Ended(Listeners(s) \union ToSet(d.queue[s])),
         d' = slotSlaveDied(d, s) \/ d' = slotSlaveDied(jobFinished(d, s, FALSE), s)
  PROVE  Goes(s)
<1>1. d \in Schedulers /\ d.activeSlaves \in [Slaves -> Nat]
  BY InvTypes
<1>2. CASE d' = slotSlaveDied(d, s)
  BY <1>1, <1>2, SlaveDiedFacts DEF Goes
<1>3. CASE d' = slotSlaveDied(jobFinished(d, s, FALSE), s)
  <2>1. PICK E \in Schedulers :
        /\ E = jobFinished(d, s, FALSE)
        /\ E.newJobs = d.newJobs /\ E.joblist = d.joblist /\ E.queue = d.queue
        /\ E.coSlaves = d.coSlaves /\ E.coIdleSlaves = d.coIdleSlaves
        /\ E.slaveOnHold = d.slaveOnHold /\ E.urlOnHold = d.urlOnHold
        /\ E.activeSlaves = [d.activeSlaves EXCEPT ![s] = 0]
        /\ E.idleSlaves = d.idleSlaves
    BY <1>1, JobFinishedFacts
  <2>2. d' = slotSlaveDied(E, s)
    BY <1>3, <2>1
  <2>3. [E.activeSlaves EXCEPT ![s] = 0] = [d.activeSlaves EXCEPT ![s] = 0]
    BY <1>1, <2>1
  <2>4. /\ d'.newJobs = E.newJobs /\ d'.joblist = E.joblist
        /\ d'.queue = [E.queue EXCEPT ![s] = <<>>]
        /\ d'.coSlaves = E.coSlaves \ {s} /\ d'.coIdleSlaves = E.coIdleSlaves \ {s}
        /\ d'.activeSlaves = [E.activeSlaves EXCEPT ![s] = 0]
        /\ d'.idleSlaves = removeAll(E.idleSlaves, s)
        /\ d'.slaveOnHold = IF E.slaveOnHold = s THEN NoSlave ELSE E.slaveOnHold
        /\ E.slaveOnHold # s => d'.urlOnHold = E.urlOnHold
    <3>1. E \in Schedulers
      BY <2>1
    <3> QED BY <2>2, <3>1, SlaveDiedFacts
  <2> QED BY <2>1, <2>3, <2>4 DEF Goes
<1> QED BY <1>2, <1>3

\* A slave has at most one job.
LEMMA OneListener ==
  ASSUME IInv, NEW s \in Slaves, NEW j \in Listeners(s)
  PROVE  Listeners(s) = {j} /\ (Busy(s) \/ CoBusy(s))
<1>1. Role(s)
  BY DEF IInv
<1> QED BY <1>1 DEF Role, Gone, Resting, Busy, OnHold, Unused, Connecting, Connected, CoBusy

LEMMA KillWithSlaveKeeps ==
  ASSUME IInv, TypeOK', NEW j \in Jobs, NEW s \in Slaves, KillWithSlave(j, s)
  PROVE  IInv'
<1>1. d.queue[s] \in Seq(Jobs)
  BY InvTypes
<1>2. {j} \union KilledWith(s) = Listeners(s) \union ToSet(d.queue[s])
  <2>1. CASE job[j].slave = s
    <3>1. j \in Listeners(s)
      BY <2>1 DEF Listeners
    <3> QED BY <3>1, OneListener DEF KilledWith
  <2>2. CASE InQueueOf(j, s) /\ Listeners(s) = {}
    BY <1>1, <2>2, ContainsIsIn DEF InQueueOf, KilledWith
  <2>3. "killBehind" \notin calls
    BY DEF IInv, Careful
  <2> QED BY <2>1, <2>2, <2>3 DEF KillWithSlave
<1>3. Goes(s)
  BY <1>2, DiedGoes DEF KillWithSlave
<1> QED BY <1>3, GoesKeeps

LEMMA PublishKeeps ==
  ASSUME IInv, TypeOK', PublishSlaveOnHold
  PROVE  IInv'
<1>1. PICK s \in Slaves : s = d.slaveOnHold
  BY InvTypes DEF PublishSlaveOnHold
<1>2. Listeners(s) = {}
  <2>1. Role(s)
    BY DEF IInv
  <2> QED BY <1>1, <2>1 DEF Role, Gone, Resting, Busy, OnHold, Unused, Connecting,
                            Connected, CoBusy, IsIdle, IsCo
<1>3. Goes(s)
  BY <1>1, <1>2, DiedGoes DEF PublishSlaveOnHold, KilledWith
<1> QED BY <1>3, GoesKeeps

LEMMA SlaveDiedKeeps ==
  ASSUME IInv, TypeOK', NEW s \in Slaves, SlaveDied(s)
  PROVE  IInv'
<1>1. Goes(s)
  <2>1. d' = slotSlaveDied(d, s) \/ d' = slotSlaveDied(jobFinished(d, s, FALSE), s)
    BY DEF SlaveDied
  <2> QED BY <2>1, DiedGoes DEF SlaveDied, KilledWith
<1> QED BY <1>1, GoesKeeps

LEMMA CleanIdleKeeps ==
  ASSUME IInv, TypeOK', NEW s \in Slaves, CleanIdleSlave(s)
  PROVE  IInv'
<1>1. /\ UNCHANGED <<calls, job>> /\ slave' = Deleted(s)
      /\ d' = [d EXCEPT !.idleSlaves = removeAll(@, s)] /\ d \in Schedulers
      /\ InIdle(s)
  <2>1. d.idleSlaves \in Seq(Slaves) /\ d \in Schedulers
    BY InvTypes
  <2> QED BY <2>1, ContainsIsIn DEF CleanIdleSlave, InIdle
<1>2. Listeners(s) = {} /\ IsIdle(s)
  <2>1. Role(s)
    BY DEF IInv
  <2> QED BY <1>1, <2>1 DEF Role, Gone, Resting, Busy, OnHold, Unused, Connecting,
                            Connected, CoBusy, IsActive, IsCo
<1>3. job = Ended({})
  BY NobodyEnds
<1>4. Listeners(s) \union ToSet(d.queue[s]) = {}
  BY <1>2 DEF IsIdle, ToSet
<1>5. /\ d'.newJobs = d.newJobs /\ d'.joblist = d.joblist /\ d'.queue = d.queue
      /\ d'.coSlaves = d.coSlaves /\ d'.coIdleSlaves = d.coIdleSlaves
      /\ d'.activeSlaves = d.activeSlaves /\ d'.idleSlaves = removeAll(d.idleSlaves, s)
      /\ d'.slaveOnHold = d.slaveOnHold /\ d'.urlOnHold = d.urlOnHold
  BY <1>1 DEF Schedulers
<1>6. /\ d.queue = [d.queue EXCEPT ![s] = <<>>]
      /\ d.activeSlaves = [d.activeSlaves EXCEPT ![s] = 0]
      /\ d.coSlaves = d.coSlaves \ {s} /\ d.coIdleSlaves = d.coIdleSlaves \ {s}
      /\ d.slaveOnHold # s
  BY <1>2, InvTypes DEF IsIdle
<1>7. Goes(s)
  BY <1>1, <1>3, <1>4, <1>5, <1>6 DEF Goes
<1> QED BY <1>7, GoesKeeps

-----------------------------------------------------------------------------
(* The other steps of the application, and connected slaves                 *)

\* Which roles a slave can have, from what is known of it.
LEMMA RoleOnHold ==
  ASSUME IInv, NEW s \in Slaves, s = d.slaveOnHold
  PROVE  OnHold(s)
<1>1. Role(s)
  BY DEF IInv
<1> QED BY <1>1 DEF Role, Gone, Resting, Busy, Unused, Connecting, Connected, CoBusy,
                    IsIdle, IsCo

LEMMA RoleIdle ==
  ASSUME IInv, NEW s \in Slaves, InIdle(s)
  PROVE  Resting(s)
<1>1. Role(s)
  BY DEF IInv
<1> QED BY <1>1 DEF Role, Gone, Busy, OnHold, Unused, Connecting, Connected, CoBusy,
                    IsActive, IsCo

LEMMA RoleGone ==
  ASSUME IInv, NEW s \in Slaves, ~slave[s].exists
  PROVE  Gone(s)
<1>1. Role(s)
  BY DEF IInv
<1> QED BY <1>1 DEF Role, Resting, Busy, OnHold, Unused, Connecting, Connected, CoBusy,
                    Object

LEMMA RoleConnected ==
  ASSUME IInv, NEW s \in Slaves, s \in d.coIdleSlaves
  PROVE  Connected(s)
<1>1. Role(s)
  BY DEF IInv
<1> QED BY <1>1 DEF Role, Gone, Resting, Busy, OnHold, Unused, Connecting, CoBusy,
                    IsActive, IsIdle

\* A timer goes off and nothing is started.
LEMMA NothingKeeps ==
  ASSUME IInv, TypeOK', StartStep \/ NothingToSchedule
  PROVE  IInv'
<1>1. /\ UNCHANGED <<calls, job, slave>>
      /\ UNCHANGED <<d.newJobs, d.joblist, d.activeSlaves, d.idleSlaves, d.coSlaves,
                     d.coIdleSlaves, d.slaveOnHold, d.urlOnHold, d.queue>>
  BY InvTypes DEF StartStep, NothingToSchedule, Schedulers
<1>2. \A s \in Slaves : Listeners(s)' = Listeners(s)
  BY <1>1 DEF Listeners
<1>3. \A s \in Slaves : Role(s)'
  BY <1>1, <1>2, RolesKept
<1>4. \A j \in Jobs : Place(j)'
  BY <1>1, NobodyEnds, PlacesAfter
<1> QED BY <1>1, <1>3, <1>4 DEF IInv, Careful, NoRepeats

LEMMA RemoveSlaveOnHoldKeeps ==
  ASSUME IInv, TypeOK', RemoveSlaveOnHold
  PROVE  IInv'
<1>1. /\ UNCHANGED <<calls, job>> /\ slave' = Killed(slave, {d.slaveOnHold})
      /\ UNCHANGED <<d.newJobs, d.joblist, d.activeSlaves, d.idleSlaves, d.coSlaves,
                     d.coIdleSlaves, d.queue>>
      /\ d'.slaveOnHold = NoSlave
  BY InvTypes DEF RemoveSlaveOnHold, NotOnHold, Schedulers
<1>2. PICK s \in Slaves : s = d.slaveOnHold
  BY InvTypes DEF RemoveSlaveOnHold
<1>3. /\ slave \in [Slaves -> SlaveStates] /\ NoSlave \notin Slaves
      /\ \A r \in Slaves : Listeners(r)' = Listeners(r)
      /\ \A r \in Slaves : InIdle(r)' <=> InIdle(r)
  BY <1>1, InvTypes DEF Listeners, InIdle
<1>4. /\ \A r \in Slaves \ {s} : slave'[r] = slave[r]
      /\ slave'[s] = [slave[s] EXCEPT !.alive = FALSE]
  BY <1>1, <1>2, <1>3 DEF Killed
<1>5. ASSUME NEW r \in Slaves, r # s PROVE Role(r)'
  <2>1. Alike(slave[r], slave'[r])
    BY <1>4, <1>5 DEF Alike
  <2>2. SlaveKept(r)
    BY <1>1, <1>2, <1>3, <1>5, <2>1 DEF SlaveKept
  <2> QED BY <2>2, RoleKept DEF IInv
<1>6. Unused(s)'
  <2>1. OnHold(s)
    BY <1>2, RoleOnHold
  <2>2. slave[s] \in SlaveStates
    BY <1>3
  <2>3. /\ slave'[s].exists = slave[s].exists
        /\ slave'[s].contacted = slave[s].contacted
        /\ slave'[s].connecting = slave[s].connecting
        /\ slave'[s].todo = slave[s].todo /\ slave'[s].out = slave[s].out
        /\ slave'[s].phase = slave[s].phase
    BY <1>4, <2>2 DEF SlaveStates
  <2>4. \A u \in Urls : Suspended(s, u) => Suspended(s, u)'
    BY <2>3 DEF Suspended
  <2>5. IsActive(s)' /\ Object(s, FALSE, FALSE)'
    BY <1>1, <1>3, <2>1, <2>3 DEF OnHold, IsActive, Object
  <2> QED BY <1>1, <1>3, <2>1, <2>4, <2>5 DEF OnHold, Unused
<1>7. \A j \in Jobs : Place(j)'
  BY <1>1, NobodyEnds, PlacesAfter
<1> QED BY <1>1, <1>5, <1>6, <1>7 DEF IInv, Careful, NoRepeats, Role

LEMMA GetConnectedSlaveKeeps ==
  ASSUME IInv, TypeOK', NEW u \in ConnectUrls, GetConnectedSlave(u)
  PROVE  IInv'
<1>1. PICK s \in Slaves, o \in SlaveStates :
        /\ \/ Resting(s) /\ o = slave[s]
           \/ Gone(s) /\ o = [NoObject EXCEPT !.exists = TRUE]
        /\ d' = [d EXCEPT !.idleSlaves = removeAll(@, s), !.coSlaves = @ \union {s}]
        /\ slave' = [slave EXCEPT ![s] =
             [o EXCEPT !.host = host[u], !.connecting = TRUE, !.todo = Append(@, Connect)]]
  <2>0. slave \in SlaveArrays /\ TypeOK
    BY InvTypes DEF SlaveArrays
  <2>1. CASE searchIdleList(u) = NoSlave
    <3>1. MayCreateSlave
      BY <2>1 DEF GetConnectedSlave
    <3>2. PICK n \in Slaves : n = NewSlave /\ ~slave[n].exists
      BY <2>0, <3>1, NewSlaveFacts
    <3> DEFINE S == Created(slave, n)
               o == [NoObject EXCEPT !.exists = TRUE]
    <3>3. /\ d' = [d EXCEPT !.idleSlaves = removeAll(@, n), !.coSlaves = @ \union {n}]
          /\ slave' = [S EXCEPT ![n].host = host[u], ![n].connecting = TRUE,
                                ![n].todo = Append(@, Connect)]
      BY <2>1, <3>2 DEF GetConnectedSlave
    <3>4. S \in SlaveArrays /\ S[n] = o /\ o \in SlaveStates
          /\ S = [slave EXCEPT ![n] = o]
      BY <2>0, SlaveTypes DEF Created, SlaveArrays, NoObject, SlaveStates
    <3> HIDE DEF S, o
    <3>5. slave' = [S EXCEPT ![n] =
             [o EXCEPT !.host = host[u], !.connecting = TRUE, !.todo = Append(@, Connect)]]
      BY <3>3, <3>4 DEF SlaveArrays, SlaveStates
    <3>6. slave' = [slave EXCEPT ![n] =
             [o EXCEPT !.host = host[u], !.connecting = TRUE, !.todo = Append(@, Connect)]]
      BY <2>0, <3>4, <3>5 DEF SlaveArrays
    <3>7. Gone(n)
      BY <3>2, RoleGone
    <3> QED BY <3>3, <3>4, <3>6, <3>7 DEF o
  <2>2. CASE searchIdleList(u) # NoSlave
    <3>1. PICK n \in Slaves : n = searchIdleList(u) /\ InIdle(n)
      BY <2>0, <2>2, SearchFacts DEF InIdle
    <3>2. /\ d' = [d EXCEPT !.idleSlaves = removeAll(@, n), !.coSlaves = @ \union {n}]
          /\ slave' = [slave EXCEPT ![n].host = host[u], ![n].connecting = TRUE,
                                    ![n].todo = Append(@, Connect)]
      BY <2>2, <3>1 DEF GetConnectedSlave
    <3>3. slave' = [slave EXCEPT ![n] =
             [slave[n] EXCEPT !.host = host[u], !.connecting = TRUE,
                              !.todo = Append(@, Connect)]]
      BY <2>0, <3>2 DEF SlaveArrays, SlaveStates
    <3>4. PICK o \in SlaveStates : o = slave[n]
      BY <2>0 DEF SlaveArrays
    <3>5. Resting(n)
      BY <3>1, RoleIdle
    <3>6. slave' = [slave EXCEPT ![n] =
             [o EXCEPT !.host = host[u], !.connecting = TRUE, !.todo = Append(@, Connect)]]
      BY <3>3, <3>4
    <3>7. \/ Resting(n) /\ o = slave[n]
          \/ Gone(n) /\ o = [NoObject EXCEPT !.exists = TRUE]
      BY <3>4, <3>5
    <3> QED BY <3>2, <3>6, <3>7, Zenon
  <2> QED BY <2>1, <2>2
<1>2. /\ slave \in [Slaves -> SlaveStates] /\ d \in Schedulers
      /\ UNCHANGED <<calls, job>>
      /\ UNCHANGED <<d.newJobs, d.joblist, d.activeSlaves, d.coIdleSlaves, d.queue,
                     d.slaveOnHold, d.urlOnHold>>
      /\ d'.idleSlaves = removeAll(d.idleSlaves, s) /\ d'.coSlaves = d.coSlaves \union {s}
  BY <1>1, InvTypes DEF GetConnectedSlave, Schedulers
<1>3. /\ \A r \in Slaves : InIdle(r)' <=> InIdle(r) /\ r # s
      /\ IsInjective(d'.idleSlaves)
  BY <1>2, IdleWithout
<1>4. /\ \A r \in Slaves : Listeners(r)' = Listeners(r)
      /\ \A r \in Slaves \ {s} : slave'[r] = slave[r]
  BY <1>1, <1>2 DEF Listeners
<1>5. ASSUME NEW r \in Slaves, r # s PROVE Role(r)'
  <2>1. Alike(slave[r], slave'[r])
    BY <1>4, <1>5 DEF Alike
  <2>2. SlaveKept(r)
    BY <1>2, <1>3, <1>4, <1>5, <2>1 DEF SlaveKept
  <2> QED BY <2>2, RoleKept DEF IInv
<1>6. Connecting(s)'
  <2>1. /\ o.exists /\ o.alive /\ ~o.contacted /\ o.todo = <<>> /\ o.out = <<>>
        /\ o.phase = "ready"
    BY <1>1 DEF Resting, Object, AtRest, NoObject
  <2>2. /\ slave'[s].exists /\ slave'[s].alive /\ slave'[s].contacted = FALSE
        /\ slave'[s].connecting = TRUE /\ slave'[s].todo = Append(o.todo, Connect)
        /\ slave'[s].out = <<>> /\ slave'[s].phase = "ready"
    BY <1>1, <1>2, <2>1 DEF SlaveStates
  <2>3. slave'[s].todo = <<Connect>>
    BY <2>1, <2>2
  <2>4. Connects(s)' /\ Object(s, FALSE, TRUE)'
    BY <2>2, <2>3 DEF Connects, Object
  <2>5. IsCo(s)' /\ s \notin d'.coIdleSlaves /\ Listeners(s)' = {}
    BY <1>1, <1>2, <1>3, <1>4 DEF IsCo, Resting, Gone, IsIdle
  <2> QED BY <2>2, <2>4, <2>5 DEF Connecting
<1>7. \A j \in Jobs : Place(j)'
  BY <1>2, NobodyEnds, PlacesAfter
<1> QED BY <1>2, <1>3, <1>5, <1>6, <1>7 DEF IInv, Careful, NoRepeats, Role

LEMMA DisconnectKeeps ==
  ASSUME IInv, TypeOK', NEW s \in Slaves, DisconnectSlave(s)
  PROVE  IInv'
<1>1. /\ slave \in [Slaves -> SlaveStates] /\ d \in Schedulers
      /\ d.idleSlaves \in Seq(Slaves) /\ NoSlave \notin Slaves
      /\ s \in d.coSlaves /\ Listeners(s) = {} /\ slave[s].contacted
      /\ UNCHANGED calls
  BY InvTypes DEF DisconnectSlave, IInv, Careful
<1>2. Connected(s)
  <2>1. Role(s)
    BY DEF IInv
  <2> QED BY <1>1, <2>1 DEF Role, Gone, Resting, Busy, OnHold, Unused, Connecting,
                            CoBusy, IsActive, IsIdle, Object
<1>3. /\ UNCHANGED <<d.newJobs, d.joblist, d.activeSlaves, d.slaveOnHold, d.urlOnHold>>
      /\ d'.idleSlaves = Append(d.idleSlaves, s)
      /\ d'.queue = [d.queue EXCEPT ![s] = <<>>]
      /\ d'.coSlaves = d.coSlaves \ {s} /\ d'.coIdleSlaves = d.coIdleSlaves \ {s}
  <2> DEFINE E == Disconnected(d, s)
  <2>1. /\ E.newJobs = d.newJobs /\ E.joblist = d.joblist
        /\ E.activeSlaves = d.activeSlaves /\ E.slaveOnHold = d.slaveOnHold
        /\ E.urlOnHold = d.urlOnHold /\ E.idleSlaves = d.idleSlaves
        /\ E.queue = [d.queue EXCEPT ![s] = <<>>]
        /\ E.coSlaves = d.coSlaves \ {s} /\ E.coIdleSlaves = d.coIdleSlaves \ {s}
        /\ E \in Schedulers
    <3>1. [d.queue EXCEPT ![s] = <<>>] \in [Slaves -> Seq(Jobs)]
      BY InvTypes
    <3> QED BY <1>1, <3>1 DEF Disconnected, Schedulers
  <2>2. d' = [E EXCEPT !.idleSlaves = Append(@, s)]
    BY DEF DisconnectSlave
  <2> HIDE DEF E
  <2> QED BY <2>1, <2>2 DEF Schedulers
<1>4. /\ \A r \in Slaves : InIdle(r)' <=> InIdle(r) \/ r = s
      /\ IsInjective(d'.idleSlaves)
  <2>1. s \notin ToSet(d.idleSlaves) /\ IsInjective(d.idleSlaves)
    BY <1>2 DEF Connected, IsCo, InIdle, IInv, NoRepeats
  <2>2. /\ ToSet(d'.idleSlaves) = ToSet(d.idleSlaves) \union {s}
        /\ IsInjective(d'.idleSlaves)
    BY <1>1, <1>3, <2>1, AppendSet
  <2> QED BY <2>2 DEF InIdle
<1>5. job' = Ended(Listeners(s) \union ToSet(d.queue[s]))
  BY <1>1 DEF DisconnectSlave, KilledWith
<1>6. \A j \in Jobs : Place(j)'
  BY <1>3, <1>5, PlacesGo
<1>7. \A r \in Slaves : Listeners(r)' = Listeners(r)
  <2>1. \A r \in Slaves : Listeners(r)' = Listeners(r) \ ToSet(d.queue[s])
    BY <1>1, <1>5, InvTypes, EndedFacts
  <2>2. ASSUME NEW r \in Slaves, NEW j \in Listeners(r) PROVE j \notin ToSet(d.queue[s])
    <3>1. j \in Jobs /\ job[j].slave # NoSlave
      BY <1>1 DEF Listeners
    <3>2. Place(j)
      BY <3>1 DEF IInv
    <3> QED BY <3>1, <3>2 DEF Place, Behind
  <2> QED BY <2>1, <2>2
<1>8. /\ \A r \in Slaves \ {s} : slave'[r] = slave[r] /\ d'.queue[r] = d.queue[r]
      /\ d'.queue[s] = <<>>
      /\ slave'[s] = [slave[s] EXCEPT !.contacted = FALSE, !.connecting = FALSE]
  BY <1>1, <1>3, InvTypes DEF DisconnectSlave, SlaveStates
<1>9. ASSUME NEW r \in Slaves, r # s PROVE Role(r)'
  <2>1. Alike(slave[r], slave'[r])
    BY <1>8, <1>9 DEF Alike
  <2>2. SlaveKept(r)
    BY <1>1, <1>3, <1>4, <1>7, <1>8, <1>9, <2>1 DEF SlaveKept
  <2> QED BY <2>2, RoleKept DEF IInv
<1>10. Resting(s)'
  <2>1. /\ slave'[s].exists = slave[s].exists /\ slave'[s].alive = slave[s].alive
        /\ slave'[s].contacted = FALSE /\ slave'[s].connecting = FALSE
        /\ slave'[s].todo = slave[s].todo /\ slave'[s].out = slave[s].out
        /\ slave'[s].phase = slave[s].phase
    <3>1. slave[s] \in SlaveStates
      BY <1>1
    <3> QED BY <1>8, <3>1 DEF SlaveStates
  <2>2. AtRest(s)' /\ Object(s, FALSE, FALSE)' /\ slave'[s].alive
    BY <1>2, <2>1 DEF Connected, AtRest, Object
  <2>3. IsIdle(s)' /\ Listeners(s)' = {}
    BY <1>2, <1>3, <1>4, <1>7, <1>8 DEF Connected, IsCo, IsIdle
  <2> QED BY <2>2, <2>3 DEF Resting
<1>11. NoRepeats'
  <2>1. IsInjective(d'.queue[s])
    BY <1>8 DEF IsInjective
  <2> QED BY <1>3, <1>4, <1>8, <2>1 DEF IInv, NoRepeats
<1> QED BY <1>1, <1>6, <1>9, <1>10, <1>11 DEF IInv, Careful, Role

-----------------------------------------------------------------------------
(* What goes on between a slave and its process                             *)

\* Only the traffic of s changes, from what its role allows to what it allows.
LEMMA TalkKeeps ==
  ASSUME IInv, TypeOK', NEW s \in Slaves, UNCHANGED <<calls, job, d>>,
         \A r \in Slaves \ {s} : slave'[r] = slave[r],
         slave'[s].exists = slave[s].exists, slave'[s].alive = slave[s].alive,
         slave'[s].contacted = slave[s].contacted,
         slave'[s].connecting = slave[s].connecting,
         AtRest(s) => AtRest(s)',
         \A u \in Urls : Works(s, u) => Works(s, u)',
         \A u \in Urls : Suspended(s, u) => Suspended(s, u)',
         Connects(s) => Connects(s)'
  PROVE  IInv'
<1>1. /\ \A r \in Slaves : Listeners(r)' = Listeners(r)
      /\ \A r \in Slaves : InIdle(r)' <=> InIdle(r)
      /\ \A j \in Jobs : url[j] \in Urls
  BY UrlsOfJobs DEF Listeners, InIdle
<1>2. ASSUME NEW r \in Slaves, r # s PROVE Role(r)'
  <2>1. Alike(slave[r], slave'[r])
    BY <1>2 DEF Alike
  <2>2. SlaveKept(r)
    BY <1>1, <1>2, <2>1 DEF SlaveKept
  <2> QED BY <2>2, RoleKept DEF IInv
<1>3. Role(s)'
  <2>1. /\ IsActive(s) => IsActive(s)'
        /\ IsIdle(s) => IsIdle(s)'
        /\ IsCo(s) => IsCo(s)'
    BY <1>1 DEF IsActive, IsIdle, IsCo
  <2>2. Role(s)
    BY DEF IInv
  <2>3. CASE Gone(s)
    BY <1>1, <2>3 DEF Gone, Role
  <2>4. CASE Resting(s)
    BY <1>1, <2>1, <2>4 DEF Resting, Object, Role
  <2>5. CASE Busy(s)
    BY <1>1, <2>1, <2>5 DEF Busy, Object, Role
  <2>6. CASE OnHold(s)
    BY <1>1, <2>1, <2>6 DEF OnHold, Object, Role
  <2>7. CASE Unused(s)
    BY <1>1, <2>1, <2>7 DEF Unused, Object, Role
  <2>8. CASE Connecting(s)
    BY <1>1, <2>1, <2>8 DEF Connecting, Object, Role
  <2>9. CASE Connected(s)
    BY <1>1, <2>1, <2>9 DEF Connected, Object, Role
  <2>10. CASE CoBusy(s)
    BY <1>1, <2>1, <2>10 DEF CoBusy, Object, Role
  <2> QED BY <2>2, <2>3, <2>4, <2>5, <2>6, <2>7, <2>8, <2>9, <2>10 DEF Role
<1>4. \A j \in Jobs : Place(j)'
  BY NobodyEnds, PlacesAfter
<1> QED BY <1>2, <1>3, <1>4 DEF IInv, Careful, NoRepeats

\* The shapes of the traffic, with the first command.
LEMMA WorksCases ==
  ASSUME NEW s, NEW u, Works(s, u)
  PROVE  \E c \in Jobs :
           /\ url[c] = u
           /\ \/ /\ Starts(s, c) \/ TellsMimeType(s, c)
                 /\ slave[s].todo = <<c>> /\ Len(slave[s].todo) = 1
                 /\ Head(slave[s].todo) = c /\ Tail(slave[s].todo) = <<>>
              \/ /\ IsReused(s, c, u)
                 /\ Len(slave[s].todo) = 2 /\ Head(slave[s].todo) = c
              \/ Answers(s, c)
<1>1. PICK c \in Jobs : url[c] = u /\ ( \/ Starts(s, c) \/ TellsMimeType(s, c)
                                       \/ IsReused(s, c, u) \/ Answers(s, c))
  BY DEF Works
<1>2. Starts(s, c) \/ TellsMimeType(s, c) => slave[s].todo = <<c>>
  BY DEF Starts, TellsMimeType
<1>3. /\ Head(<<c>>) = c /\ Tail(<<c>>) = <<>> /\ Len(<<c>>) = 1
  OBVIOUS
<1>4. \A b : Head(<<c, b>>) = c /\ Len(<<c, b>>) = 2
  OBVIOUS
<1>5. IsReused(s, c, u) => Len(slave[s].todo) = 2 /\ Head(slave[s].todo) = c
  <2>1. ASSUME IsReused(s, c, u) PROVE Len(slave[s].todo) = 2 /\ Head(slave[s].todo) = c
    <3>1. PICK b : slave[s].todo = <<c, b>>
      BY <2>1 DEF IsReused
    <3> QED BY <1>4, <3>1
  <2> QED BY <2>1
<1> QED BY <1>1, <1>2, <1>3, <1>5

LEMMA CrashKeeps ==
  ASSUME IInv, TypeOK', NEW s \in Slaves, Crash(s)
  PROVE  IInv'
<1>1. /\ UNCHANGED <<calls, job, d>>
      /\ \A r \in Slaves \ {s} : slave'[r] = slave[r]
      /\ slave'[s].exists = slave[s].exists /\ slave'[s].alive = slave[s].alive
      /\ slave'[s].contacted = slave[s].contacted
      /\ slave'[s].connecting = slave[s].connecting
      /\ slave'[s].todo = slave[s].todo /\ slave'[s].out = slave[s].out
      /\ slave'[s].phase = slave[s].phase
  <2>1. slave[s] \in SlaveStates /\ slave \in [Slaves -> SlaveStates]
    BY InvTypes
  <2> QED BY <2>1 DEF Crash, SlaveStates
<1>2. Alike(slave[s], slave'[s])
  BY <1>1 DEF Alike
<1> QED BY <1>1, <1>2, AlikeTraffic, TalkKeeps

\* The command that a process executes is answered, or the next one is dropped.
LEMMA ProcessKeeps ==
  ASSUME IInv, TypeOK', NEW s \in Slaves, Process(s)
  PROVE  IInv'
<1> DEFINE o == slave[s]
           p == slave'[s]
<1>1. /\ slave \in [Slaves -> SlaveStates] /\ o \in SlaveStates
      /\ UNCHANGED <<calls, job, d>> /\ o.todo \in Seq(Commands) /\ o.out \in Seq(Messages)
  BY InvTypes DEF Process, SlaveStates
<1>2. ASSUME NEW type, NEW phase, NEW todo, Answer(s, type, phase, todo)
      PROVE  /\ \A r \in Slaves \ {s} : slave'[r] = slave[r]
             /\ p.exists = o.exists /\ p.alive = o.alive
             /\ p.contacted = o.contacted /\ p.connecting = o.connecting
             /\ p.phase = phase /\ p.todo = todo
             /\ p.out = Append(o.out, [type |-> type, of |-> Head(o.todo)])
  <2>1. slave' = [slave EXCEPT ![s] =
          [o EXCEPT !.phase = phase, !.todo = todo,
                    !.out = Append(o.out, [type |-> type, of |-> Head(o.todo)])]]
    BY <1>1, <1>2 DEF Answer, SlaveStates
  <2> QED BY <1>1, <2>1 DEF SlaveStates
<1>3. \A m : Append(<<>>, m) = <<m>>
  OBVIOUS
<1>4. \A c : Head(<<c>>) = c /\ Tail(<<c>>) = <<>> /\ Len(<<c>>) = 1 /\ <<c>> # <<>>
  OBVIOUS
<1>5. \A b, c : Head(<<c, b>>) = c /\ Len(<<c, b>>) = 2 /\ <<c, b>> # <<>>
  OBVIOUS
<1>6. CASE OpenConnection(s)
  <2>1. PICK type \in {"connected", "error"} : Answer(s, type, "ready", Tail(o.todo))
    BY <1>6 DEF OpenConnection
  <2>2. o.todo # <<>> /\ Head(o.todo) = Connect /\ Connect \notin Jobs
    BY <1>6, PoolAssumption DEF OpenConnection, Executes
  <2>3. ~AtRest(s)
    BY <2>2 DEF AtRest
  <2>4. \A u \in Urls : ~Suspended(s, u)
    BY <1>4, <2>2 DEF Suspended
  <2>5. \A u \in Urls : ~Works(s, u)
    BY <2>2, WorksCases DEF Answers
  <2>6. Connects(s) => Connects(s)'
    <3>1. SUFFICES ASSUME Connects(s) PROVE Connects(s)'
      OBVIOUS
    <3>2. o.todo = <<Connect>> /\ o.out = <<>> /\ o.phase = "ready"
      BY <2>2, <3>1 DEF Connects
    <3>3. p.todo = <<>> /\ p.phase = "ready" /\ p.out = <<[type |-> type, of |-> Connect]>>
      BY <1>2, <1>3, <1>4, <2>1, <2>2, <3>2
    <3> QED BY <2>1, <3>3 DEF Connects
  <2> QED BY <1>1, <1>2, <2>1, <2>3, <2>4, <2>5, <2>6, TalkKeeps
<1>7. CASE SendMimeType(s)
  <2>1. Answer(s, "mimeType", "mimeType", o.todo) /\ o.phase = "ready"
    BY <1>7 DEF SendMimeType
  <2>2. o.todo # <<>> /\ Head(o.todo) \in Jobs /\ Connect \notin Jobs
    BY <1>7, PoolAssumption, UrlAssumption DEF SendMimeType, Executes
  <2>3. ~AtRest(s)
    BY <2>2 DEF AtRest
  <2>4. \A u \in Urls : ~Suspended(s, u)
    BY <2>1 DEF Suspended
  <2>5. ASSUME NEW u \in Urls, Works(s, u) PROVE Works(s, u)'
    <3>1. PICK c \in Jobs : url[c] = u /\ o.todo = <<c>> /\ o.out = <<>>
      BY <2>1, <2>2, <2>5, WorksCases DEF Starts, TellsMimeType, IsReused, Answers
    <3>2. TellsMimeType(s, c)'
      BY <1>2, <1>3, <1>4, <2>1, <3>1 DEF TellsMimeType
    <3> QED BY <3>1, <3>2 DEF Works
  <2>6. ~Connects(s)
    BY <1>4, <2>2 DEF Connects
  <2> QED BY <1>1, <1>2, <2>1, <2>3, <2>4, <2>5, <2>6, TalkKeeps
<1>8. CASE SendMimeTypeAgain(s)
  <2>1. /\ Answer(s, "mimeType", "mimeType", RemoveAt(o.todo, 2))
        /\ o.phase = "mimeType" /\ Len(o.todo) > 1
    BY <1>8 DEF SendMimeTypeAgain
  <2>2. ~AtRest(s) /\ ~Connects(s)
    BY <2>1 DEF AtRest, Connects
  <2>3. \A u \in Urls : ~Suspended(s, u)
    <3>1. ASSUME NEW c, o.todo = <<c>> PROVE FALSE
      <4>1. Len(<<c>>) = 1
        OBVIOUS
      <4>2. Len(o.todo) = 1
        BY <3>1, <4>1
      <4> QED BY <2>1, <4>2
    <3> QED BY <3>1 DEF Suspended
  <2>4. ASSUME NEW u \in Urls, Works(s, u) PROVE Works(s, u)'
    <3>1. PICK c \in Jobs, b \in Jobs :
            url[c] = u /\ url[b] = u /\ o.todo = <<c, b>> /\ o.out = <<>>
      <4>1. PICK c \in Jobs : url[c] = u /\ IsReused(s, c, u)
        <5>1. Len(o.todo) # 1
          <6>1. PICK n \in Nat : n = Len(o.todo)
            BY <1>1
          <6>2. n > 1
            BY <2>1, <6>1
          <6>3. n # 1
            BY <6>2
          <6> QED BY <6>1, <6>3, Zenon
        <5>2. o.phase # "ready"
          BY <2>1
        <5> QED BY <2>4, <5>1, <5>2, WorksCases DEF Answers
      <4> QED BY <4>1 DEF IsReused
    <3>2. RemoveAt(o.todo, 2) = <<c>>
      <4> DEFINE t == RemoveAt(o.todo, 2)
      <4>1. o.todo \in Seq(Jobs) /\ 2 \in 1..Len(o.todo) /\ Len(o.todo) = 2
        BY <3>1
      <4>2. /\ t \in Seq(Jobs) /\ Len(t) = Len(o.todo) - 1
            /\ \A k \in 1..(Len(o.todo) - 1) :
                 t[k] = IF k < 2 THEN o.todo[k] ELSE o.todo[k + 1]
        BY <4>1, RemoveAtFacts
      <4> HIDE DEF t
      <4>3. Len(t) = 1 /\ t[1] = c
        BY <3>1, <4>1, <4>2
      <4> QED BY <4>2, <4>3 DEF t
    <3>3. TellsMimeType(s, c)'
      BY <1>2, <1>3, <1>5, <2>1, <3>1, <3>2 DEF TellsMimeType
    <3> QED BY <3>1, <3>3 DEF Works
  <2> QED BY <1>1, <1>2, <2>1, <2>2, <2>3, <2>4, TalkKeeps
<1>9. CASE Finish(s)
  <2>1. Answer(s, "finished", "ready", Tail(o.todo)) /\ o.phase # "mimeType"
    BY <1>9 DEF Finish
  <2>2. o.todo # <<>> /\ Head(o.todo) \in Jobs /\ Connect \notin Jobs
    BY <1>9, PoolAssumption DEF Finish, Executes
  <2>3. ~AtRest(s) /\ ~Connects(s)
    BY <1>4, <2>2 DEF AtRest, Connects
  <2>4. \A u \in Urls : ~Suspended(s, u)
    BY <2>1 DEF Suspended
  <2>5. ASSUME NEW u \in Urls, Works(s, u) PROVE Works(s, u)'
    <3>1. PICK c \in Jobs : url[c] = u /\ o.todo = <<c>> /\ o.out = <<>>
      BY <2>1, <2>2, <2>5, WorksCases DEF Starts, TellsMimeType, IsReused, Answers
    <3>2. Answers(s, c)'
      BY <1>2, <1>3, <1>4, <2>1, <3>1 DEF Answers
    <3> QED BY <3>1, <3>2 DEF Works
  <2> QED BY <1>1, <1>2, <2>1, <2>3, <2>4, <2>5, TalkKeeps
<1> QED BY <1>6, <1>7, <1>8, <1>9 DEF Process


\* A message is read: it is the only one on its way, and says what the slave is
\* doing.
LEMMA ReadFacts ==
  ASSUME IInv, NEW s \in Slaves, NEW type, Receives(s, type)
  PROVE  /\ Read(s) = [slave EXCEPT ![s] = [slave[s] EXCEPT !.out = Tail(@)]]
         /\ ~AtRest(s) /\ \A u : ~Suspended(s, u)
         /\ Connects(s) =>
              /\ type \in {"connected", "error"}
              /\ slave[s].todo = <<>> /\ slave[s].phase = "ready"
              /\ Tail(slave[s].out) = <<>>
         /\ \A u : Works(s, u) =>
              /\ Tail(slave[s].out) = <<>>
              /\ \E c \in Jobs :
                   /\ url[c] = u
                   /\ \/ type = "mimeType" /\ TellsMimeType(s, c)
                      \/ type = "finished" /\ Answers(s, c)
<1> DEFINE o == slave[s]
<1>1. o.out # <<>> /\ Head(o.out).type = type
  BY DEF Receives
<1>2. Read(s) = [slave EXCEPT ![s] = [o EXCEPT !.out = Tail(@)]]
  BY InvTypes DEF Read, SlaveStates
<1>3. ~AtRest(s) /\ \A u : ~Suspended(s, u)
  BY <1>1 DEF AtRest, Suspended
<1>4. \A m : Head(<<m>>) = m /\ Tail(<<m>>) = <<>>
  OBVIOUS
<1>5. ASSUME Connects(s)
      PROVE  /\ type \in {"connected", "error"} /\ o.todo = <<>> /\ o.phase = "ready"
             /\ Tail(o.out) = <<>>
  <2>1. PICK t \in {"connected", "error"} :
          o.out = <<[type |-> t, of |-> Connect]>> /\ o.todo = <<>> /\ o.phase = "ready"
    BY <1>1, <1>5 DEF Connects
  <2>2. Head(o.out) = [type |-> t, of |-> Connect] /\ Tail(o.out) = <<>>
    BY <1>4, <2>1
  <2> QED BY <1>1, <2>1, <2>2
<1>6. ASSUME NEW u, Works(s, u)
      PROVE  /\ Tail(o.out) = <<>>
             /\ \E c \in Jobs :
                  /\ url[c] = u
                  /\ \/ type = "mimeType" /\ TellsMimeType(s, c)
                     \/ type = "finished" /\ Answers(s, c)
  <2>1. PICK c \in Jobs : url[c] = u /\ (TellsMimeType(s, c) \/ Answers(s, c))
    BY <1>1, <1>6 DEF Works, Starts, IsReused
  <2>2. CASE TellsMimeType(s, c)
    <3>1. Head(o.out) = [type |-> "mimeType", of |-> c] /\ Tail(o.out) = <<>>
      BY <1>4, <2>2 DEF TellsMimeType
    <3> QED BY <1>1, <2>1, <2>2, <3>1
  <2>3. CASE Answers(s, c)
    <3>1. Head(o.out) = [type |-> "finished", of |-> c] /\ Tail(o.out) = <<>>
      BY <1>4, <2>3 DEF Answers
    <3> QED BY <1>1, <2>1, <2>3, <3>1
  <2> QED BY <2>1, <2>2, <2>3
<1> QED BY <1>2, <1>3, <1>5, <1>6

LEMMA MimeTypeKeeps ==
  ASSUME IInv, TypeOK', NEW s \in Slaves, MimeType(s)
  PROVE  IInv'
<1> DEFINE o == slave[s]
           p == slave'[s]
<1>1. Receives(s, "mimeType") /\ UNCHANGED <<calls, job, d>> /\ o \in SlaveStates
      /\ slave \in [Slaves -> SlaveStates]
  BY InvTypes DEF MimeType
<1>2. /\ Read(s) = [slave EXCEPT ![s] = [o EXCEPT !.out = Tail(@)]]
      /\ ~AtRest(s) /\ \A u : ~Suspended(s, u)
      /\ ~Connects(s)
      /\ \A u : Works(s, u) =>
           Tail(o.out) = <<>> /\ \E c \in Jobs : url[c] = u /\ TellsMimeType(s, c)
  BY <1>1, ReadFacts
<1>3. /\ \A r \in Slaves \ {s} : slave'[r] = slave[r]
      /\ p = [o EXCEPT !.out = Tail(@), !.phase = "going"]
  BY <1>1, <1>2 DEF MimeType, SlaveStates
<1>4. /\ p.exists = o.exists /\ p.alive = o.alive
      /\ p.contacted = o.contacted /\ p.connecting = o.connecting
      /\ p.todo = o.todo /\ p.out = Tail(o.out) /\ p.phase = "going"
  BY <1>1, <1>3 DEF SlaveStates
<1>5. ASSUME NEW u \in Urls, Works(s, u) PROVE Works(s, u)'
  <2>1. PICK c \in Jobs : url[c] = u /\ TellsMimeType(s, c) /\ Tail(o.out) = <<>>
    BY <1>2, <1>5
  <2>2. Starts(s, c)'
    BY <1>4, <2>1 DEF Starts, TellsMimeType
  <2> QED BY <2>1, <2>2 DEF Works
<1> QED BY <1>1, <1>2, <1>3, <1>4, <1>5, TalkKeeps

LEMMA SlaveConnectedKeeps ==
  ASSUME IInv, TypeOK', NEW s \in Slaves, SlaveConnected(s)
  PROVE  IInv'
<1> DEFINE o == slave[s]
           p == slave'[s]
<1>1. /\ Receives(s, "connected") /\ UNCHANGED <<calls, job>> /\ o \in SlaveStates
      /\ slave \in [Slaves -> SlaveStates] /\ d \in Schedulers
  BY InvTypes DEF SlaveConnected
<1>2. /\ Read(s) = [slave EXCEPT ![s] = [o EXCEPT !.out = Tail(@)]]
      /\ ~AtRest(s) /\ \A u : ~Suspended(s, u)
      /\ Connects(s) => o.todo = <<>> /\ o.phase = "ready" /\ Tail(o.out) = <<>>
      /\ \A u : ~Works(s, u)
  BY <1>1, ReadFacts
<1>3. Connecting(s) \/ Gone(s)
  <2>1. Role(s)
    BY DEF IInv
  <2> QED BY <1>2, <2>1 DEF Role, Resting, Busy, OnHold, Unused, Connected, CoBusy
<1>4. Connecting(s) /\ o.connecting
  BY <1>1, <1>3 DEF Receives, Gone, Connecting, Object
<1>5. /\ UNCHANGED <<d.newJobs, d.joblist, d.activeSlaves, d.idleSlaves, d.coSlaves,
                     d.queue, d.slaveOnHold, d.urlOnHold>>
      /\ d'.coIdleSlaves = d.coIdleSlaves \union {s}
      /\ slave' = [Read(s) EXCEPT ![s].contacted = TRUE, ![s].connecting = FALSE]
  BY <1>1, <1>4 DEF SlaveConnected, Schedulers
<1>6. /\ \A r \in Slaves \ {s} : slave'[r] = slave[r]
      /\ p = [o EXCEPT !.out = Tail(@), !.contacted = TRUE, !.connecting = FALSE]
  <2> DEFINE r1 == [o EXCEPT !.out = Tail(@)]
  <2>1. slave' = [slave EXCEPT ![s] = [r1 EXCEPT !.contacted = TRUE, !.connecting = FALSE]]
    BY <1>1, <1>2, <1>5 DEF SlaveStates
  <2> QED BY <1>1, <2>1 DEF SlaveStates
<1>7. /\ p.exists = o.exists /\ p.alive = o.alive
      /\ p.contacted = TRUE /\ p.connecting = FALSE
      /\ p.todo = o.todo /\ p.out = Tail(o.out) /\ p.phase = o.phase
  BY <1>1, <1>6 DEF SlaveStates
<1>8. /\ \A r \in Slaves : Listeners(r)' = Listeners(r)
      /\ \A r \in Slaves : InIdle(r)' <=> InIdle(r)
  BY <1>1, <1>5 DEF Listeners, InIdle
<1>9. ASSUME NEW r \in Slaves, r # s PROVE Role(r)'
  <2>1. Alike(slave[r], slave'[r])
    BY <1>6, <1>9 DEF Alike
  <2>2. SlaveKept(r)
    BY <1>1, <1>5, <1>8, <1>9, <2>1 DEF SlaveKept
  <2> QED BY <2>2, RoleKept DEF IInv
<1>10. Connected(s)'
  <2>1. AtRest(s)' /\ Object(s, TRUE, FALSE)' /\ p.alive
    BY <1>2, <1>4, <1>7 DEF AtRest, Object, Connecting
  <2>2. IsCo(s)' /\ Listeners(s)' = {} /\ s \in d'.coIdleSlaves
    BY <1>4, <1>5, <1>8 DEF IsCo, Connecting
  <2> QED BY <2>1, <2>2 DEF Connected
<1>11. \A j \in Jobs : Place(j)'
  BY <1>1, <1>5, NobodyEnds, PlacesAfter
<1> QED BY <1>1, <1>5, <1>9, <1>10, <1>11 DEF IInv, Careful, NoRepeats, Role

\* The slave that a job had is given back.
LEMMA JobAnsweredKeeps ==
  ASSUME IInv, TypeOK', NEW s \in Slaves,
         JobAnswered(s, "finished") \/ JobAnswered(s, "error")
  PROVE  IInv'
<1> DEFINE o == slave[s]
           p == slave'[s]
<1>1. PICK type \in {"finished", "error"} : JobAnswered(s, type)
  OBVIOUS
<1>2. /\ Receives(s, type) /\ UNCHANGED calls /\ slave' = Read(s) /\ o \in SlaveStates
      /\ slave \in [Slaves -> SlaveStates] /\ d \in Schedulers
  BY <1>1, InvTypes DEF JobAnswered
<1>3. /\ Read(s) = [slave EXCEPT ![s] = [o EXCEPT !.out = Tail(@)]]
      /\ ~AtRest(s) /\ \A u : ~Suspended(s, u)
      /\ Connects(s) => /\ type = "error"
                        /\ o.todo = <<>> /\ o.phase = "ready" /\ Tail(o.out) = <<>>
      /\ \A u : Works(s, u) =>
           /\ type = "finished" /\ Tail(o.out) = <<>>
           /\ \E c \in Jobs : url[c] = u /\ Answers(s, c)
  BY <1>2, ReadFacts
<1>4. /\ \A r \in Slaves \ {s} : slave'[r] = slave[r]
      /\ p.exists = o.exists /\ p.alive = o.alive
      /\ p.contacted = o.contacted /\ p.connecting = o.connecting
      /\ p.todo = o.todo /\ p.out = Tail(o.out) /\ p.phase = o.phase
  BY <1>2, <1>3 DEF SlaveStates
<1>5. Connecting(s) \/ Busy(s) \/ CoBusy(s)
  <2>1. Role(s) /\ o.exists
    BY <1>2 DEF IInv, Receives
  <2> QED BY <1>3, <2>1 DEF Role, Gone, Resting, OnHold, Unused, Connected
<1>6. CASE Connecting(s)
  <2>1. UNCHANGED <<d, job>>
    BY <1>1, <1>6 DEF JobAnswered, Connecting
  <2>2. Connects(s) => Connects(s)'
    BY <1>3, <1>4 DEF Connects
  <2>3. \A u \in Urls : ~Works(s, u)
    BY <1>3, <1>6 DEF Connecting
  <2> QED BY <1>2, <1>3, <1>4, <2>1, <2>2, <2>3, TalkKeeps
<1>7. CASE Busy(s) \/ CoBusy(s)
  <2>1. PICK j \in Jobs : Listeners(s) = {j} /\ Works(s, url[j])
    BY <1>7 DEF Busy, CoBusy
  <2>2. o.alive = TRUE /\ d' = jobFinished(d, s, TRUE) /\ job' = Ended({j})
    <3>1. o.alive = TRUE
      BY <1>2, <1>7 DEF Busy, CoBusy, SlaveStates
    <3> QED BY <1>1, <2>1, <3>1 DEF JobAnswered
  <2>3. /\ UNCHANGED <<d.newJobs, d.joblist, d.queue, d.coSlaves, d.slaveOnHold, d.urlOnHold>>
        /\ d'.activeSlaves = [d.activeSlaves EXCEPT ![s] = 0]
        /\ d'.idleSlaves = IF s \notin d.coSlaves
                             THEN Append(d.idleSlaves, s) ELSE d.idleSlaves
        /\ d'.coIdleSlaves = IF s \in d.coSlaves
                               THEN d.coIdleSlaves \union {s} ELSE d.coIdleSlaves
    BY <1>2, <2>2, JobFinishedFacts
  <2>4. /\ d'.activeSlaves[s] = 0
        /\ \A r \in Slaves \ {s} : d'.activeSlaves[r] = d.activeSlaves[r]
    BY <2>3, InvTypes
  <2>5. /\ ~InIdle(s) /\ d.idleSlaves \in Seq(Slaves) /\ IsInjective(d.idleSlaves)
    BY <1>7, InvTypes DEF Busy, CoBusy, IsActive, IsCo, IInv, NoRepeats
  <2>6. /\ \A r \in Slaves \ {s} : InIdle(r)' <=> InIdle(r)
        /\ InIdle(s)' <=> s \notin d.coSlaves
        /\ IsInjective(d'.idleSlaves)
    <3>1. CASE s \notin d.coSlaves
      <4>1. /\ ToSet(d'.idleSlaves) = ToSet(d.idleSlaves) \union {s}
            /\ IsInjective(d'.idleSlaves)
        BY <2>3, <2>5, <3>1, AppendSet DEF InIdle
      <4> QED BY <3>1, <4>1 DEF InIdle
    <3>2. CASE s \in d.coSlaves
      BY <2>3, <2>5, <3>2 DEF InIdle
    <3> QED BY <3>1, <3>2
  <2>7. /\ \A r \in Slaves \ {s} : Listeners(r)' = Listeners(r)
        /\ Listeners(s)' = {}
    <3>1. \A r \in Slaves : Listeners(r)' = Listeners(r) \ {j}
      BY <2>2, InvTypes, EndedFacts
    <3>2. \A r \in Slaves \ {s} : j \notin Listeners(r)
      BY <2>1 DEF Listeners
    <3> QED BY <2>1, <3>1, <3>2
  <2>8. ASSUME NEW r \in Slaves, r # s PROVE Role(r)'
    <3>1. Alike(slave[r], slave'[r])
      BY <1>4, <2>8 DEF Alike
    <3>2. SlaveKept(r)
      BY <1>2, <2>3, <2>4, <2>6, <2>7, <2>8, <3>1 DEF SlaveKept
    <3> QED BY <3>2, RoleKept DEF IInv
  <2>9. AtRest(s)'
    BY <1>3, <1>4, <2>1 DEF Answers, AtRest
  <2>10. ASSUME Busy(s) PROVE Role(s)'
    BY <1>4, <2>3, <2>4, <2>6, <2>7, <2>9, <2>10
    DEF Busy, IsActive, Object, Resting, IsIdle, Role
  <2>11. ASSUME CoBusy(s) PROVE Role(s)'
    BY <1>4, <2>3, <2>4, <2>6, <2>7, <2>9, <2>11
    DEF CoBusy, IsCo, Object, Connected, Role
  <2>12. \A k \in Jobs : Place(k)'
    <3>1. \A k \in {j} : job[k].slave # NoSlave
      BY <2>1, InvTypes DEF Listeners
    <3> QED BY <2>2, <2>3, <3>1, PlacesAfter
  <2> QED BY <1>2, <1>7, <2>3, <2>6, <2>8, <2>10, <2>11, <2>12 DEF IInv, Careful, NoRepeats
<1> QED BY <1>5, <1>6, <1>7

LEMMA PutSlaveOnHoldKeeps ==
  ASSUME IInv, TypeOK', NEW j \in Jobs, NEW s \in Slaves, PutSlaveOnHold(j, s)
  PROVE  IInv'
<1> DEFINE o == slave[s]
           p == slave'[s]
           h == d.slaveOnHold
<1>1. /\ Receives(s, "mimeType") /\ "putOnHold" \in calls /\ j \in Listeners(s)
      /\ s \notin d.coSlaves /\ job' = Ended({j})
      /\ UNCHANGED calls /\ slave' = Killed(Read(s), {h}) /\ o \in SlaveStates
      /\ slave \in [Slaves -> SlaveStates] /\ NoSlave \notin Slaves
      /\ UNCHANGED <<d.newJobs, d.joblist, d.activeSlaves, d.idleSlaves, d.coSlaves,
                     d.coIdleSlaves, d.queue>>
      /\ d'.slaveOnHold = s /\ d'.urlOnHold = url[j]
  BY InvTypes DEF PutSlaveOnHold, May, Listeners, Schedulers
<1>2. Busy(s) /\ Listeners(s) = {j}
  BY <1>1, OneListener DEF CoBusy, IsCo
<1>3. h # s
  BY <1>2 DEF Busy
<1>4. /\ Read(s) = [slave EXCEPT ![s] = [o EXCEPT !.out = Tail(@)]]
      /\ \A u : Works(s, u) =>
           Tail(o.out) = <<>> /\ \E c \in Jobs : url[c] = u /\ TellsMimeType(s, c)
  BY <1>1, ReadFacts
<1>5. /\ p.exists = o.exists /\ p.alive = o.alive
      /\ p.contacted = o.contacted /\ p.connecting = o.connecting
      /\ p.todo = o.todo /\ p.out = Tail(o.out) /\ p.phase = o.phase
      /\ \A r \in Slaves \ {s, h} : slave'[r] = slave[r]
      /\ h \in Slaves => slave'[h] = [slave[h] EXCEPT !.alive = FALSE]
  <2>1. \A r \in Slaves : slave'[r] =
          IF r = h THEN [Read(s)[r] EXCEPT !.alive = FALSE] ELSE Read(s)[r]
    BY <1>1 DEF Killed
  <2>2. /\ \A r \in Slaves \ {s} : Read(s)[r] = slave[r]
        /\ Read(s)[s] = [o EXCEPT !.out = Tail(@)]
    BY <1>1, <1>4
  <2>3. p = [o EXCEPT !.out = Tail(@)]
    BY <1>3, <2>1, <2>2
  <2>4. h \in Slaves => slave'[h] = [slave[h] EXCEPT !.alive = FALSE]
    BY <1>3, <2>1, <2>2
  <2>5. \A r \in Slaves \ {s, h} : slave'[r] = slave[r]
    BY <2>1, <2>2
  <2> QED BY <1>1, <2>3, <2>4, <2>5 DEF SlaveStates
<1>6. /\ \A r \in Slaves \ {s} : Listeners(r)' = Listeners(r)
      /\ Listeners(s)' = {}
      /\ \A r \in Slaves : InIdle(r)' <=> InIdle(r)
  <2>1. \A r \in Slaves : Listeners(r)' = Listeners(r) \ {j}
    BY <1>1, InvTypes, EndedFacts
  <2>2. \A r \in Slaves \ {s} : j \notin Listeners(r)
    BY <1>2 DEF Listeners
  <2> QED BY <1>1, <1>2, <2>1, <2>2 DEF InIdle
<1>7. ASSUME NEW r \in Slaves, r # s, r # h PROVE Role(r)'
  <2>1. Alike(slave[r], slave'[r])
    BY <1>5, <1>7 DEF Alike
  <2>2. SlaveKept(r)
    BY <1>1, <1>6, <1>7, <2>1 DEF SlaveKept
  <2> QED BY <2>2, RoleKept DEF IInv
<1>8. ASSUME NEW r \in Slaves, r = h PROVE Unused(r)'
  <2>1. OnHold(r) /\ slave[r] \in SlaveStates
    BY <1>1, <1>8, RoleOnHold
  <2>2. /\ slave'[r].exists = slave[r].exists
        /\ slave'[r].contacted = slave[r].contacted
        /\ slave'[r].connecting = slave[r].connecting
        /\ slave'[r].todo = slave[r].todo /\ slave'[r].out = slave[r].out
        /\ slave'[r].phase = slave[r].phase
    BY <1>5, <1>8, <2>1 DEF SlaveStates
  <2>3. \A u \in Urls : Suspended(r, u) => Suspended(r, u)'
    BY <2>2 DEF Suspended
  <2>4. IsActive(r)' /\ Object(r, FALSE, FALSE)'
    BY <1>1, <1>6, <2>1, <2>2 DEF OnHold, IsActive, Object
  <2> QED BY <1>1, <1>3, <1>6, <1>8, <2>1, <2>3, <2>4 DEF OnHold, Unused
<1>9. OnHold(s)'
  <2>1. Works(s, url[j])
    <3>1. PICK k \in Jobs : Listeners(s) = {k} /\ Works(s, url[k])
      BY <1>2 DEF Busy
    <3>2. k = j
      BY <1>2, <3>1
    <3> QED BY <3>1, <3>2
  <2>2. PICK c \in Jobs : url[c] = url[j] /\ TellsMimeType(s, c) /\ Tail(o.out) = <<>>
    BY <1>4, <2>1
  <2>3. Suspended(s, url[j])'
    BY <1>5, <2>2 DEF TellsMimeType, Suspended
  <2>4. IsActive(s)' /\ Object(s, FALSE, FALSE)' /\ p.alive
    BY <1>1, <1>2, <1>5, <1>6 DEF Busy, IsActive, Object
  <2> QED BY <1>1, <1>6, <2>3, <2>4, UrlsOfJobs DEF OnHold
<1>10. \A k \in Jobs : Place(k)'
  <2>1. \A k \in {j} : job[k].slave # NoSlave
    BY <1>1 DEF Listeners
  <2> QED BY <1>1, <2>1, PlacesAfter
<1> QED BY <1>1, <1>7, <1>8, <1>9, <1>10 DEF IInv, Careful, NoRepeats, Role

-----------------------------------------------------------------------------
(* Jobs are started                                                         *)

LEMMA ScheduleCoSlaveKeeps ==
  ASSUME IInv, TypeOK', ScheduleCoSlave
  PROVE  IInv'
<1>0. PICK ready : ready = {s \in d.coIdleSlaves : d.queue[s] # <<>>}
  OBVIOUS
<1>1. /\ d' = [d EXCEPT
            !.coSlaveTimer = FALSE,
            !.coIdleSlaves = @ \ ready,
            !.queue = [s \in Slaves |-> IF s \in ready THEN Tail(@[s]) ELSE @[s]]]
      /\ job' = [j \in Jobs |->
            IF \E s \in ready : Head(d.queue[s]) = j
              THEN [job[j] EXCEPT !.slave =
                      CHOOSE s \in ready : Head(d.queue[s]) = j]
              ELSE job[j]]
      /\ slave' = [s \in Slaves |->
            IF s \in ready
              THEN [slave[s] EXCEPT !.todo = Append(@, Head(d.queue[s]))]
              ELSE slave[s]]
      /\ UNCHANGED calls
  BY <1>0 DEF ScheduleCoSlave
<1>2. /\ ready \subseteq Slaves /\ d \in Schedulers /\ NoSlave \notin Slaves
      /\ slave \in [Slaves -> SlaveStates]
      /\ job \in [Jobs -> [state : {"none", "created", "ended"},
                           slave : Slaves \union {NoSlave}]]
      /\ \A s \in Slaves : d.queue[s] \in Seq(Jobs) /\ IsInjective(d.queue[s])
  BY <1>0, InvTypes DEF IInv, NoRepeats
<1>3. /\ UNCHANGED <<d.newJobs, d.joblist, d.activeSlaves, d.idleSlaves, d.coSlaves,
                     d.slaveOnHold, d.urlOnHold>>
      /\ d'.coIdleSlaves = d.coIdleSlaves \ ready
      /\ \A s \in ready : d'.queue[s] = Tail(d.queue[s])
      /\ \A s \in Slaves \ ready : d'.queue[s] = d.queue[s]
  BY <1>1, <1>2 DEF Schedulers
<1>4. ASSUME NEW s \in ready
      PROVE  /\ Connected(s) /\ Head(d.queue[s]) \in Jobs
             /\ Behind(Head(d.queue[s]), s)
             /\ ToSet(d'.queue[s]) = ToSet(d.queue[s]) \ {Head(d.queue[s])}
             /\ IsInjective(d'.queue[s])
  <2>1. s \in Slaves /\ s \in d.coIdleSlaves /\ d.queue[s] # <<>>
    BY <1>0, <1>2
  <2>2. d.queue[s] \in Seq(Jobs) /\ IsInjective(d.queue[s])
    BY <1>2, <2>1
  <2>3. Connected(s) /\ Head(d.queue[s]) \in Jobs
    BY <2>1, <2>2, RoleConnected
  <2> QED BY <1>3, <2>1, <2>2, <2>3, TailSet DEF Behind
<1>5. ASSUME NEW j \in Jobs, NEW s \in ready, j = Head(d.queue[s])
      PROVE  /\ job'[j] = [job[j] EXCEPT !.slave = s] /\ job[j].slave = NoSlave
             /\ Exists(j) /\ ~InNew(j) /\ ~InList(j)
             /\ \A r \in Slaves : Behind(j, r) => r = s
             /\ \A r \in ready : Head(d.queue[r]) = j => r = s
  <2>1. Behind(j, s) /\ s \in Slaves /\ Place(j)
    BY <1>2, <1>4, <1>5 DEF IInv
  <2>2. /\ job[j].slave = NoSlave /\ Exists(j) /\ ~InNew(j) /\ ~InList(j)
        /\ \A r \in Slaves : Behind(j, r) => r = s
    BY <2>1 DEF Place
  <2>3. \A r \in ready : Head(d.queue[r]) = j => r = s
    BY <1>2, <1>4, <2>2
  <2>4. (CHOOSE r \in ready : Head(d.queue[r]) = j) = s
    BY <1>5, <2>3
  <2>5. job'[j] = [job[j] EXCEPT !.slave = s]
    BY <1>1, <1>5, <2>4
  <2> QED BY <2>2, <2>3, <2>5
<1>6. ASSUME NEW j \in Jobs, \A s \in ready : j # Head(d.queue[s])
      PROVE  job'[j] = job[j]
  BY <1>1, <1>6
<1>7. \A s \in Slaves : InIdle(s)' <=> InIdle(s)
  BY <1>3 DEF InIdle
<1>8. ASSUME NEW s \in Slaves, s \notin ready PROVE Role(s)'
  <2>1. Listeners(s)' = Listeners(s)
    <3>1. ASSUME NEW j \in Jobs PROVE job'[j].slave = s <=> job[j].slave = s
      <4>1. CASE \E r \in ready : j = Head(d.queue[r])
        <5>1. PICK r \in ready : j = Head(d.queue[r])
          BY <4>1
        <5>2. job'[j] = [job[j] EXCEPT !.slave = r] /\ job[j].slave = NoSlave
          BY <1>5, <5>1
        <5>3. job'[j].slave = r
          BY <1>2, <5>2
        <5> QED BY <1>2, <1>8, <5>1, <5>2, <5>3
      <4>2. CASE ~\E r \in ready : j = Head(d.queue[r])
        BY <1>6, <4>2
      <4> QED BY <4>1, <4>2
    <3> QED BY <3>1 DEF Listeners
  <2>2. Alike(slave[s], slave'[s])
    BY <1>1, <1>8 DEF Alike
  <2>3. SlaveKept(s)
    BY <1>1, <1>3, <1>7, <1>8, <2>1, <2>2 DEF SlaveKept
  <2> QED BY <2>3, RoleKept DEF IInv
<1>9. ASSUME NEW s \in ready PROVE Role(s)'
  <2>1. PICK j \in Jobs : j = Head(d.queue[s])
    BY <1>4
  <2>2. s \in Slaves /\ Connected(s) /\ slave[s] \in SlaveStates
    BY <1>2, <1>4
  <2>3. Listeners(s)' = {j}
    <3>1. ASSUME NEW k \in Jobs PROVE job'[k].slave = s <=> k = j
      <4>1. CASE \E r \in ready : k = Head(d.queue[r])
        <5>1. PICK r \in ready : k = Head(d.queue[r])
          BY <4>1
        <5>2. job'[k] = [job[k] EXCEPT !.slave = r]
          BY <1>5, <5>1
        <5>3. job'[k].slave = r
          BY <1>2, <5>2
        <5> QED BY <1>5, <2>1, <5>1, <5>3
      <4>2. CASE ~\E r \in ready : k = Head(d.queue[r])
        <5>1. job'[k] = job[k] /\ k # j
          BY <1>6, <2>1, <4>2
        <5>2. job[k].slave # s
          BY <2>2 DEF Connected, Listeners
        <5> QED BY <5>1, <5>2
      <4> QED BY <4>1, <4>2
    <3> QED BY <3>1 DEF Listeners
  <2>4. slave'[s] = [slave[s] EXCEPT !.todo = Append(@, j)]
    BY <1>1, <2>1, <2>2
  <2>5. /\ slave'[s].exists = slave[s].exists /\ slave'[s].alive = slave[s].alive
        /\ slave'[s].contacted = slave[s].contacted
        /\ slave'[s].connecting = slave[s].connecting
        /\ slave'[s].phase = slave[s].phase /\ slave'[s].out = slave[s].out
        /\ slave'[s].todo = Append(slave[s].todo, j)
    BY <2>2, <2>4 DEF SlaveStates
  <2>6. Starts(s, j)'
    <3>1. Append(<<>>, j) = <<j>>
      OBVIOUS
    <3> QED BY <2>2, <2>5, <3>1 DEF Starts, Connected, AtRest
  <2>7. Works(s, url[j])'
    BY <2>6 DEF Works
  <2>8. IsCo(s)' /\ Object(s, TRUE, FALSE)' /\ slave'[s].alive /\ s \notin d'.coIdleSlaves
    BY <1>3, <1>7, <2>2, <2>5 DEF Connected, IsCo, Object
  <2>9. CoBusy(s)'
    BY <2>3, <2>7, <2>8 DEF CoBusy
  <2> QED BY <2>9 DEF Role
<1>10. ASSUME NEW j \in Jobs PROVE Place(j)'
  <2>1. /\ InNew(j)' <=> InNew(j)
        /\ InList(j)' <=> InList(j)
        /\ \A r \in Slaves : Behind(j, r)' <=>
             /\ Behind(j, r)
             /\ r \in ready => j # Head(d.queue[r])
    BY <1>3, <1>4 DEF InNew, InList, Behind
  <2>2. CASE \E s \in ready : j = Head(d.queue[s])
    <3>1. PICK s \in ready : j = Head(d.queue[s])
      BY <2>2
    <3>2. /\ job'[j] = [job[j] EXCEPT !.slave = s] /\ Exists(j)
          /\ ~InNew(j)' /\ ~InList(j)' /\ \A r \in Slaves : ~Behind(j, r)'
      BY <1>5, <2>1, <3>1
    <3>3. Exists(j)' /\ job'[j].slave # NoSlave
      BY <1>2, <3>2 DEF Exists
    <3> QED BY <3>2, <3>3 DEF Place
  <2>3. CASE ~\E s \in ready : j = Head(d.queue[s])
    <3>1. JobKept(j)
      BY <1>6, <2>1, <2>3 DEF JobKept
    <3> QED BY <3>1, PlaceKept DEF IInv
  <2> QED BY <2>2, <2>3
<1>11. NoRepeats'
  BY <1>2, <1>3, <1>4 DEF IInv, NoRepeats
<1> QED BY <1>1, <1>8, <1>9, <1>10, <1>11 DEF IInv, Careful

\* A slave that no job is started on, while findIdleSlave leaves the slave on
\* hold alone or forgets it.
LEMMA SearchedKeeps ==
  ASSUME IInv, NEW S, Searched(S), NEW r \in Slaves, slave'[r] = S[r],
         UNCHANGED <<calls, d.queue, d.coSlaves, d.coIdleSlaves>>,
         d'.activeSlaves[r] = d.activeSlaves[r],
         InIdle(r)' <=> InIdle(r),
         Listeners(r)' = Listeners(r)
  PROVE  Role(r)'
<1>0. /\ slave \in [Slaves -> SlaveStates] /\ NoSlave \notin Slaves
      /\ slave[r] \in SlaveStates
  BY InvTypes
<1>1. CASE slave'[r] = slave[r] /\ (d.slaveOnHold = r => d'.slaveOnHold = r)
  <2>1. Alike(slave[r], slave'[r])
    BY <1>1 DEF Alike
  <2>2. SlaveKept(r)
    BY <1>0, <1>1, <2>1 DEF SlaveKept, Searched
  <2> QED BY <2>2, RoleKept DEF IInv
<1>2. CASE d.slaveOnHold = r /\ d'.slaveOnHold # r
  <2>1. OnHold(r)
    BY <1>2, RoleOnHold
  <2>2. slave'[r] = slave[r] \/ slave'[r] = [slave[r] EXCEPT !.alive = FALSE]
    BY <1>0, <1>2 DEF Searched, Killed
  <2>3. /\ slave'[r].exists = slave[r].exists
        /\ slave'[r].contacted = slave[r].contacted
        /\ slave'[r].connecting = slave[r].connecting
        /\ slave'[r].todo = slave[r].todo /\ slave'[r].out = slave[r].out
        /\ slave'[r].phase = slave[r].phase
    BY <1>0, <2>2 DEF SlaveStates
  <2>4. \A u \in Urls : Suspended(r, u) => Suspended(r, u)'
    BY <2>3 DEF Suspended
  <2>5. IsActive(r)' /\ Object(r, FALSE, FALSE)'
    BY <2>1, <2>3 DEF OnHold, IsActive, Object
  <2>6. Unused(r)'
    BY <1>2, <2>1, <2>4, <2>5 DEF OnHold, Unused
  <2> QED BY <2>6 DEF Role
<1>3. CASE d.slaveOnHold # r
  <2>1. slave'[r] = slave[r]
    BY <1>0, <1>3 DEF Searched, Killed
  <2> QED BY <1>1, <1>3, <2>1
<1>4. CASE d.slaveOnHold = r /\ d'.slaveOnHold = r
  <2>1. slave'[r] = slave[r]
    BY <1>0, <1>4 DEF Searched
  <2> QED BY <1>1, <1>4, <2>1
<1> QED BY <1>2, <1>3, <1>4

LEMMA StartedFacts ==
  ASSUME NEW S \in SlaveArrays, NEW s \in Slaves, NEW j \in Jobs
  PROVE  LET T == Started(S, s, j) IN
         /\ \A r \in Slaves \ {s} : T[r] = S[r]
         /\ T[s].exists = S[s].exists /\ T[s].alive = S[s].alive
         /\ T[s].contacted = S[s].contacted /\ T[s].connecting = S[s].connecting
         /\ T[s].phase = S[s].phase /\ T[s].out = S[s].out
         /\ T[s].todo = Append(S[s].todo, j)
BY DEF Started, SlaveArrays, SlaveStates

\* j waits no more in newJobs or joblist.
Leaves(j) ==
  /\ Exists(j) /\ job[j].slave = NoSlave /\ \A s \in Slaves : ~Behind(j, s)
  /\ \A k \in Jobs : InNew(k)' <=> InNew(k) /\ k # j
  /\ \A k \in Jobs : InList(k)' <=> InList(k) /\ k # j
  /\ IsInjective(d'.newJobs) /\ IsInjective(d'.joblist)

LEMMA OnSlaveFacts ==
  ASSUME IInv, NEW j \in Jobs, NEW s \in Slaves, OnSlave(s, j), Leaves(j),
         UNCHANGED d.queue
  PROVE  /\ d'.activeSlaves[s] = d.activeSlaves[s] + 1
         /\ \A r \in Slaves \ {s} : d'.activeSlaves[r] = d.activeSlaves[r]
         /\ \A r \in Slaves : InIdle(r)' <=> InIdle(r) /\ r # s
         /\ IsInjective(d'.idleSlaves)
         /\ \A r \in Slaves \ {s} : Listeners(r)' = Listeners(r)
         /\ Listeners(s)' = Listeners(s) \union {j}
         /\ \A k \in Jobs : Place(k)'
<1>1. /\ d.activeSlaves \in [Slaves -> Nat] /\ NoSlave \notin Slaves
      /\ job \in [Jobs -> [state : {"none", "created", "ended"},
                           slave : Slaves \union {NoSlave}]]
  BY InvTypes
<1>2. /\ d'.activeSlaves[s] = d.activeSlaves[s] + 1
      /\ \A r \in Slaves \ {s} : d'.activeSlaves[r] = d.activeSlaves[r]
  BY <1>1 DEF OnSlave
<1>3. /\ \A r \in Slaves : InIdle(r)' <=> InIdle(r) /\ r # s
      /\ IsInjective(d'.idleSlaves)
  BY IdleWithout DEF OnSlave
<1>4. /\ \A k \in Jobs \ {j} : job'[k] = job[k]
      /\ job'[j].state = job[j].state /\ job'[j].slave = s
  BY <1>1 DEF OnSlave
<1>5. /\ \A r \in Slaves \ {s} : Listeners(r)' = Listeners(r)
      /\ Listeners(s)' = Listeners(s) \union {j}
  BY <1>1, <1>4 DEF Leaves, Listeners
<1>6. ASSUME NEW k \in Jobs PROVE Place(k)'
  <2>1. \A r \in Slaves : Behind(k, r)' <=> Behind(k, r)
    BY DEF Behind
  <2>2. CASE k = j
    <3>1. Exists(j)' /\ job'[j].slave # NoSlave
      BY <1>1, <1>4 DEF Leaves, Exists
    <3>2. ~InNew(j)' /\ ~InList(j)' /\ \A r \in Slaves : ~Behind(j, r)'
      BY <2>1, <2>2 DEF Leaves
    <3> QED BY <2>2, <3>1, <3>2 DEF Place
  <2>3. CASE k # j
    <3>1. JobKept(k)
      BY <1>4, <2>1, <2>3 DEF JobKept, Leaves
    <3> QED BY <3>1, PlaceKept DEF IInv
  <2> QED BY <2>2, <2>3
<1> QED BY <1>2, <1>3, <1>5, <1>6

LEMMA TwoCommands ==
  ASSUME NEW b \in Jobs, NEW c \in Jobs
  PROVE  Append(<<c>>, b) = <<c, b>>
<1> DEFINE t == Append(<<c>>, b)
           u == <<c, b>>
<1>1. t \in Seq(Jobs) /\ Len(t) = 2 /\ t[1] = c /\ t[2] = b
  OBVIOUS
<1>2. u \in Seq(Jobs) /\ Len(u) = 2 /\ u[1] = c /\ u[2] = b
  OBVIOUS
<1> HIDE DEF t, u
<1>3. \A i \in 1 .. Len(t) : t[i] = u[i]
  BY <1>1, <1>2
<1>4. t = u
  BY <1>1, <1>2, <1>3, SeqEqual
<1> QED BY <1>4 DEF t, u

LEMMA OnSlaveOnHoldKeeps ==
  ASSUME IInv, TypeOK', NEW j \in Jobs, Leaves(j), NEW s \in Slaves,
         UNCHANGED <<d.queue, d.coSlaves, d.coIdleSlaves, calls>>,
         OnSlaveOnHold(s, j)
  PROVE  IInv'
<1>1. /\ s = d.slaveOnHold /\ url[j] = d.urlOnHold /\ d'.slaveOnHold = NoSlave
      /\ OnSlave(s, j) /\ slave' = Started(slave, s, j)
      /\ slave \in SlaveArrays /\ NoSlave \notin Slaves
  BY InvTypes DEF OnSlaveOnHold, SlaveArrays
<1>2. OnHold(s) /\ d.activeSlaves[s] \in Nat
  BY <1>1, RoleOnHold, InvTypes
<1>3. /\ d'.activeSlaves[s] = d.activeSlaves[s] + 1
      /\ \A r \in Slaves \ {s} : d'.activeSlaves[r] = d.activeSlaves[r]
      /\ \A r \in Slaves : InIdle(r)' <=> InIdle(r) /\ r # s
      /\ IsInjective(d'.idleSlaves)
      /\ \A r \in Slaves \ {s} : Listeners(r)' = Listeners(r)
      /\ Listeners(s)' = Listeners(s) \union {j}
      /\ \A k \in Jobs : Place(k)'
  BY <1>1, OnSlaveFacts
<1>4. /\ \A r \in Slaves \ {s} : slave'[r] = slave[r]
      /\ slave'[s].exists = slave[s].exists /\ slave'[s].alive = slave[s].alive
      /\ slave'[s].contacted = slave[s].contacted
      /\ slave'[s].connecting = slave[s].connecting
      /\ slave'[s].phase = slave[s].phase /\ slave'[s].out = slave[s].out
      /\ slave'[s].todo = Append(slave[s].todo, j)
  BY <1>1, StartedFacts
<1>5. ASSUME NEW r \in Slaves, r # s PROVE Role(r)'
  <2>1. Alike(slave[r], slave'[r])
    BY <1>4, <1>5 DEF Alike
  <2>2. SlaveKept(r)
    BY <1>1, <1>3, <1>5, <2>1 DEF SlaveKept
  <2> QED BY <2>2, RoleKept DEF IInv
<1>6. Busy(s)'
  <2>1. PICK c \in Jobs : url[c] = url[j] /\ slave[s].todo = <<c>>
                          /\ slave[s].out = <<>> /\ slave[s].phase = "mimeType"
    BY <1>1, <1>2 DEF OnHold, Suspended
  <2>2. Append(<<c>>, j) = <<c, j>>
    BY TwoCommands
  <2>3. IsReused(s, c, url[j])'
    BY <1>4, <2>1, <2>2 DEF IsReused
  <2>4. Works(s, url[j])'
    BY <2>1, <2>3 DEF Works
  <2>5. d'.activeSlaves[s] > 0
    BY <1>2, <1>3
  <2>6. IsActive(s)' /\ Object(s, FALSE, FALSE)' /\ slave'[s].alive
    BY <1>2, <1>3, <1>4, <2>5 DEF OnHold, IsActive, Object
  <2> QED BY <1>1, <1>2, <1>3, <2>4, <2>6 DEF OnHold, Busy
<1>7. NoRepeats'
  BY <1>3 DEF IInv, NoRepeats, Leaves
<1> QED BY <1>3, <1>5, <1>6, <1>7 DEF IInv, Careful, Role

\* The slave is not busy before, and has nothing to do.
LEMMA OnFreeSlaveKeeps ==
  ASSUME IInv, TypeOK', NEW j \in Jobs, Leaves(j), NEW s \in Slaves,
         UNCHANGED <<d.queue, d.coSlaves, d.coIdleSlaves, calls>>,
         OnSlave(s, j), NEW S, Searched(S),
         \/ Resting(s) /\ slave' = Started(S, s, j)
         \/ Gone(s) /\ slave' = Started(Created(S, s), s, j)
  PROVE  IInv'
<1>1. /\ slave \in SlaveArrays /\ S \in SlaveArrays /\ Created(S, s) \in SlaveArrays
      /\ NoSlave \notin Slaves /\ d.activeSlaves[s] \in Nat
  BY InvTypes, SearchedType, SlaveTypes DEF SlaveArrays
<1>2. /\ d'.activeSlaves[s] = d.activeSlaves[s] + 1
      /\ \A r \in Slaves \ {s} : d'.activeSlaves[r] = d.activeSlaves[r]
      /\ \A r \in Slaves : InIdle(r)' <=> InIdle(r) /\ r # s
      /\ IsInjective(d'.idleSlaves)
      /\ \A r \in Slaves \ {s} : Listeners(r)' = Listeners(r)
      /\ Listeners(s)' = Listeners(s) \union {j}
      /\ \A k \in Jobs : Place(k)'
  BY OnSlaveFacts
<1>3. PICK T \in SlaveArrays :
        /\ slave' = Started(T, s, j)
        /\ \A r \in Slaves \ {s} : T[r] = S[r]
        /\ \/ Resting(s) /\ T = S
           \/ Gone(s) /\ T[s] = [NoObject EXCEPT !.exists = TRUE]
  <2>1. CASE Resting(s) /\ slave' = Started(S, s, j)
    BY <1>1, <2>1
  <2>2. CASE Gone(s) /\ slave' = Started(Created(S, s), s, j)
    <3>1. /\ \A r \in Slaves \ {s} : Created(S, s)[r] = S[r]
          /\ Created(S, s)[s] = [NoObject EXCEPT !.exists = TRUE]
      BY <1>1 DEF Created, SlaveArrays
    <3> QED BY <1>1, <2>2, <3>1
  <2> QED BY <2>1, <2>2
<1>4. /\ \A r \in Slaves \ {s} : slave'[r] = S[r]
      /\ slave'[s].exists = T[s].exists /\ slave'[s].alive = T[s].alive
      /\ slave'[s].contacted = T[s].contacted
      /\ slave'[s].connecting = T[s].connecting
      /\ slave'[s].phase = T[s].phase /\ slave'[s].out = T[s].out
      /\ slave'[s].todo = Append(T[s].todo, j)
  BY <1>3, StartedFacts
<1>5. ASSUME NEW r \in Slaves, r # s PROVE Role(r)'
  BY <1>2, <1>4, <1>5, SearchedKeeps
<1>6. /\ s # d.slaveOnHold /\ d.activeSlaves[s] = 0 /\ Listeners(s) = {}
      /\ s \notin d.coSlaves /\ s \notin d.coIdleSlaves /\ d.queue[s] = <<>>
  BY <1>3 DEF Resting, IsIdle, Gone
<1>7. /\ T[s].exists /\ T[s].alive /\ T[s].contacted = FALSE /\ T[s].connecting = FALSE
      /\ T[s].phase = "ready" /\ T[s].out = <<>> /\ T[s].todo = <<>>
  <2>1. CASE Resting(s) /\ T = S
    <3>1. S[s] = slave[s]
      BY <1>1, <1>6 DEF Searched, Killed
    <3> QED BY <2>1, <3>1 DEF Resting, Object, AtRest
  <2>2. CASE T[s] = [NoObject EXCEPT !.exists = TRUE]
    BY <2>2 DEF NoObject
  <2> QED BY <1>3, <2>1, <2>2
<1>8. Busy(s)'
  <2>1. Append(<<>>, j) = <<j>>
    OBVIOUS
  <2>2. Starts(s, j)'
    BY <1>4, <1>7, <2>1 DEF Starts
  <2>3. Works(s, url[j])'
    BY <2>2 DEF Works
  <2>4. d'.activeSlaves[s] > 0 /\ d'.activeSlaves[s] = 1
    BY <1>2, <1>6
  <2>5. IsActive(s)' /\ Object(s, FALSE, FALSE)' /\ slave'[s].alive
    BY <1>2, <1>4, <1>6, <1>7, <2>4 DEF IsActive, Object
  <2>6. s # d'.slaveOnHold
    BY <1>1, <1>6 DEF Searched
  <2> QED BY <1>2, <1>6, <2>3, <2>4, <2>5, <2>6 DEF Busy
<1>9. NoRepeats'
  BY <1>2 DEF IInv, NoRepeats, Leaves
<1> QED BY <1>2, <1>5, <1>8, <1>9 DEF IInv, Careful, Role

LEMMA NotStartedKeeps ==
  ASSUME IInv, TypeOK', NotStarted,
         UNCHANGED <<d.queue, d.coSlaves, d.coIdleSlaves, calls>>,
         \/ UNCHANGED <<d.newJobs, d.joblist, job>>
         \/ \E j \in Jobs : Leaves(j) /\ job' = Ended({j})
  PROVE  IInv'
<1>1. \A s \in Slaves : Listeners(s)' = Listeners(s)
  <2>1. CASE UNCHANGED job
    BY <2>1 DEF Listeners
  <2>2. ASSUME NEW j \in Jobs, Leaves(j), job' = Ended({j})
        PROVE  \A s \in Slaves : Listeners(s)' = Listeners(s)
    <3>1. \A s \in Slaves : Listeners(s)' = Listeners(s) \ {j}
      BY <2>2, InvTypes, EndedFacts
    <3>2. \A s \in Slaves : j \notin Listeners(s)
      BY <2>2, InvTypes DEF Leaves, Listeners
    <3> QED BY <3>1, <3>2
  <2> QED BY <2>1, <2>2
<1>2. ASSUME NEW s \in Slaves PROVE Role(s)'
  <2>1. InIdle(s)' <=> InIdle(s)
    BY DEF InIdle, NotStarted
  <2> QED BY <1>1, <2>1, SearchedKeeps DEF NotStarted
<1>3. ASSUME NEW k \in Jobs PROVE Place(k)'
  <2>1. CASE UNCHANGED <<d.newJobs, d.joblist, job>>
    BY <2>1, NobodyEnds, PlacesAfter
  <2>2. ASSUME NEW j \in Jobs, Leaves(j), job' = Ended({j}) PROVE Place(k)'
    <3>1. /\ \A i \in Jobs \ {j} : job'[i] = job[i]
          /\ job'[j].state # "created" /\ job'[j].slave = NoSlave
      BY <2>2, InvTypes, EndedFacts
    <3>2. \A r \in Slaves : Behind(k, r)' <=> Behind(k, r)
      BY DEF Behind
    <3>3. CASE k = j
      BY <2>2, <3>1, <3>2, <3>3, PlaceOfEnded DEF Leaves
    <3>4. CASE k # j
      <4>1. JobKept(k)
        BY <2>2, <3>1, <3>2, <3>4 DEF JobKept, Leaves
      <4> QED BY <4>1, PlaceKept DEF IInv
    <3> QED BY <3>3, <3>4
  <2> QED BY <2>1, <2>2
<1>4. NoRepeats'
  BY DEF IInv, NoRepeats, NotStarted, Leaves
<1> QED BY <1>2, <1>3, <1>4 DEF IInv, Careful

LEMMA OutcomeKeeps ==
  ASSUME IInv, TypeOK', NEW j \in Jobs, Leaves(j), Outcome(j)
  PROVE  IInv'
<1>1. UNCHANGED <<d.queue, d.coSlaves, d.coIdleSlaves, calls>>
  BY DEF Outcome
<1>2. ASSUME NEW s \in Slaves, OnSlaveOnHold(s, j) PROVE IInv'
  BY <1>1, <1>2, OnSlaveOnHoldKeeps
<1>3. ASSUME NEW s \in Slaves, OnIdleSlave(s, j) PROVE IInv'
  <2>1. PICK S : Searched(S) /\ slave' = Started(S, s, j)
    BY <1>3 DEF OnIdleSlave
  <2>2. Resting(s) /\ OnSlave(s, j)
    BY <1>3, RoleIdle DEF OnIdleSlave, InIdle
  <2> QED BY <1>1, <2>1, <2>2, OnFreeSlaveKeeps
<1>4. ASSUME NEW s \in Slaves, OnNewSlave(s, j) PROVE IInv'
  <2>1. PICK S : Searched(S) /\ slave' = Started(Created(S, s), s, j)
    BY <1>4 DEF OnNewSlave
  <2>2. Gone(s) /\ OnSlave(s, j)
    BY <1>4, RoleGone DEF OnNewSlave
  <2> QED BY <1>1, <2>1, <2>2, OnFreeSlaveKeeps
<1>5. CASE NotStarted /\ job' = Ended({j})
  BY <1>1, <1>5, NotStartedKeeps
<1> QED BY <1>2, <1>3, <1>4, <1>5 DEF Outcome

LEMMA StartJobDirectKeeps ==
  ASSUME IInv, TypeOK', StartJobDirect
  PROVE  IInv'
<1>1. /\ d.newJobs \in Seq(Jobs) /\ IsInjective(d.newJobs)
      /\ d.joblist \in Seq(Jobs) /\ IsInjective(d.joblist) /\ TypeOK
  BY InvTypes DEF IInv, NoRepeats
<1>2. PICK j \in Jobs : /\ j = Head(d.newJobs) /\ d.newJobs # <<>> /\ Outcome(j)
                        /\ d'.newJobs = Tail(d.newJobs)
                        /\ \/ d'.joblist = d.joblist
                           \/ d'.joblist = removeAll(d.joblist, j)
  BY <1>1, DirectOutcome
<1>3. /\ InNew(j) /\ ToSet(d'.newJobs) = ToSet(d.newJobs) \ {j}
      /\ IsInjective(d'.newJobs)
  BY <1>1, <1>2, TailSet DEF InNew
<1>4. /\ ~InList(j) /\ Exists(j) /\ job[j].slave = NoSlave
      /\ \A s \in Slaves : ~Behind(j, s)
  BY <1>3 DEF IInv, Place
<1>5. ToSet(d'.joblist) = ToSet(d.joblist) \ {j} /\ IsInjective(d'.joblist)
  <2>1. CASE d'.joblist = d.joblist
    BY <1>1, <1>4, <2>1 DEF InList
  <2>2. CASE d'.joblist = removeAll(d.joblist, j)
    BY <1>1, <2>2, WithoutSet DEF removeAll
  <2> QED BY <1>2, <2>1, <2>2
<1>6. Leaves(j)
  BY <1>3, <1>4, <1>5 DEF Leaves, InNew, InList
<1> QED BY <1>2, <1>6, OutcomeKeeps

LEMMA StartJobScheduledKeeps ==
  ASSUME IInv, TypeOK', StartJobScheduled
  PROVE  IInv'
<1>1. /\ d.newJobs \in Seq(Jobs) /\ IsInjective(d.newJobs)
      /\ d.joblist \in Seq(Jobs) /\ IsInjective(d.joblist) /\ TypeOK
  BY InvTypes DEF IInv, NoRepeats
<1>2. CASE Nothing
  BY <1>2, NotStartedKeeps DEF Nothing
<1>3. ASSUME NEW j \in Jobs \intersect ToSet(d.joblist),
             Outcome(j), d'.newJobs = d.newJobs,
             \/ d'.joblist = RemoveFirst(d.joblist, j)
             \/ d'.joblist = removeAll(RemoveFirst(d.joblist, j), j)
      PROVE  IInv'
  <2>1. /\ InList(j) /\ ~InNew(j) /\ Exists(j) /\ job[j].slave = NoSlave
        /\ \A s \in Slaves : ~Behind(j, s)
    BY <1>3 DEF IInv, Place, InList
  <2>2. /\ RemoveFirst(d.joblist, j) \in Seq(Jobs)
        /\ IsInjective(RemoveFirst(d.joblist, j))
        /\ ToSet(RemoveFirst(d.joblist, j)) = ToSet(d.joblist) \ {j}
    BY <1>1, RemoveFirstSet
  <2>3. ToSet(d'.joblist) = ToSet(d.joblist) \ {j} /\ IsInjective(d'.joblist)
    <3>1. CASE d'.joblist = RemoveFirst(d.joblist, j)
      BY <2>2, <3>1
    <3>2. CASE d'.joblist = removeAll(RemoveFirst(d.joblist, j), j)
      <4>1. PICK R \in Seq(Jobs) : R = RemoveFirst(d.joblist, j)
        BY <2>2
      <4>2. /\ ToSet(Without(R, {j})) = ToSet(R) \ {j}
            /\ IsInjective(Without(R, {j}))
        BY <2>2, <4>1, WithoutSet
      <4> QED BY <2>2, <3>2, <4>1, <4>2 DEF removeAll
    <3> QED BY <1>3, <3>1, <3>2
  <2>4. Leaves(j)
    BY <1>1, <1>3, <2>1, <2>3 DEF Leaves, InNew, InList
  <2> QED BY <1>3, <2>4, OutcomeKeeps
<1> QED BY <1>1, <1>2, <1>3, ScheduledOutcome

-----------------------------------------------------------------------------
(* The theorem                                                              *)

LEMMA InitHolds ==
  ASSUME Init, Careful
  PROVE  IInv
<1>1. TypeOK
  <2>1. d \in Schedulers
    BY DEF Init, Schedulers
  <2>2. slave \in SlaveArrays
    BY DEF Init, NoObject, SlaveArrays, SlaveStates
  <2>3. calls \in SUBSET Calls
    BY CallsAssumption DEF Init
  <2> QED BY <2>1, <2>2, <2>3 DEF Init, TypeOK, SlaveArrays
<1>2. /\ d.newJobs = <<>> /\ d.joblist = <<>> /\ d.idleSlaves = <<>>
      /\ d.coSlaves = {} /\ d.coIdleSlaves = {} /\ d.slaveOnHold = NoSlave
      /\ \A s \in Slaves : d.queue[s] = <<>> /\ d.activeSlaves[s] = 0
      /\ \A s \in Slaves : ~slave[s].exists
      /\ \A j \in Jobs : job[j].state = "none" /\ job[j].slave = NoSlave
  BY DEF Init, NoObject
<1>3. ToSet(<<>>) = {} /\ IsInjective(<<>>)
  BY DEF ToSet, IsInjective
<1>4. ASSUME NEW s \in Slaves PROVE Gone(s)
  BY <1>2, <1>3, PoolAssumption DEF Gone, Listeners, InIdle
<1>5. ASSUME NEW j \in Jobs PROVE Place(j)
  BY <1>2, <1>3 DEF Place, Exists, InNew, InList, Behind
<1>6. NoRepeats
  BY <1>2, <1>3 DEF NoRepeats
<1> QED BY <1>1, <1>4, <1>5, <1>6 DEF IInv, Role

LEMMA StutterKeeps ==
  ASSUME IInv, UNCHANGED vars
  PROVE  IInv'
<1>1. TypeOK'
  BY DEF vars, IInv, TypeOK
<1>2. ASSUME NEW s \in Slaves PROVE Role(s)'
  <2>1. Alike(slave[s], slave'[s])
    BY DEF vars, Alike
  <2>2. SlaveKept(s)
    BY <2>1 DEF vars, SlaveKept, InIdle, Listeners
  <2> QED BY <2>2, RoleKept DEF IInv
<1>3. ASSUME NEW j \in Jobs PROVE Place(j)'
  <2>1. JobKept(j)
    BY DEF vars, JobKept, InNew, InList, Behind
  <2> QED BY <2>1, PlaceKept DEF IInv
<1>4. NoRepeats'
  BY DEF vars, IInv, NoRepeats
<1> QED BY <1>1, <1>2, <1>3, <1>4 DEF vars, IInv, Careful

LEMMA ApplicationKeeps ==
  ASSUME IInv, Application
  PROVE  IInv'
<1>1. TypeOK'
  BY ApplicationType DEF IInv
<1>2. ASSUME NEW j \in Jobs, DoJob(j) \/ ScheduleJob(j) \/ KillWaiting(j) PROVE IInv'
  BY <1>1, <1>2, DoJobKeeps, ScheduleJobKeeps, KillWaitingKeeps
<1>3. ASSUME NEW j \in Jobs, NEW s \in Slaves,
             AssignJobToSlave(j, s) \/ KillWithSlave(j, s)
      PROVE  IInv'
  BY <1>1, <1>3, AssignJobKeeps, KillWithSlaveKeeps
<1>4. ASSUME RemoveSlaveOnHold \/ PublishSlaveOnHold PROVE IInv'
  BY <1>1, <1>4, RemoveSlaveOnHoldKeeps, PublishKeeps
<1>5. ASSUME NEW u \in ConnectUrls, GetConnectedSlave(u) PROVE IInv'
  BY <1>1, <1>5, GetConnectedSlaveKeeps
<1>6. ASSUME NEW s \in Slaves, DisconnectSlave(s) PROVE IInv'
  BY <1>1, <1>6, DisconnectKeeps
<1> QED BY <1>2, <1>3, <1>4, <1>5, <1>6 DEF Application

LEMMA TimerKeeps ==
  ASSUME IInv, Timer \/ ScheduleCoSlave
  PROVE  IInv'
<1>1. TypeOK'
  BY TimerType DEF IInv
<1> QED BY <1>1, NothingKeeps, StartJobDirectKeeps, StartJobScheduledKeeps,
           ScheduleCoSlaveKeeps DEF Timer

LEMMA InputKeeps ==
  ASSUME IInv, NEW s \in Slaves,
         \/ Input(s) \/ (\E j \in Jobs : PutSlaveOnHold(j, s))
         \/ CleanIdleSlave(s) \/ Process(s) \/ Crash(s)
  PROVE  IInv'
<1>1. TypeOK'
  BY InputType DEF IInv
<1>2. CASE Input(s)
  BY <1>1, <1>2, SlaveConnectedKeeps, MimeTypeKeeps, JobAnsweredKeeps, SlaveDiedKeeps
     DEF Input
<1>3. ASSUME NEW j \in Jobs, PutSlaveOnHold(j, s) PROVE IInv'
  BY <1>1, <1>3, PutSlaveOnHoldKeeps
<1>4. CASE CleanIdleSlave(s) \/ Process(s) \/ Crash(s)
  BY <1>1, <1>4, CleanIdleKeeps, ProcessKeeps, CrashKeeps
<1> QED BY <1>2, <1>3, <1>4

\* Whatever dies, is killed or is put on hold at whatever moment, every slave
\* is used for exactly one thing and has exactly the traffic of it, and every
\* job is in exactly one place.
THEOREM SchedulerInvariant == Spec /\ Careful => []IInv
<1>1. Init /\ Careful => IInv
  BY InitHolds
<1>2. IInv /\ [Next]_vars => IInv'
  <2>1. SUFFICES ASSUME IInv, [Next]_vars PROVE IInv'
    OBVIOUS
  <2>2. CASE UNCHANGED vars
    BY <2>1, <2>2, StutterKeeps
  <2>3. CASE Next
    BY <2>1, <2>3, ApplicationKeeps, TimerKeeps, InputKeeps DEF Next
  <2> QED BY <2>1, <2>2, <2>3
<1> QED BY <1>1, <1>2, PTL DEF Spec

-----------------------------------------------------------------------------
(* What it implies                                                          *)

LEMMA NoneHolds ==
  ASSUME NEW t, \A i \in DOMAIN t : ~t[i]
  PROVE  HowMany(t) = 0
<1>1. {i \in DOMAIN t : t[i]} = {}
  OBVIOUS
<1> QED BY <1>1, FS_EmptySet DEF HowMany

LEMMA OneHolds ==
  ASSUME NEW t, NEW k \in DOMAIN t, t[k], \A i \in DOMAIN t : t[i] => i = k
  PROVE  HowMany(t) = 1
<1>1. {i \in DOMAIN t : t[i]} = {k}
  OBVIOUS
<1> QED BY <1>1, FS_Singleton DEF HowMany

\* Every role has its list.
LEMMA ListsOfSlave ==
  ASSUME IInv, NEW s \in Slaves
  PROVE  /\ \/ /\ ~slave[s].exists /\ d.activeSlaves[s] = 0
               /\ ~InIdle(s) /\ s \notin d.coSlaves
            \/ /\ slave[s].exists /\ d.activeSlaves[s] > 0
               /\ ~InIdle(s) /\ s \notin d.coSlaves
            \/ /\ slave[s].exists /\ d.activeSlaves[s] = 0
               /\ InIdle(s) /\ s \notin d.coSlaves
            \/ /\ slave[s].exists /\ d.activeSlaves[s] = 0
               /\ ~InIdle(s) /\ s \in d.coSlaves
         /\ s = d.slaveOnHold => d.activeSlaves[s] > 0
         /\ d.queue[s] # <<>> => s \in d.coSlaves
         /\ s \in d.coIdleSlaves => s \in d.coSlaves /\ slave[s].contacted
<1>1. Role(s)
  BY DEF IInv
<1> QED BY <1>1 DEF Role, Gone, Resting, Busy, OnHold, Unused, Connecting, Connected,
                    CoBusy, IsActive, IsIdle, IsCo, Object

\* Every slave object is in exactly one of the lists of the scheduler.
THEOREM OneListForSlaves == Spec /\ Careful => []SlavesInOneList
<1>1. IInv => SlavesInOneList
  <2>1. SUFFICES ASSUME IInv PROVE SlavesInOneList
    OBVIOUS
  <2>2. ASSUME NEW s \in Slaves
        PROVE  HowMany(<<d.activeSlaves[s] > 0, Contains(d.idleSlaves, s),
                         s \in d.coSlaves>>)
                 = IF slave[s].exists THEN 1 ELSE 0
    <3> DEFINE a == d.activeSlaves[s] > 0
               b == Contains(d.idleSlaves, s)
               c == s \in d.coSlaves
               t == <<a, b, c>>
    <3>1. b <=> InIdle(s)
      BY <2>1, InvTypes, ContainsIsIn DEF InIdle
    <3>2. \/ ~slave[s].exists /\ ~a /\ ~b /\ ~c
          \/ slave[s].exists /\ a /\ ~b /\ ~c
          \/ slave[s].exists /\ ~a /\ b /\ ~c
          \/ slave[s].exists /\ ~a /\ ~b /\ c
      BY <2>1, <3>1, ListsOfSlave
    <3> HIDE DEF a, b, c
    <3>3. DOMAIN t = {1, 2, 3} /\ (t[1] <=> a) /\ (t[2] <=> b) /\ (t[3] <=> c)
      OBVIOUS
    <3> HIDE DEF t
    <3>4. HowMany(t) = IF slave[s].exists THEN 1 ELSE 0
      BY <3>2, <3>3, OneHolds, NoneHolds
    <3> QED BY <3>4 DEF t, a, b, c
  <2>3. d.slaveOnHold # NoSlave => d.activeSlaves[d.slaveOnHold] > 0
    BY <2>1, InvTypes, ListsOfSlave
  <2>4. /\ \A s \in Slaves : d.queue[s] # <<>> => s \in d.coSlaves
        /\ \A s \in d.coIdleSlaves : s \in d.coSlaves /\ slave[s].contacted
    BY <2>1, InvTypes, ListsOfSlave
  <2>5. IsInjective(d.idleSlaves)
    BY <2>1 DEF IInv, NoRepeats
  <2> QED BY <2>2, <2>3, <2>4, <2>5 DEF SlavesInOneList
<1> QED BY <1>1, SchedulerInvariant, PTL

\* No job is forgotten by the scheduler, or is in two of its lists.
THEOREM OnePlaceForJobs == Spec /\ Careful => []JobsInOnePlace
<1>1. IInv => JobsInOnePlace
  <2>1. SUFFICES ASSUME IInv, NEW j \in Jobs
                 PROVE  HowMany(<<Contains(d.newJobs, j), Contains(d.joblist, j),
                                  \E s \in Slaves : InQueueOf(j, s),
                                  \E s \in Slaves : job[j].slave = s /\ slave[s].exists>>)
                          = IF Exists(j) THEN 1 ELSE 0
    BY DEF JobsInOnePlace
  <2> DEFINE a == Contains(d.newJobs, j)
             b == Contains(d.joblist, j)
             c == \E s \in Slaves : InQueueOf(j, s)
             e == \E s \in Slaves : job[j].slave = s /\ slave[s].exists
             t == <<a, b, c, e>>
  <2>2. (a <=> InNew(j)) /\ (b <=> InList(j))
    BY <2>1, InvTypes, ContainsIsIn DEF InNew, InList
  <2>3. c <=> \E s \in Slaves : Behind(j, s)
    <3>1. ASSUME NEW s \in Slaves PROVE InQueueOf(j, s) <=> Behind(j, s)
      <4>1. d.queue[s] \in Seq(Jobs)
        BY <2>1, InvTypes
      <4> QED BY <4>1, ContainsIsIn DEF InQueueOf, Behind
    <3> QED BY <3>1
  <2>4. e <=> job[j].slave # NoSlave
    <3>1. /\ job[j].slave \in Slaves \union {NoSlave} /\ NoSlave \notin Slaves
      BY <2>1, InvTypes
    <3>2. ASSUME NEW s \in Slaves, s = job[j].slave PROVE slave[s].exists
      <4>1. j \in Listeners(s)
        BY <3>2 DEF Listeners
      <4> QED BY <2>1, <4>1, OneListener DEF Busy, CoBusy, Object
    <3> QED BY <3>1, <3>2
  <2>5. \/ ~Exists(j) /\ ~a /\ ~b /\ ~c /\ ~e
        \/ Exists(j) /\ a /\ ~b /\ ~c /\ ~e
        \/ Exists(j) /\ ~a /\ b /\ ~c /\ ~e
        \/ Exists(j) /\ ~a /\ ~b /\ c /\ ~e
        \/ Exists(j) /\ ~a /\ ~b /\ ~c /\ e
    <3> HIDE DEF a, b, c, e
    <3> QED BY <2>1, <2>2, <2>3, <2>4 DEF IInv, Place
  <2> HIDE DEF a, b, c, e
  <2>6. /\ DOMAIN t = {1, 2, 3, 4}
        /\ t[1] <=> a
        /\ t[2] <=> b
        /\ t[3] <=> c
        /\ t[4] <=> e
    OBVIOUS
  <2> HIDE DEF t
  <2>7. HowMany(t) = IF Exists(j) THEN 1 ELSE 0
    BY <2>5, <2>6, OneHolds, NoneHolds
  <2> QED BY <2>7 DEF t, a, b, c, e
<1> QED BY <1>1, SchedulerInvariant, PTL

\* A slave has at most one job, and nobody else may be given that slave.
THEOREM OneJobForSlaves == Spec /\ Careful => []OneJobPerSlave
<1>1. IInv => OneJobPerSlave
  <2>1. SUFFICES ASSUME IInv, NEW s \in Slaves
                 PROVE  /\ Cardinality(Listeners(s)) <= 1
                        /\ Listeners(s) # {} =>
                             /\ ~Contains(d.idleSlaves, s) /\ s \notin d.coIdleSlaves
                             /\ s # d.slaveOnHold
    BY DEF OneJobPerSlave
  <2>2. CASE Listeners(s) = {}
    BY <2>2, FS_EmptySet
  <2>3. CASE Listeners(s) # {}
    <3>1. PICK j \in Jobs : Listeners(s) = {j} /\ (Busy(s) \/ CoBusy(s))
      BY <2>1, <2>3, OneListener DEF Listeners
    <3>2. Cardinality(Listeners(s)) = 1
      BY <3>1, FS_Singleton
    <3>3. ~InIdle(s) /\ s \notin d.coIdleSlaves /\ s # d.slaveOnHold
      BY <3>1 DEF Busy, CoBusy, IsActive, IsCo
    <3>4. Contains(d.idleSlaves, s) <=> InIdle(s)
      BY <2>1, InvTypes, ContainsIsIn DEF InIdle
    <3> QED BY <3>2, <3>3, <3>4
  <2> QED BY <2>2, <2>3
<1> QED BY <1>1, SchedulerInvariant, PTL

\* Whatever a slave with a job has sent or is sent is for that job, or for one
\* with the same url that was put on hold.
THEOREM OwnAnswers == Spec /\ Careful => []AnswersAreOwn
<1>1. IInv => AnswersAreOwn
  <2>1. SUFFICES ASSUME IInv, NEW s \in Slaves, NEW j \in Listeners(s),
                        NEW c \in ToSet(slave[s].todo)
                                    \union {m.of : m \in ToSet(slave[s].out)},
                        c \in Jobs
                 PROVE  url[c] = url[j]
    BY DEF AnswersAreOwn
  <2>2. Works(s, url[j])
    BY <2>1, OneListener DEF Busy, CoBusy
  <2>3. PICK b \in Jobs : /\ url[b] = url[j]
                          /\ \/ Starts(s, b) \/ TellsMimeType(s, b)
                             \/ IsReused(s, b, url[j]) \/ Answers(s, b)
    BY <2>2 DEF Works
  <2>4. ToSet(<<>>) = {} /\ ToSet(<<b>>) = {b}
    BY DEF ToSet
  <2>5. CASE Starts(s, b)
    BY <2>3, <2>4, <2>5 DEF Starts
  <2>6. ASSUME NEW type, slave[s].out = <<[type |-> type, of |-> b]>>,
               slave[s].todo = <<>> \/ slave[s].todo = <<b>>
        PROVE  c = b
    <3>1. ToSet(slave[s].out) = {[type |-> type, of |-> b]}
      BY <2>6 DEF ToSet
    <3> QED BY <2>4, <2>6, <3>1
  <2>7. CASE TellsMimeType(s, b)
    BY <2>3, <2>6, <2>7 DEF TellsMimeType
  <2>8. CASE IsReused(s, b, url[j])
    <3>1. PICK a \in Jobs : url[a] = url[j] /\ slave[s].todo = <<b, a>>
      BY <2>8 DEF IsReused
    <3>2. ToSet(<<b, a>>) = {b, a}
      BY DEF ToSet
    <3> QED BY <2>3, <2>4, <2>8, <3>1, <3>2 DEF IsReused
  <2>9. CASE Answers(s, b)
    BY <2>3, <2>6, <2>9 DEF Answers
  <2> QED BY <2>3, <2>5, <2>7, <2>8, <2>9
<1> QED BY <1>1, SchedulerInvariant, PTL

\* Without slaves on hold a place among the active slaves is taken by a job.
THEOREM ActiveSlavesHaveJobs == Spec /\ Careful => []ActiveSlavesWork
<1>1. IInv => ActiveSlavesWork
  <2>1. SUFFICES ASSUME IInv, "putOnHold" \notin calls, NEW s \in Slaves
                 PROVE  d.activeSlaves[s] =
                          Cardinality(Listeners(s) \ {j \in Jobs : s \in d.coSlaves})
    BY DEF ActiveSlavesWork
  <2> DEFINE W == Listeners(s) \ {j \in Jobs : s \in d.coSlaves}
  <2>2. \/ W = {} /\ d.activeSlaves[s] = 0
        \/ \E j : W = {j} /\ d.activeSlaves[s] = 1
    <3>1. Role(s) /\ Listeners(s) \subseteq Jobs
      BY <2>1 DEF IInv, Listeners
    <3>2. CASE Busy(s)
      BY <2>1, <3>2 DEF Busy, IsActive
    <3>3. CASE ~Busy(s)
      BY <2>1, <3>1, <3>3 DEF Role, Gone, Resting, OnHold, Unused, Connecting,
                              Connected, CoBusy, IsIdle, IsCo
    <3> QED BY <3>2, <3>3
  <2> HIDE DEF W
  <2>3. d.activeSlaves[s] = Cardinality(W)
    BY <2>2, FS_EmptySet, FS_Singleton
  <2> QED BY <2>3 DEF W
<1> QED BY <1>1, SchedulerInvariant, PTL

-----------------------------------------------------------------------------
(* How many slaves there are                                                *)

LEMMA CountOfPositives ==
  ASSUME NEW f \in [Slaves -> Nat]
  PROVE  /\ CountOf(f) \in Nat
         /\ Cardinality({s \in Slaves : f[s] > 0}) <= CountOf(f)
<1>1. CountOf(f) = Sum(f, DOMAIN f)
  BY DEF CountOf, FoldFunction, FoldFunctionOnSet, MapThenFoldSet, Sum, Sums, AnyOf
<1>2. DOMAIN f = Slaves /\ IsFiniteSet(Slaves)
  BY PoolAssumption
<1> QED BY <1>1, <1>2, SumOfPositives
\* All jobs are scheduled.
AllScheduled == calls \intersect {"direct", "connect"} = {}

Limited ==
  AllScheduled =>
    /\ ToSet(d.newJobs) = {} /\ d.coSlaves = {}
    /\ Cardinality(Objects) <= MaxSlaves

\* A step that neither starts nor adds anything.
LEMMA LimitedKept ==
  ASSUME IInv, Limited, UNCHANGED calls,
         AllScheduled => /\ ToSet(d'.newJobs) \subseteq ToSet(d.newJobs)
                         /\ d'.coSlaves \subseteq d.coSlaves
                         /\ \A s \in Slaves : slave'[s].exists => slave[s].exists
  PROVE  Limited'
<1>1. ASSUME AllScheduled PROVE Cardinality(Objects') <= MaxSlaves
  <2>1. Objects' \subseteq Objects
    BY <1>1 DEF Objects
  <2>2. IsFiniteSet(Objects)
    BY PoolAssumption, FS_Subset DEF Objects
  <2>3. /\ Cardinality(Objects') \in Nat /\ Cardinality(Objects) \in Nat
        /\ Cardinality(Objects') <= Cardinality(Objects)
    BY <2>1, <2>2, FS_Subset, FS_CardinalityType
  <2> QED BY <1>1, <2>3, LimitsAssumption DEF Limited
<1>2. AllScheduled' <=> AllScheduled
  BY DEF AllScheduled
<1> QED BY <1>1, <1>2 DEF Limited

LEMMA ExistsKept ==
  ASSUME NEW S \in SlaveArrays
  PROVE  /\ \A K : \A r \in Slaves : Killed(S, K)[r].exists = S[r].exists
         /\ \A s, j : \A r \in Slaves : Started(S, s, j)[r].exists = S[r].exists
         /\ \A s, r \in Slaves : Created(S, s)[r].exists => r = s \/ S[r].exists
<1>1. ASSUME NEW K, NEW r \in Slaves PROVE Killed(S, K)[r].exists = S[r].exists
  BY DEF Killed, SlaveArrays, SlaveStates
<1>2. ASSUME NEW s, NEW j, NEW r \in Slaves
      PROVE  Started(S, s, j)[r].exists = S[r].exists
  BY DEF Started, SlaveArrays, SlaveStates
<1>3. ASSUME NEW s \in Slaves, NEW r \in Slaves, r # s
      PROVE  Created(S, s)[r].exists = S[r].exists
  BY <1>3 DEF Created, SlaveArrays
<1> QED BY <1>1, <1>2, <1>3

\* Without room no object appears.
LEMMA NoRoomNoSlave ==
  ASSUME IInv, StartJobScheduled, ~MayStartSlave, NEW r \in Slaves
  PROVE  slave'[r].exists = slave[r].exists
<1> DEFINE S == Killed(slave, Discarded(FirstGetOf({d.joblist[i] : i \in 1..Looked})))
<1>1. slave' = S \/ \E s, j : slave' = Started(S, s, j)
  BY DEF StartJobScheduled, Start
<1>2. slave \in SlaveArrays
  BY InvTypes DEF SlaveArrays
<1>3. S \in SlaveArrays /\ S[r].exists = slave[r].exists
  BY <1>2, SlaveTypes, ExistsKept
<1> HIDE DEF S
<1> QED BY <1>1, <1>3, ExistsKept

LEMMA SearchedExists ==
  ASSUME IInv, NEW S, Searched(S)
  PROVE  /\ S \in SlaveArrays
         /\ \A r \in Slaves : S[r].exists = slave[r].exists
<1>1. slave \in SlaveArrays
  BY InvTypes DEF SlaveArrays
<1>2. S = slave \/ S = Killed(slave, {d.slaveOnHold})
  BY DEF Searched
<1> QED BY <1>1, <1>2, SlaveTypes, ExistsKept

\* Otherwise only a new object makes them more.
LEMMA OutcomeExists ==
  ASSUME IInv, NEW j \in Jobs, Outcome(j), \A n \in Slaves : ~OnNewSlave(n, j)
  PROVE  \A r \in Slaves : slave'[r].exists = slave[r].exists
<1>1. slave \in SlaveArrays
  BY InvTypes DEF SlaveArrays
<1>2. ASSUME NEW s \in Slaves, OnSlaveOnHold(s, j), NEW r \in Slaves
      PROVE  slave'[r].exists = slave[r].exists
  BY <1>1, <1>2, ExistsKept DEF OnSlaveOnHold
<1>3. ASSUME NEW s \in Slaves, OnIdleSlave(s, j), NEW r \in Slaves
      PROVE  slave'[r].exists = slave[r].exists
  <2>1. PICK S : Searched(S) /\ slave' = Started(S, s, j)
    BY <1>3 DEF OnIdleSlave
  <2>2. S \in SlaveArrays /\ S[r].exists = slave[r].exists
    BY <2>1, SearchedExists
  <2> QED BY <2>1, <2>2, ExistsKept
<1>4. ASSUME NotStarted, NEW r \in Slaves
      PROVE  slave'[r].exists = slave[r].exists
  BY <1>4, SearchedExists DEF NotStarted
<1> QED BY <1>2, <1>3, <1>4 DEF Outcome

\* Without direct and connected jobs a slave that exists is active or idle.
LEMMA ObjectsAreActive ==
  ASSUME IInv, Limited, AllScheduled, d.idleSlaves = <<>>
  PROVE  Objects = {s \in Slaves : d.activeSlaves[s] > 0}
<1>1. ASSUME NEW s \in Slaves PROVE slave[s].exists <=> d.activeSlaves[s] > 0
  <2>1. ~InIdle(s) /\ s \notin d.coSlaves
    BY DEF InIdle, ToSet, Limited
  <2>2. d.activeSlaves[s] = 0 => ~(d.activeSlaves[s] > 0)
    OBVIOUS
  <2> QED BY <2>1, <2>2, ListsOfSlave
<1> QED BY <1>1 DEF Objects

LEMMA ScheduledLimit ==
  ASSUME IInv, Limited, StartJobScheduled
  PROVE  Limited'
<1>1. /\ slave \in SlaveArrays /\ TypeOK /\ UNCHANGED calls
  BY InvTypes DEF SlaveArrays, StartJobScheduled
<1>2. UNCHANGED <<d.newJobs, d.coSlaves>>
  BY <1>1, ScheduledOutcome DEF Nothing, Outcome
<1>3. CASE \A r \in Slaves : slave'[r].exists = slave[r].exists
  BY <1>1, <1>2, <1>3, LimitedKept
<1>4. CASE ~ \A r \in Slaves : slave'[r].exists = slave[r].exists
  <2>1. ~Nothing
    BY <1>4, SearchedExists DEF Nothing, NotStarted
  <2>2. PICK j \in Jobs : Outcome(j)
    BY <1>1, <2>1, ScheduledOutcome
  <2>3. PICK n \in Slaves : OnNewSlave(n, j)
    BY <1>4, <2>2, OutcomeExists
  <2>4. MayStartSlave /\ d.idleSlaves = <<>>
    BY <1>4, <2>3, NoRoomNoSlave DEF OnNewSlave
  <2>5. Objects' \subseteq Objects \union {n}
    <3>1. PICK S : Searched(S) /\ slave' = Started(Created(S, n), n, j)
      BY <2>3 DEF OnNewSlave
    <3>2. S \in SlaveArrays /\ \A r \in Slaves : S[r].exists = slave[r].exists
      BY <3>1, SearchedExists
    <3>3. PICK T \in SlaveArrays :
            /\ slave' = Started(T, n, j)
            /\ \A r \in Slaves : T[r].exists => r = n \/ S[r].exists
      BY <3>1, <3>2, SlaveTypes, ExistsKept
    <3>4. ASSUME NEW r \in Slaves, slave'[r].exists PROVE r = n \/ slave[r].exists
      BY <3>2, <3>3, <3>4, ExistsKept
    <3> QED BY <3>4 DEF Objects
  <2>6. ASSUME AllScheduled PROVE Cardinality(Objects') <= MaxSlaves
    <3>0. PICK f \in [Slaves -> Nat] : f = d.activeSlaves
      BY InvTypes
    <3>1. Cardinality(Objects) <= CountOf(f)
      BY <2>4, <2>6, <3>0, ObjectsAreActive, CountOfPositives
    <3>2. CountOf(f) < MaxSlaves /\ MaxSlaves \in Nat
      BY <2>4, <3>0, LimitsAssumption DEF MayStartSlave
    <3>3. IsFiniteSet(Objects) /\ Cardinality(Objects) \in Nat
      BY PoolAssumption, FS_Subset, FS_CardinalityType DEF Objects
    <3>4. Cardinality(Objects \union {n}) <= Cardinality(Objects) + 1
      BY <3>3, FS_AddElement
    <3>5. IsFiniteSet(Objects \union {n})
      BY <3>3, FS_AddElement
    <3>6. Cardinality(Objects') <= Cardinality(Objects \union {n})
      BY <2>5, <3>5, FS_Subset
    <3>7. Cardinality(Objects') \in Nat /\ Cardinality(Objects \union {n}) \in Nat
      BY <2>5, <3>5, FS_Subset, FS_CardinalityType
    <3>8. CountOf(f) \in Nat
      BY CountOfPositives
    <3> QED BY <3>1, <3>2, <3>3, <3>4, <3>6, <3>7, <3>8
  <2> QED BY <1>1, <1>2, <2>6 DEF Limited, AllScheduled
<1> QED BY <1>3, <1>4

LEMMA ReadExists ==
  ASSUME IInv, NEW s \in Slaves, slave[s].out # <<>>
  PROVE  Read(s) \in SlaveArrays /\ \A r \in Slaves : Read(s)[r].exists = slave[r].exists
<1>1. slave \in SlaveArrays
  BY InvTypes DEF SlaveArrays
<1>2. Tail(slave[s].out) \in Seq(Messages)
  BY <1>1 DEF SlaveArrays, SlaveStates
<1> DEFINE o == [slave[s] EXCEPT !.out = Tail(@)]
<1>3. o \in SlaveStates /\ o.exists = slave[s].exists
  BY <1>1, <1>2 DEF SlaveArrays, SlaveStates
<1>4. Read(s) = [slave EXCEPT ![s] = o]
  BY <1>1 DEF Read, SlaveArrays
<1> HIDE DEF o
<1> QED BY <1>1, <1>3, <1>4 DEF SlaveArrays

LEMMA LimitedStep ==
  ASSUME IInv, Limited, [Next]_vars
  PROVE  Limited'
<1>1. /\ d \in Schedulers /\ slave \in SlaveArrays /\ TypeOK
      /\ d.newJobs \in Seq(Jobs)
  BY InvTypes DEF SlaveArrays
<1> DEFINE Less == /\ UNCHANGED calls
                   /\ ToSet(d'.newJobs) \subseteq ToSet(d.newJobs)
                   /\ d'.coSlaves \subseteq d.coSlaves
                   /\ \A s \in Slaves : slave'[s].exists => slave[s].exists
<1>2. ASSUME Less PROVE Limited'
  BY <1>2, LimitedKept
<1> HIDE DEF Less
<1>3. ASSUME AllScheduled PROVE "direct" \notin calls /\ "connect" \notin calls
  BY <1>3 DEF AllScheduled
<1>4. \A s, r \in Slaves : Deleted(s)[r].exists => slave[r].exists
  BY <1>1 DEF Deleted, NoObject, SlaveArrays
<1>5. \A s, r \in Slaves : Read(s)[r].exists = slave[r].exists
  BY <1>1 DEF Read, SlaveArrays, SlaveStates
<1>6. CASE UNCHANGED vars
  <2>1. Less
    BY <1>6 DEF Less, vars
  <2> QED BY <1>2, <2>1
<1>7. ASSUME NEW j \in Jobs, DoJob(j) PROVE Limited'
  <2>1. ~AllScheduled /\ UNCHANGED calls
    BY <1>3, <1>7 DEF DoJob, May
  <2> QED BY <2>1 DEF Limited, AllScheduled
<1>8. ASSUME NEW j \in Jobs, NEW s \in Slaves, AssignJobToSlave(j, s) PROVE Limited'
  <2>1. ~AllScheduled /\ UNCHANGED calls
    BY <1>3, <1>8 DEF AssignJobToSlave, May
  <2> QED BY <2>1 DEF Limited, AllScheduled
<1>9. ASSUME NEW u, GetConnectedSlave(u) PROVE Limited'
  <2>1. ~AllScheduled /\ UNCHANGED calls
    BY <1>3, <1>9 DEF GetConnectedSlave, May
  <2> QED BY <2>1 DEF Limited, AllScheduled
<1>10. ASSUME NEW s \in Slaves, DisconnectSlave(s) PROVE Limited'
  <2>1. ~AllScheduled /\ UNCHANGED calls
    BY <1>3, <1>10 DEF DisconnectSlave, May
  <2> QED BY <2>1 DEF Limited, AllScheduled
<1>11. ASSUME NEW j \in Jobs, ScheduleJob(j) PROVE Limited'
  <2>1. Less
    BY <1>1, <1>11 DEF Less, ScheduleJob, Schedulers
  <2> QED BY <1>2, <2>1
<1>12. ASSUME NEW j \in Jobs, KillWaiting(j) PROVE Limited'
  <2>1. ToSet(removeAll(d.newJobs, j)) \subseteq ToSet(d.newJobs)
    BY <1>1, WithoutSet DEF removeAll
  <2>2. Less
    BY <1>1, <1>12, <2>1 DEF Less, KillWaiting, Schedulers
  <2> QED BY <1>2, <2>2
<1>13. ASSUME NEW j \in Jobs, NEW s \in Slaves, KillWithSlave(j, s) PROVE Limited'
  <2>1. PICK E \in Schedulers : /\ E = jobFinished(d, s, FALSE)
                                /\ E.newJobs = d.newJobs /\ E.coSlaves = d.coSlaves
    BY <1>1, JobFinishedFacts
  <2>2. d'.newJobs = E.newJobs /\ d'.coSlaves = E.coSlaves \ {s}
    BY <1>13, <2>1, SlaveDiedFacts DEF KillWithSlave
  <2>3. Less
    BY <1>4, <1>13, <2>1, <2>2 DEF Less, KillWithSlave
  <2> QED BY <1>2, <2>3
<1>14. ASSUME RemoveSlaveOnHold PROVE Limited'
  <2>1. Less
    BY <1>1, <1>14, ExistsKept DEF Less, RemoveSlaveOnHold, NotOnHold, Schedulers
  <2> QED BY <1>2, <2>1
<1>15. ASSUME PublishSlaveOnHold PROVE Limited'
  <2>1. PICK s \in Slaves : s = d.slaveOnHold
    BY <1>15, InvTypes DEF PublishSlaveOnHold
  <2>2. d' = slotSlaveDied(d, s) /\ slave' = Deleted(s) /\ UNCHANGED calls
    BY <1>15, <2>1 DEF PublishSlaveOnHold
  <2>3. d'.newJobs = d.newJobs /\ d'.coSlaves = d.coSlaves \ {s}
    BY <1>1, <2>2, SlaveDiedFacts
  <2>4. Less
    BY <1>4, <2>2, <2>3 DEF Less
  <2> QED BY <1>2, <2>4
<1>16. CASE StartStep \/ NothingToSchedule
  <2>1. Less
    BY <1>1, <1>16 DEF Less, StartStep, NothingToSchedule, Schedulers
  <2> QED BY <1>2, <2>1
<1>17. CASE StartJobDirect
  <2>1. d.newJobs # <<>> /\ UNCHANGED calls
    BY <1>17 DEF StartJobDirect
  <2>2. ToSet(d.newJobs) # {}
    BY <1>1, <2>1, TailSet
  <2> QED BY <2>1, <2>2 DEF Limited, AllScheduled
<1>18. CASE StartJobScheduled
  BY <1>18, ScheduledLimit
<1>19. CASE ScheduleCoSlave
  <2>1. \A r \in Slaves : slave'[r].exists = slave[r].exists
    BY <1>1, <1>19 DEF ScheduleCoSlave, SlaveArrays, SlaveStates
  <2>2. UNCHANGED <<d.newJobs, d.coSlaves, calls>>
    BY <1>1, <1>19 DEF ScheduleCoSlave, Schedulers
  <2>3. Less
    BY <2>1, <2>2 DEF Less
  <2> QED BY <1>2, <2>3
<1>20. ASSUME NEW s \in Slaves, SlaveConnected(s) PROVE Limited'
  <2>1. \A r \in Slaves : slave'[r].exists = slave[r].exists
    <3> DEFINE R == Read(s)
    <3>1. R \in SlaveArrays /\ \A r \in Slaves : R[r].exists = slave[r].exists
      BY <1>20, ReadExists DEF SlaveConnected, Receives
    <3>2. \/ slave' = [R EXCEPT ![s].contacted = TRUE, ![s].connecting = FALSE]
          \/ slave' = R
      BY <1>20 DEF SlaveConnected
    <3> HIDE DEF R
    <3> QED BY <3>1, <3>2 DEF SlaveArrays, SlaveStates
  <2>2. UNCHANGED <<d.newJobs, d.coSlaves, calls>>
    BY <1>1, <1>20 DEF SlaveConnected, Schedulers
  <2>3. Less
    BY <2>1, <2>2 DEF Less
  <2> QED BY <1>2, <2>3
<1>21. ASSUME NEW s \in Slaves, MimeType(s) PROVE Limited'
  <2>1. \A r \in Slaves : slave'[r].exists = slave[r].exists
    <3> DEFINE R == Read(s)
    <3>1. R \in SlaveArrays /\ \A r \in Slaves : R[r].exists = slave[r].exists
      BY <1>21, ReadExists DEF MimeType, Receives
    <3>2. slave' = [R EXCEPT ![s].phase = "going"]
      BY <1>21 DEF MimeType
    <3> HIDE DEF R
    <3> QED BY <3>1, <3>2 DEF SlaveArrays, SlaveStates
  <2>2. Less
    BY <1>21, <2>1 DEF Less, MimeType
  <2> QED BY <1>2, <2>2
<1>22. ASSUME NEW s \in Slaves,
              JobAnswered(s, "finished") \/ JobAnswered(s, "error")
       PROVE  Limited'
  <2>1. slave' = Read(s) /\ UNCHANGED calls
        /\ (UNCHANGED d \/ d' = jobFinished(d, s, slave[s].alive))
    BY <1>22 DEF JobAnswered
  <2>2. slave[s].alive \in BOOLEAN
    BY <1>1 DEF SlaveArrays, SlaveStates
  <2>3. d'.newJobs = d.newJobs /\ d'.coSlaves = d.coSlaves
    <3>1. PICK E : /\ E = jobFinished(d, s, slave[s].alive)
                   /\ E.newJobs = d.newJobs /\ E.coSlaves = d.coSlaves
      BY <1>1, <2>2, JobFinishedFacts
    <3> QED BY <2>1, <3>1
  <2>4. Less
    BY <1>5, <2>1, <2>3 DEF Less
  <2> QED BY <1>2, <2>4
<1>23. ASSUME NEW s \in Slaves, SlaveDied(s) PROVE Limited'
  <2>1. PICK E \in Schedulers : /\ d' = slotSlaveDied(E, s)
                                /\ E.newJobs = d.newJobs /\ E.coSlaves = d.coSlaves
    <3>1. PICK F \in Schedulers : /\ F = jobFinished(d, s, FALSE)
                                  /\ F.newJobs = d.newJobs /\ F.coSlaves = d.coSlaves
      BY <1>1, JobFinishedFacts
    <3>2. d' = slotSlaveDied(d, s) \/ d' = slotSlaveDied(F, s)
      BY <1>23, <3>1 DEF SlaveDied
    <3> QED BY <1>1, <3>1, <3>2
  <2>2. d'.newJobs = E.newJobs /\ d'.coSlaves = E.coSlaves \ {s}
    BY <2>1, SlaveDiedFacts
  <2>3. Less
    BY <1>4, <1>23, <2>1, <2>2 DEF Less, SlaveDied
  <2> QED BY <1>2, <2>3
<1>24. ASSUME NEW s \in Slaves, NEW j \in Jobs, PutSlaveOnHold(j, s) PROVE Limited'
  <2>1. slave[s].out # <<>> /\ slave' = Killed(Read(s), {d.slaveOnHold})
    BY <1>24 DEF PutSlaveOnHold, Receives
  <2>2. Read(s) \in SlaveArrays
    BY <2>1, ReadExists
  <2>3. \A r \in Slaves : slave'[r].exists = slave[r].exists
    BY <1>5, <2>1, <2>2, ExistsKept
  <2>4. Less
    BY <1>1, <1>24, <2>3 DEF Less, PutSlaveOnHold, Schedulers
  <2> QED BY <1>2, <2>4
<1>25. ASSUME NEW s \in Slaves, CleanIdleSlave(s) PROVE Limited'
  <2>1. Less
    BY <1>1, <1>4, <1>25 DEF Less, CleanIdleSlave, Schedulers
  <2> QED BY <1>2, <2>1
<1>26. ASSUME NEW s \in Slaves, Process(s) \/ Crash(s) PROVE Limited'
  <2>1. \A r \in Slaves : slave'[r].exists = slave[r].exists
    <3>1. ASSUME NEW type, NEW phase, NEW todo, Answer(s, type, phase, todo)
          PROVE  \A r \in Slaves : slave'[r].exists = slave[r].exists
      <4> DEFINE m == Append(slave[s].out, [type |-> type, of |-> Head(slave[s].todo)])
                 o == [slave[s] EXCEPT !.phase = phase, !.todo = todo, !.out = m]
      <4>1. o.exists = slave[s].exists
        BY <1>1 DEF SlaveArrays, SlaveStates
      <4>2. slave' = [slave EXCEPT ![s] = o]
        BY <1>1, <3>1 DEF Answer, SlaveArrays, SlaveStates
      <4> HIDE DEF o
      <4> QED BY <1>1, <4>1, <4>2 DEF SlaveArrays
    <3>2. CASE Process(s)
      BY <3>1, <3>2 DEF Process, OpenConnection, SendMimeType, SendMimeTypeAgain, Finish
    <3>3. CASE Crash(s)
      BY <1>1, <3>3 DEF Crash, SlaveArrays, SlaveStates
    <3> QED BY <1>26, <3>2, <3>3
  <2>2. Less
    BY <1>26, <2>1 DEF Less, Process, Crash
  <2> QED BY <1>2, <2>2
<1> QED BY <1>6, <1>7, <1>8, <1>9, <1>10, <1>11, <1>12, <1>13, <1>14, <1>15, <1>16,
           <1>17, <1>18, <1>19, <1>20, <1>21, <1>22, <1>23, <1>24, <1>25, <1>26
    DEF Next, Application, Timer, Input

\* If all jobs are scheduled there are never more than maxSlaves slaves, also
\* when slaves on hold are killed, are published or die.
THEOREM AtMostMaxSlaves == Spec /\ Careful => []MaxSlavesRespected
<1>1. Init => Limited
  <2>1. SUFFICES ASSUME Init PROVE Limited
    OBVIOUS
  <2>2. Objects = {} /\ d.newJobs = <<>> /\ d.coSlaves = {}
    BY <2>1 DEF Init, Objects, NoObject
  <2> QED BY <2>2, FS_EmptySet, LimitsAssumption DEF Limited, ToSet
<1>2. IInv /\ Limited /\ [Next]_vars => Limited'
  BY LimitedStep
<1>3. Limited => MaxSlavesRespected
  BY DEF Limited, AllScheduled, MaxSlavesRespected
<1> QED BY <1>1, <1>2, <1>3, SchedulerInvariant, PTL DEF Spec
=============================================================================
