-------------------------- MODULE WeaverImplProofs ---------------------------
(***************************************************************************)
(* Invariance proofs for WeaverImpl, for any number of jobs, threads,      *)
(* clients and policies.                                                   *)
(*                                                                         *)
(* Neither TypeOK nor JobsAreExclusive nor ActiveCountExact is inductive   *)
(* alone: that m_active stays a natural number needs the exact count, that *)
(* a job put into the queue is not a finished one needs to know where      *)
(* clients carry jobs, and that a thread that scans is alone needs the     *)
(* owner of m_mutex.  IInv says all of it.  The destructor comes next,     *)
(* which leaves no thread behind; then what applications may rely on: the  *)
(* queue policies, the order of the queue and the implementation of        *)
(* JobScheduling.                                                          *)
(*                                                                         *)
(* DependenciesHonoured speaks of a job that has been taken.  Why it holds *)
(* goes back to the scan: the DependencyPolicy was asked about the job at  *)
(* some moment before, nobody else can move the queue under the scan, and  *)
(* dependencies only ever go away, for a success or a deletion.            *)
(*                                                                         *)
(* PermissionsExact compares the lists of the restrictions with the        *)
(* positions the scan and the threads have reached; it needs to know that  *)
(* a scan has not asked more policies than there are, and that a thread    *)
(* begins to give back with the first policy.                              *)
(*                                                                         *)
(* CapRespected needs a memory of the caps there were: setCap may lower a  *)
(* cap below the number of jobs that were admitted before.                 *)
(***************************************************************************)
EXTENDS WeaverImpl, SequenceLemmas

\* m_mutex is held between steps by the one thread that scans the queue.
LockInv == \A t \in Threads : pc[t] = "scan" <=> m_mutex = t

\* Where the local job pointers are set.
HoldInv ==
  /\ \A t \in Threads : job[t] # NoJob <=> pc[t] \in Holding
  /\ \A c \in Clients : job[c] # NoJob <=> pc[c] = "enqueue"

\* A job that is deleted may still be referred to after done() only.
DeletedInv == \A p \in Procs : job[p] \in deleted => pc[p] = "jobDone"

IInv ==
  /\ TypeOK
  /\ LockInv
  /\ HoldInv
  /\ DeletedInv
  /\ JobsAreExclusive
  /\ ActiveCountExact

PcTypeOK ==
  /\ pc \in [Procs -> ThreadPcs \cup ClientPcs \cup SetStatePcs]
  /\ \A t \in Threads : pc[t] \in ThreadPcs \cup SetStatePcs
  /\ \A c \in Clients : pc[c] \in ClientPcs \cup SetStatePcs

CountedThreads == {t \in Threads : pc[t] \in Counted}

-----------------------------------------------------------------------------
(* Program counters *)

\* The places at which a process holds neither a job nor m_mutex and is not
\* counted in m_active.
Quiet == {"none", "apply", "take", "wait", "block", "sleep", "exited",
          "idle", "finishTest", "finishWait", "finishWaiting",
          "dtorWake", "dtorNext", "dtorJoin", "gone",
          "activated", "suspCheck", "suspSet"}

\* A step that moves processes between quiet places, and may change the
\* state, the inventory and the policies, preserves the invariant.
LEMMA QuietStep ==
  ASSUME IInv,
         \A q \in Procs : pc'[q] = pc[q] \/ (pc[q] \in Quiet /\ pc'[q] \in Quiet),
         PcTypeOK',
         UNCHANGED <<m_active, m_assignments, job, policy, jobVars, scanVars>>,
         m_state' \in StateIds,
         m_inventoryMax' \in Nat \ {0},
         m_inventory' \in Seq(Threads),
         joining' \in Threads \cup {NoThread},
         PolicyTypeOK'
  PROVE  IInv'
<1>1. TypeOK'
  BY DEF IInv, TypeOK, PcTypeOK, jobVars, scanVars
<1>2. LockInv'
  BY DEF IInv, LockInv, Quiet, Procs, scanVars
<1>3. HoldInv'
  BY DEF IInv, HoldInv, Quiet, Procs, Holding
<1>4. DeletedInv'
  BY DEF IInv, DeletedInv, Quiet, jobVars
<1>5. JobsAreExclusive'
  BY DEF IInv, JobsAreExclusive, Quiet, jobVars, Queued
<1>6. ActiveCountExact'
  <2>1. CountedThreads' = CountedThreads
    BY DEF CountedThreads, Counted, Quiet, Procs
  <2> QED BY <2>1 DEF IInv, ActiveCountExact, CountedThreads
<1> QED BY <1>1, <1>2, <1>3, <1>4, <1>5, <1>6 DEF IInv

\* One process moves from a quiet place to a quiet place of its kind.
LEMMA QuietGoto ==
  ASSUME IInv, NEW p \in Procs, NEW l \in Quiet,
         pc[p] \in Quiet, Goto(p, l),
         p \in Threads => l \in ThreadPcs \cup SetStatePcs,
         p \in Clients => l \in ClientPcs \cup SetStatePcs
  PROVE  /\ \A q \in Procs : pc'[q] = pc[q] \/ (pc[q] \in Quiet /\ pc'[q] \in Quiet)
         /\ PcTypeOK'
BY DEF IInv, TypeOK, PcTypeOK, Goto, Procs

\* The same for a process that wakes the threads on its way.
LEMMA QuietWake ==
  ASSUME IInv, NEW p \in Procs, NEW l \in Quiet,
         pc[p] \in Quiet, WakeThreads(p, l),
         p \in Threads => l \in ThreadPcs \cup SetStatePcs,
         p \in Clients => l \in ClientPcs \cup SetStatePcs
  PROVE  /\ \A q \in Procs : pc'[q] = pc[q] \/ (pc[q] \in Quiet /\ pc'[q] \in Quiet)
         /\ PcTypeOK'
<1>1. \A q \in Procs : pc'[q] = IF q = p THEN l
                         ELSE IF pc[q] = "sleep" THEN "apply" ELSE pc[q]
  BY DEF WakeThreads
<1>2. "apply" \in Quiet /\ "sleep" \in Quiet /\ "apply" \in ThreadPcs
  BY DEF Quiet, ThreadPcs
<1>3. \A c \in Clients : pc[c] # "sleep"
  BY DEF IInv, TypeOK, ClientPcs, SetStatePcs
<1>4. \A q \in Procs : pc'[q] = pc[q] \/ (pc[q] \in Quiet /\ pc'[q] \in Quiet)
  BY <1>1, <1>2
<1>5. \A t \in Threads : pc'[t] \in ThreadPcs \cup SetStatePcs
  BY <1>1, <1>2 DEF IInv, TypeOK, Procs
<1>6. \A c \in Clients : pc'[c] \in ClientPcs \cup SetStatePcs
  BY <1>1, <1>3 DEF IInv, TypeOK, Procs
<1>7. pc' \in [Procs -> ThreadPcs \cup ClientPcs \cup SetStatePcs]
  BY <1>5, <1>6 DEF WakeThreads, Procs
<1> QED BY <1>4, <1>5, <1>6, <1>7 DEF PcTypeOK
-----------------------------------------------------------------------------
(* Initial states *)

LEMMA InitInv == Init => IInv
<1> SUFFICES ASSUME Init PROVE IInv
  OBVIOUS
<1>1. PolicyTypeOK
  BY CapsAreNumbers, DependenciesAssigned DEF Init, PolicyInit, PolicyTypeOK
<1>2. TypeOK
  BY <1>1, ProcsDisjoint, SizesAreNumbers
     DEF Init, TypeOK, StateIds, ThreadPcs, ClientPcs, SetStatePcs, Procs
<1>3. LockInv
  BY ProcsDisjoint DEF Init, LockInv, Procs
<1>4. HoldInv
  BY ProcsDisjoint DEF Init, HoldInv, Holding, Procs
<1>5. DeletedInv
  BY DEF Init, DeletedInv
<1>6. JobsAreExclusive
  BY DEF Init, JobsAreExclusive, Queued, ToSet, IsInjective
<1>7. ActiveCountExact
  <2>1. CountedThreads = {}
    BY DEF Init, CountedThreads, Counted, Procs
  <2> QED BY <2>1, FS_EmptySet DEF Init, ActiveCountExact, CountedThreads
<1> QED BY <1>2, <1>3, <1>4, <1>5, <1>6, <1>7 DEF IInv

-----------------------------------------------------------------------------
(* The quiet actions *)

\* What the quiet actions leave alone.
LEMMA QuietFrame ==
  ASSUME IInv, UNCHANGED <<poolVars, policyVars>>
  PROVE  /\ m_inventoryMax' \in Nat \ {0}
         /\ m_inventory' \in Seq(Threads)
         /\ joining' \in Threads \cup {NoThread}
         /\ PolicyTypeOK'
BY DEF IInv, TypeOK, PolicyTypeOK, poolVars, policyVars

LEMMA SetStateInv ==
  ASSUME IInv, NEW p \in Procs, SetStateStep(p)
  PROVE  IInv'
<1>1. /\ AfterSetState(p) \in Quiet /\ "suspCheck" \in Quiet
      /\ "suspSet" \in Quiet /\ "activated" \in Quiet
      /\ p \in Threads => AfterSetState(p) \in ThreadPcs
      /\ p \in Clients => AfterSetState(p) \in ClientPcs
      /\ {"suspCheck", "suspSet", "activated"} \subseteq SetStatePcs
  BY ProcsDisjoint DEF AfterSetState, Quiet, ThreadPcs, ClientPcs, SetStatePcs
<1>2. m_state \in StateIds /\ "Suspended" \in StateIds
  BY DEF IInv, TypeOK, StateIds
<1>3. CASE Activated(p)
  <2>1. pc[p] \in Quiet /\ UNCHANGED <<poolVars, policyVars>> /\ m_state' \in StateIds
    BY <1>1, <1>2, <1>3 DEF Activated, At
  <2>2. CASE WakeThreads(p, AfterSetState(p))
    BY <1>1, <1>3, <2>1, <2>2, QuietWake, QuietFrame, QuietStep DEF Activated
  <2>3. CASE Goto(p, "suspCheck")
    BY <1>1, <1>3, <2>1, <2>3, QuietGoto, QuietFrame, QuietStep DEF Activated
  <2>4. CASE Goto(p, AfterSetState(p))
    BY <1>1, <1>3, <2>1, <2>4, QuietGoto, QuietFrame, QuietStep DEF Activated
  <2> QED BY <1>3, <2>2, <2>3, <2>4 DEF Activated
<1>4. CASE SuspCheck(p)
  <2>1. pc[p] \in Quiet /\ UNCHANGED <<poolVars, policyVars>> /\ m_state' \in StateIds
    BY <1>1, <1>2, <1>4 DEF SuspCheck, At
  <2> DEFINE l == IF m_active = 0 THEN "suspSet" ELSE AfterSetState(p)
  <2>2. Goto(p, l) /\ l \in Quiet
        /\ (p \in Threads => l \in ThreadPcs \cup SetStatePcs)
        /\ (p \in Clients => l \in ClientPcs \cup SetStatePcs)
    BY <1>1, <1>4 DEF SuspCheck
  <2> QED BY <1>4, <2>1, <2>2, QuietGoto, QuietFrame, QuietStep DEF SuspCheck
<1>5. CASE SuspSet(p)
  <2>1. pc[p] \in Quiet /\ UNCHANGED <<poolVars, policyVars>> /\ m_state' \in StateIds
    BY <1>1, <1>2, <1>5 DEF SuspSet, At
  <2> DEFINE l == IF m_state = "Suspended" THEN AfterSetState(p) ELSE "activated"
  <2>2. Goto(p, l) /\ l \in Quiet
        /\ (p \in Threads => l \in ThreadPcs \cup SetStatePcs)
        /\ (p \in Clients => l \in ClientPcs \cup SetStatePcs)
    BY <1>1, <1>5 DEF SuspSet
  <2> QED BY <1>5, <2>1, <2>2, QuietGoto, QuietFrame, QuietStep DEF SuspSet
<1> QED BY <1>3, <1>4, <1>5 DEF SetStateStep

LEMMA QuietWorkerInv ==
  ASSUME IInv, NEW t \in Threads,
         ApplyForWork(t) \/ WaitForAvailableJob(t) \/ Block(t)
  PROVE  IInv'
<1>1. \E l \in {"take", "suspCheck", "wait", "exited", "apply", "block", "sleep"} :
        Goto(t, l)
  BY DEF ApplyForWork, WaitForAvailableJob, Block
<1>2. PICK l \in {"take", "suspCheck", "wait", "exited", "apply", "block", "sleep"} :
        Goto(t, l)
  BY <1>1
<1>3. l \in Quiet /\ l \in ThreadPcs \cup SetStatePcs /\ t \in Procs /\ t \notin Clients
  BY ProcsDisjoint DEF Quiet, ThreadPcs, SetStatePcs, Procs
<1>4. pc[t] \in Quiet
  BY DEF ApplyForWork, WaitForAvailableJob, Block, At, Quiet
<1>5. UNCHANGED <<m_state, m_active, m_assignments, job, policy, jobVars,
                  poolVars, scanVars, policyVars>>
  BY DEF ApplyForWork, WaitForAvailableJob, Block
<1>6. m_state' \in StateIds
  BY <1>5 DEF IInv, TypeOK
<1> QED BY <1>2, <1>3, <1>4, <1>5, <1>6, QuietGoto, QuietFrame, QuietStep
\* The steps of finish() and of the destructor, suspend() and resume().
LEMMA QuietClientInv ==
  ASSUME IInv, NEW c \in Clients,
         \/ Suspend(c) \/ Resume(c) \/ ShutDown(c) \/ Finish(c)
         \/ FinishTest(c) \/ FinishWait(c) \/ FinishTimeout(c)
         \/ DtorWake(c) \/ DtorNext(c) \/ DtorJoined(c) \/ DtorRetry(c)
         \/ DtorEnd(c)
  PROVE  IInv'
<1> DEFINE L == {"activated", "dtorWake", "dtorNext", "dtorJoin", "gone",
                 "idle", "finishTest", "finishWait", "finishWaiting"}
<1>1. PICK l \in L : Goto(c, l) \/ WakeThreads(c, l)
  BY DEF Suspend, Resume, ShutDown, Finish, FinishTest, FinishWait,
         FinishTimeout, DtorWake, DtorNext, DtorJoined, DtorRetry, DtorEnd
<1>2. l \in Quiet /\ l \in ClientPcs \cup SetStatePcs /\ c \in Procs /\ c \notin Threads
  BY ProcsDisjoint DEF Quiet, ClientPcs, SetStatePcs, Procs
<1>3. pc[c] \in Quiet
  BY DEF Suspend, Resume, ShutDown, Finish, FinishTest, FinishWait,
         FinishTimeout, DtorWake, DtorNext, DtorJoined, DtorRetry, DtorEnd,
         Calling, At, Quiet
<1>4. UNCHANGED <<m_active, m_assignments, job, policy, jobVars, scanVars>>
      /\ UNCHANGED <<m_inventoryMax, policyVars>>
  BY DEF Suspend, Resume, ShutDown, Finish, FinishTest, FinishWait, poolVars,
         FinishTimeout, DtorWake, DtorNext, DtorJoined, DtorRetry, DtorEnd
<1>5. m_state' \in StateIds
  BY DEF Suspend, Resume, ShutDown, Finish, FinishTest, FinishWait,
         FinishTimeout, DtorWake, DtorNext, DtorJoined, DtorRetry, DtorEnd,
         IInv, TypeOK, StateIds
<1>6. m_inventory' \in Seq(Threads) /\ joining' \in Threads \cup {NoThread}
  <2>1. CASE DtorNext(c)
    <3>1. m_inventory \in Seq(Threads) /\ m_inventory # <<>>
      BY <2>1 DEF DtorNext, IInv, TypeOK
    <3>2. Head(m_inventory) \in Threads /\ Tail(m_inventory) \in Seq(Threads)
      BY <3>1, HeadTailProperties
    <3> QED BY <2>1, <3>2 DEF DtorNext
  <2>2. CASE DtorJoined(c)
    BY <2>2 DEF DtorJoined, IInv, TypeOK
  <2>3. CASE ~DtorNext(c) /\ ~DtorJoined(c)
    <3>1. UNCHANGED poolVars
      BY <2>3 DEF Suspend, Resume, ShutDown, Finish, FinishTest, FinishWait,
             FinishTimeout, DtorWake, DtorRetry, DtorEnd
    <3> QED BY <3>1 DEF poolVars, IInv, TypeOK
  <2> QED BY <2>1, <2>2, <2>3
<1>7. m_inventoryMax' \in Nat \ {0} /\ PolicyTypeOK'
  BY <1>4 DEF IInv, TypeOK, PolicyTypeOK, policyVars
<1>8. CASE Goto(c, l)
  BY <1>2, <1>3, <1>4, <1>5, <1>6, <1>7, <1>8, QuietGoto, QuietStep
<1>9. CASE WakeThreads(c, l)
  BY <1>2, <1>3, <1>4, <1>5, <1>6, <1>7, <1>9, QuietWake, QuietStep
<1> QED BY <1>1, <1>8, <1>9

LEMMA SettingsInv ==
  ASSUME IInv, NEW c \in Clients,
         \/ \E n \in MaxValues : SetMaximumNumberOfThreads(c, n)
         \/ \E r \in Restrictions, n \in CapValues : SetCap(c, r, n)
  PROVE  IInv'
<1>1. UNCHANGED <<m_state, m_active, m_assignments, pc, job, policy, jobVars,
                  m_inventory, joining, scanVars>>
  BY DEF SetMaximumNumberOfThreads, SetCap, poolVars
<1>2. m_inventoryMax' \in Nat \ {0} /\ PolicyTypeOK'
  BY SizesAreNumbers
     DEF SetMaximumNumberOfThreads, SetCap, setCap, IInv, TypeOK, PolicyTypeOK,
         poolVars, policyVars
<1>3. /\ PcTypeOK'
      /\ m_state' \in StateIds /\ m_inventory' \in Seq(Threads)
      /\ joining' \in Threads \cup {NoThread}
  BY <1>1 DEF IInv, TypeOK, PcTypeOK
<1> QED BY <1>1, <1>2, <1>3, QuietStep

-----------------------------------------------------------------------------
(* A thread on its way through applyForWork and the execution of a job     *)

\* A thread moves on.
LEMMA ThreadGoto ==
  ASSUME TypeOK, NEW t \in Threads, NEW l \in ThreadPcs, Goto(t, l)
  PROVE  /\ PcTypeOK'
         /\ pc'[t] = l
         /\ \A p \in Procs \ {t} : pc'[p] = pc[p]
BY ProcsDisjoint DEF TypeOK, PcTypeOK, Goto, Procs

\* Neither the count nor the counted threads change.
LEMMA CountUnchanged ==
  ASSUME ActiveCountExact, UNCHANGED m_active,
         \A t \in Threads : pc'[t] \in Counted <=> pc[t] \in Counted
  PROVE  ActiveCountExact'
<1>1. CountedThreads' = CountedThreads
  BY DEF CountedThreads
<1> QED BY <1>1 DEF ActiveCountExact, CountedThreads

LEMMA LockQueueInv ==
  ASSUME IInv, NEW t \in Threads, LockQueue(t)
  PROVE  IInv'
<1>0. /\ PcTypeOK' /\ pc'[t] = "scan" /\ pc[t] = "take"
      /\ \A p \in Procs \ {t} : pc'[p] = pc[p]
  BY ThreadGoto DEF LockQueue, At, ThreadPcs, IInv
<1>1. TypeOK'
  BY <1>0 DEF LockQueue, IInv, TypeOK, PcTypeOK, PolicyTypeOK,
         jobVars, poolVars, policyVars
<1>2. LockInv'
  BY <1>0, ProcsDisjoint DEF LockQueue, MutexFree, IInv, LockInv, Procs
<1>3. HoldInv'
  BY <1>0, ProcsDisjoint DEF LockQueue, IInv, HoldInv, Holding, Procs
<1>4. DeletedInv'
  BY <1>0 DEF LockQueue, IInv, DeletedInv, jobVars
<1>5. JobsAreExclusive'
  BY <1>0 DEF LockQueue, IInv, JobsAreExclusive, Queued, jobVars
<1>6. ActiveCountExact'
  BY <1>0, CountUnchanged DEF LockQueue, IInv, Counted, Procs
<1> QED BY <1>1, <1>2, <1>3, <1>4, <1>5, <1>6 DEF IInv

LEMMA NothingAvailableInv ==
  ASSUME IInv, NEW t \in Threads, NothingAvailable(t)
  PROVE  IInv'
<1>0. /\ PcTypeOK' /\ pc'[t] = "wait" /\ pc[t] = "scan"
      /\ \A p \in Procs \ {t} : pc'[p] = pc[p]
  BY ThreadGoto DEF NothingAvailable, At, ThreadPcs, IInv
<1>1. TypeOK'
  BY <1>0 DEF NothingAvailable, IInv, TypeOK, PcTypeOK, PolicyTypeOK,
         jobVars, poolVars, policyVars
<1>2. LockInv'
  BY <1>0, ProcsDisjoint DEF NothingAvailable, IInv, LockInv, Procs
<1>3. HoldInv'
  BY <1>0, ProcsDisjoint DEF NothingAvailable, IInv, HoldInv, Holding, Procs
<1>4. DeletedInv'
  BY <1>0 DEF NothingAvailable, IInv, DeletedInv, jobVars
<1>5. JobsAreExclusive'
  BY <1>0 DEF NothingAvailable, IInv, JobsAreExclusive, Queued, jobVars
<1>6. ActiveCountExact'
  BY <1>0, CountUnchanged DEF NothingAvailable, IInv, Counted, Procs
<1> QED BY <1>1, <1>2, <1>3, <1>4, <1>5, <1>6 DEF IInv
\* The policies keep lists of jobs.
LEMMA PolicyStepType ==
  ASSUME PolicyTypeOK, NEW j \in Jobs,
         \/ \E p : acquire(p, j)
         \/ \E ps : release(ps, j)
         \/ \E p, b : free(p, j, b)
         \/ destructed(j)
  PROVE  PolicyTypeOK'
<1>1. \A r \in Restrictions : /\ Append(customers[r], j) \in Seq(Jobs)
                              /\ RemoveFirst(customers[r], j) \in Seq(Jobs)
                              /\ customers[r] \in Seq(Jobs)
  BY AppendSet, RemoveFirstSet DEF PolicyTypeOK
<1>2. CASE \E p : acquire(p, j)
  <2>1. PICK p : acquire(p, j)
    BY <1>2
  <2>2. customers' \in [Restrictions -> Seq(Jobs)]
    BY <1>1, <2>1 DEF acquire
  <2> QED BY <2>1, <2>2 DEF acquire, PolicyTypeOK
<1>3. ASSUME NEW ps, release(ps, j) PROVE PolicyTypeOK'
  BY <1>1, <1>3 DEF release, PolicyTypeOK
<1>4. CASE \E p, b : free(p, j, b)
  BY <1>3, <1>4 DEF free, PolicyTypeOK, resolveDependencies
<1>5. CASE destructed(j)
  BY <1>1, <1>5 DEF destructed, PolicyTypeOK, resolveDependencies
<1> QED BY <1>2, <1>3, <1>4, <1>5

\* A scan that goes on changes the policies, index and the position in the
\* list of policies only.
LEMMA ScanInv ==
  ASSUME IInv, NEW t \in Threads, PolicyAgrees(t) \/ PolicyRefuses(t)
  PROVE  IInv'
<1>1. Scanned \in Jobs
  <2>1. index \in 1..Len(m_assignments)
    BY DEF PolicyAgrees, PolicyRefuses, Scanning, IInv, TypeOK
  <2> QED BY <2>1, ElementOfSeq DEF Scanned, IInv, TypeOK
<1>2. PolicyTypeOK'
  <2>1. PolicyTypeOK
    BY DEF IInv, TypeOK
  <2> QED BY <1>1, <2>1, PolicyStepType, Zenon DEF PolicyAgrees, PolicyRefuses
<1>3. UNCHANGED <<m_state, m_active, m_assignments, pc, job, jobVars, poolVars,
                  m_mutex>>
  BY DEF PolicyAgrees, PolicyRefuses, scanVars
<1>4. index' \in Nat \ {0} /\ policy' \in [Threads -> Nat \ {0}]
  <2>1. index \in Nat \ {0} /\ policy \in [Threads -> Nat \ {0}]
    BY DEF IInv, TypeOK
  <2>2. CASE PolicyAgrees(t)
    BY <2>1, <2>2 DEF PolicyAgrees, scanVars
  <2>3. CASE PolicyRefuses(t)
    BY <2>1, <2>3 DEF PolicyRefuses
  <2> QED BY <2>2, <2>3
<1>5. TypeOK'
  BY <1>2, <1>3, <1>4 DEF IInv, TypeOK, jobVars, poolVars
<1>6. LockInv' /\ HoldInv' /\ DeletedInv' /\ JobsAreExclusive' /\ ActiveCountExact'
  BY <1>3 DEF IInv, LockInv, HoldInv, DeletedInv, JobsAreExclusive, Queued,
              ActiveCountExact, jobVars
<1> QED BY <1>5, <1>6 DEF IInv

LEMMA TakeJobInv ==
  ASSUME IInv, NEW t \in Threads, TakeJob(t)
  PROVE  IInv'
<1>0. /\ PcTypeOK' /\ pc'[t] = "taken" /\ pc[t] = "scan"
      /\ \A p \in Procs \ {t} : pc'[p] = pc[p]
  BY ThreadGoto DEF TakeJob, Scanning, At, ThreadPcs, IInv
<1>1. /\ index \in 1..Len(m_assignments)
      /\ m_assignments \in Seq(Jobs) /\ IsInjective(m_assignments)
      /\ m_assignments' = RemoveAt(m_assignments, index)
  BY DEF TakeJob, Scanning, WithoutScanned, IInv, TypeOK, JobsAreExclusive
<1>2. /\ m_assignments' \in Seq(Jobs) /\ IsInjective(m_assignments')
      /\ Queued' = Queued \ {Scanned}
  BY <1>1, RemoveAtFacts, RemoveAtSet DEF Queued, Scanned
<1>3. Scanned \in Jobs /\ Scanned \in Queued
  BY <1>1, ElementOfSeq, LenProperties DEF Scanned, Queued, ToSet
<1>4. /\ job'[t] = Scanned /\ \A p \in Procs \ {t} : job'[p] = job[p]
      /\ job' \in [Procs -> Jobs \cup {NoJob}]
  BY <1>3 DEF TakeJob, IInv, TypeOK, Procs
<1>5. TypeOK'
  BY <1>0, <1>2, <1>4 DEF TakeJob, IInv, TypeOK, PcTypeOK, PolicyTypeOK,
         jobVars, poolVars, policyVars
<1>6. LockInv'
  BY <1>0, ProcsDisjoint DEF TakeJob, IInv, LockInv, Procs
<1>7. HoldInv'
  BY <1>0, <1>3, <1>4, ProcsDisjoint DEF IInv, HoldInv, Holding, Procs
<1>8. DeletedInv'
  BY <1>0, <1>3, <1>4 DEF TakeJob, IInv, DeletedInv, JobsAreExclusive, jobVars
<1>9. JobsAreExclusive'
  <2>1. \A p, q \in Procs : job'[p] # NoJob /\ job'[p] = job'[q] => p = q
    BY <1>3, <1>4 DEF IInv, JobsAreExclusive
  <2>2. \A p \in Procs : job'[p] \notin Queued'
    BY <1>2, <1>3, <1>4 DEF IInv, JobsAreExclusive
  <2>3. Queued' \cap (finished' \cup deleted') = {}
    BY <1>2 DEF TakeJob, jobVars, IInv, JobsAreExclusive
  <2>4. \A p \in Procs : job'[p] \in finished' => pc'[p] \in {"free", "jobDone"}
    BY <1>0, <1>3, <1>4 DEF TakeJob, jobVars, IInv, JobsAreExclusive
  <2> QED BY <1>2, <2>1, <2>2, <2>3, <2>4 DEF JobsAreExclusive
<1>10. ActiveCountExact'
  BY <1>0, CountUnchanged DEF TakeJob, IInv, Counted, Procs
<1> QED BY <1>5, <1>6, <1>7, <1>8, <1>9, <1>10 DEF IInv

\* The counted threads are one more after incActiveThreadCount.
LEMMA IncActiveInv ==
  ASSUME IInv, NEW t \in Threads, IncActive(t)
  PROVE  IInv'
<1>0. /\ PcTypeOK' /\ pc'[t] = "execute" /\ pc[t] = "taken"
      /\ \A p \in Procs \ {t} : pc'[p] = pc[p]
  BY ThreadGoto DEF IncActive, At, ThreadPcs, IInv
<1>1. TypeOK'
  BY <1>0 DEF IncActive, IInv, TypeOK, PcTypeOK, PolicyTypeOK, jobVars,
         poolVars, scanVars, policyVars
<1>2. LockInv'
  BY <1>0, ProcsDisjoint DEF IncActive, IInv, LockInv, Procs, scanVars
<1>3. HoldInv'
  BY <1>0, ProcsDisjoint DEF IncActive, IInv, HoldInv, Holding, Procs
<1>4. DeletedInv'
  BY <1>0 DEF IncActive, IInv, DeletedInv, jobVars
<1>5. JobsAreExclusive'
  BY <1>0 DEF IncActive, IInv, JobsAreExclusive, Queued, jobVars
<1>6. ActiveCountExact'
  <2>1. CountedThreads' = CountedThreads \cup {t} /\ t \notin CountedThreads
    BY <1>0 DEF CountedThreads, Counted, Procs
  <2>2. IsFiniteSet(CountedThreads)
    BY ProcsDisjoint, FS_Subset DEF CountedThreads
  <2>3. Cardinality(CountedThreads') = Cardinality(CountedThreads) + 1
    BY <2>1, <2>2, FS_AddElement
  <2> QED BY <2>3 DEF IncActive, IInv, ActiveCountExact, CountedThreads
<1> QED BY <1>1, <1>2, <1>3, <1>4, <1>5, <1>6 DEF IInv
LEMMA RunJobInv ==
  ASSUME IInv, NEW t \in Threads, RunJob(t)
  PROVE  IInv'
<1>0. /\ PcTypeOK' /\ pc'[t] = "free" /\ pc[t] = "execute"
      /\ \A p \in Procs \ {t} : pc'[p] = pc[p]
  BY ThreadGoto DEF RunJob, At, ThreadPcs, IInv
<1>1. job[t] \in Jobs /\ t \in Procs
  BY <1>0 DEF IInv, TypeOK, HoldInv, Holding, Procs
<1>2. /\ finished' = finished \cup {job[t]}
      /\ succeeded' \subseteq finished' /\ finished' \subseteq Jobs
  BY <1>1 DEF RunJob, IInv, TypeOK
<1>3. TypeOK'
  BY <1>0, <1>2 DEF RunJob, IInv, TypeOK, PcTypeOK, PolicyTypeOK,
         poolVars, scanVars, policyVars
<1>4. LockInv'
  BY <1>0, ProcsDisjoint DEF RunJob, IInv, LockInv, Procs, scanVars
<1>5. HoldInv'
  BY <1>0, ProcsDisjoint DEF RunJob, IInv, HoldInv, Holding, Procs
<1>6. DeletedInv'
  BY <1>0 DEF RunJob, IInv, DeletedInv
<1>7. JobsAreExclusive'
  <2>1. UNCHANGED <<m_assignments, job, deleted>>
    BY DEF RunJob
  <2>2. \A p \in Procs : job'[p] \in finished' => pc'[p] \in {"free", "jobDone"}
    BY <1>0, <1>1, <1>2, <2>1, ProcsDisjoint DEF IInv, JobsAreExclusive
  <2> QED BY <1>1, <1>2, <2>1, <2>2 DEF IInv, JobsAreExclusive, Queued
<1>8. ActiveCountExact'
  BY <1>0, CountUnchanged DEF RunJob, IInv, Counted, Procs
<1> QED BY <1>3, <1>4, <1>5, <1>6, <1>7, <1>8 DEF IInv

LEMMA FreePolicyInv ==
  ASSUME IInv, NEW t \in Threads, FreePolicy(t)
  PROVE  IInv'
<1>1. job[t] \in Jobs
  BY DEF FreePolicy, At, IInv, TypeOK, HoldInv, Holding, Procs
<1>2. PolicyTypeOK'
  <2>1. PolicyTypeOK
    BY DEF IInv, TypeOK
  <2> QED BY <1>1, <2>1, PolicyStepType, Zenon DEF FreePolicy
<1>3. UNCHANGED <<m_state, m_active, m_assignments, pc, job, jobVars, poolVars,
                  scanVars>>
  BY DEF FreePolicy
<1>4. policy' \in [Threads -> Nat \ {0}]
  BY DEF FreePolicy, IInv, TypeOK
<1>5. TypeOK'
  BY <1>2, <1>3, <1>4 DEF IInv, TypeOK, jobVars, poolVars, scanVars
<1>6. LockInv' /\ HoldInv' /\ DeletedInv' /\ JobsAreExclusive' /\ ActiveCountExact'
  BY <1>3 DEF IInv, LockInv, HoldInv, DeletedInv, JobsAreExclusive, Queued,
              ActiveCountExact, jobVars, scanVars
<1> QED BY <1>5, <1>6 DEF IInv

LEMMA EmitDoneInv ==
  ASSUME IInv, NEW t \in Threads, EmitDone(t)
  PROVE  IInv'
<1>0. /\ PcTypeOK' /\ pc'[t] = "jobDone" /\ pc[t] = "free"
      /\ \A p \in Procs \ {t} : pc'[p] = pc[p]
  BY ThreadGoto DEF EmitDone, At, ThreadPcs, IInv
<1>1. policy' \in [Threads -> Nat \ {0}]
  BY DEF EmitDone, IInv, TypeOK
<1>2. TypeOK'
  BY <1>0, <1>1 DEF EmitDone, IInv, TypeOK, PcTypeOK, PolicyTypeOK, jobVars,
         poolVars, scanVars, policyVars
<1>3. LockInv'
  BY <1>0, ProcsDisjoint DEF EmitDone, IInv, LockInv, Procs, scanVars
<1>4. HoldInv'
  BY <1>0, ProcsDisjoint DEF EmitDone, IInv, HoldInv, Holding, Procs
<1>5. DeletedInv'
  BY <1>0 DEF EmitDone, IInv, DeletedInv, jobVars
<1>6. JobsAreExclusive'
  BY <1>0 DEF EmitDone, IInv, JobsAreExclusive, Queued, jobVars
<1>7. ActiveCountExact'
  BY <1>0, CountUnchanged DEF EmitDone, IInv, Counted, Procs
<1> QED BY <1>2, <1>3, <1>4, <1>5, <1>6, <1>7 DEF IInv

LEMMA ForgetJobInv ==
  ASSUME IInv, NEW t \in Threads, ForgetJob(t)
  PROVE  IInv'
<1>0. /\ PcTypeOK' /\ pc'[t] = "decActive" /\ pc[t] = "jobDone"
      /\ \A p \in Procs \ {t} : pc'[p] = pc[p]
  BY ThreadGoto DEF ForgetJob, At, ThreadPcs, IInv
<1>1. /\ job'[t] = NoJob /\ \A p \in Procs \ {t} : job'[p] = job[p]
      /\ job' \in [Procs -> Jobs \cup {NoJob}]
  BY DEF ForgetJob, IInv, TypeOK, Procs
<1>2. TypeOK'
  BY <1>0, <1>1 DEF ForgetJob, IInv, TypeOK, PcTypeOK, PolicyTypeOK, jobVars,
         poolVars, scanVars, policyVars
<1>3. LockInv'
  BY <1>0, ProcsDisjoint DEF ForgetJob, IInv, LockInv, Procs, scanVars
<1>4. HoldInv'
  BY <1>0, <1>1, ProcsDisjoint DEF IInv, HoldInv, Holding, Procs
<1>5. NoJob \notin Queued \cup finished \cup deleted
  <2>1. m_assignments \in Seq(Jobs)
    BY DEF IInv, TypeOK
  <2>2. Queued \subseteq Jobs
    BY <2>1, ElementOfSeq, LenProperties DEF Queued, ToSet
  <2> QED BY <2>2, ProcsDisjoint DEF IInv, TypeOK
<1>6. DeletedInv'
  BY <1>0, <1>1, <1>5 DEF ForgetJob, IInv, DeletedInv, jobVars
<1>7. JobsAreExclusive'
  <2>1. UNCHANGED <<m_assignments, Queued, finished, deleted>>
    BY DEF ForgetJob, Queued, jobVars
  <2> QED BY <1>0, <1>1, <1>5, <2>1 DEF IInv, JobsAreExclusive
<1>8. ActiveCountExact'
  BY <1>0, CountUnchanged DEF ForgetJob, IInv, Counted, Procs
<1> QED BY <1>2, <1>3, <1>4, <1>6, <1>7, <1>8 DEF IInv
\* The counted threads are one less after decActiveThreadCount, which finds
\* at least its own thread counted; clients in finish() wake up.
LEMMA DecActiveInv ==
  ASSUME IInv, NEW t \in Threads, DecActive(t)
  PROVE  IInv'
<1>0. /\ pc[t] = "decActive" /\ t \in Procs /\ pc'[t] = "apply"
      /\ \A p \in Threads \ {t} : pc'[p] = pc[p]
      /\ \A c \in Clients : \/ pc'[c] = pc[c]
                            \/ pc[c] = "finishWaiting" /\ pc'[c] = "finishTest"
  BY ProcsDisjoint
     DEF DecActive, At, WakeFinish, IInv, TypeOK, Procs, ThreadPcs, SetStatePcs
<1>1. PcTypeOK'
  <2>1. \A p \in Threads : pc'[p] \in ThreadPcs \cup SetStatePcs
    BY <1>0 DEF IInv, TypeOK, ThreadPcs
  <2>2. \A c \in Clients : pc'[c] \in ClientPcs \cup SetStatePcs
    BY <1>0 DEF IInv, TypeOK, ClientPcs
  <2>3. pc' = [p \in Procs |-> pc'[p]]
    BY DEF DecActive, WakeFinish
  <2> QED BY <2>1, <2>2, <2>3 DEF PcTypeOK, Procs
<1>2. m_active' \in Nat /\ ActiveCountExact'
  <2>1. t \in CountedThreads /\ CountedThreads' = CountedThreads \ {t}
    BY <1>0 DEF CountedThreads, Counted
  <2>2. IsFiniteSet(CountedThreads)
    BY ProcsDisjoint, FS_Subset DEF CountedThreads
  <2>3. Cardinality(CountedThreads') = Cardinality(CountedThreads) - 1
    BY <2>1, <2>2, FS_RemoveElement
  <2>4. Cardinality(CountedThreads') \in Nat
    BY <2>1, <2>2, FS_RemoveElement, FS_CardinalityType
  <2> QED BY <2>3, <2>4 DEF DecActive, IInv, ActiveCountExact, CountedThreads
<1>3. TypeOK'
  BY <1>1, <1>2 DEF DecActive, IInv, TypeOK, PcTypeOK, PolicyTypeOK, jobVars,
         poolVars, scanVars, policyVars
<1>4. LockInv'
  BY <1>0 DEF DecActive, IInv, LockInv, scanVars
<1>5. HoldInv'
  BY <1>0 DEF DecActive, IInv, HoldInv, Holding
<1>6. DeletedInv'
  BY <1>0 DEF DecActive, IInv, DeletedInv, Procs, jobVars
<1>7. JobsAreExclusive'
  BY <1>0 DEF DecActive, IInv, JobsAreExclusive, Queued, Procs, jobVars
<1> QED BY <1>2, <1>3, <1>4, <1>5, <1>6, <1>7 DEF IInv

LEMMA WorkerInv ==
  ASSUME IInv, NEW t \in Threads, Worker(t)
  PROVE  IInv'
<1>1. t \in Procs
  BY DEF Procs
<1> QED BY <1>1, QuietWorkerInv, LockQueueInv, ScanInv, TakeJobInv,
           NothingAvailableInv, IncActiveInv, RunJobInv, FreePolicyInv,
           EmitDoneInv, ForgetJobInv, DecActiveInv, SetStateInv DEF Worker

-----------------------------------------------------------------------------
(* The clients change the queue *)

\* The job is one nobody else holds; the new thread is one that was quiet.
LEMMA AdjustInventoryInv ==
  ASSUME IInv, NEW c \in Clients, NEW j \in Jobs, AdjustInventory(c, j)
  PROVE  IInv'
<1> DEFINE Moved ==
      /\ c \in Procs /\ c \notin Threads /\ pc[c] = "idle" /\ pc'[c] = "enqueue"
      /\ \A d \in Clients \ {c} : pc'[d] = pc[d]
      /\ \A t \in Threads : \/ pc'[t] = pc[t]
                            \/ pc[t] = "none" /\ pc'[t] = "apply"
      /\ pc' \in [Procs -> ThreadPcs \cup ClientPcs \cup SetStatePcs]
<1>0. Moved
  <2>1. c \in Procs /\ c \notin Threads /\ pc[c] = "idle"
    BY ProcsDisjoint DEF AdjustInventory, Calling, At, Procs
  <2>2. pc \in [Procs -> ThreadPcs \cup ClientPcs \cup SetStatePcs]
    BY DEF IInv, TypeOK
  <2>3. "apply" \in ThreadPcs /\ "enqueue" \in ClientPcs
    BY DEF ThreadPcs, ClientPcs
  <2>4. CASE Goto(c, "enqueue")
    BY <2>1, <2>2, <2>3, <2>4, ProcsDisjoint DEF Goto, Procs
  <2>5. ASSUME NEW t \in Threads, At(t, "none"),
               pc' = [pc EXCEPT ![t] = "apply", ![c] = "enqueue"]
        PROVE  Moved
    BY <2>1, <2>2, <2>3, <2>5, ProcsDisjoint DEF At, Procs
  <2> QED BY <2>4, <2>5 DEF AdjustInventory
<1>1. /\ job'[c] = j /\ \A p \in Procs \ {c} : job'[p] = job[p]
      /\ job' \in [Procs -> Jobs \cup {NoJob}]
  BY <1>0 DEF AdjustInventory, IInv, TypeOK
<1>2. j \notin Queued \cup finished \cup deleted /\ \A p \in Procs : job[p] # j
  BY DEF AdjustInventory, Fresh
<1>3. m_inventory' \in Seq(Threads)
  <2>1. m_inventory \in Seq(Threads)
    BY DEF IInv, TypeOK
  <2>2. \A t \in Threads : Append(m_inventory, t) \in Seq(Threads)
    BY <2>1, AppendProperties
  <2> QED BY <2>1, <2>2 DEF AdjustInventory
<1>4. PcTypeOK'
  BY <1>0 DEF IInv, TypeOK, PcTypeOK, ThreadPcs, ClientPcs
<1>5. TypeOK'
  BY <1>1, <1>3, <1>4 DEF AdjustInventory, IInv, TypeOK, PcTypeOK, PolicyTypeOK,
         jobVars, scanVars, policyVars
<1>6. LockInv'
  BY <1>0 DEF AdjustInventory, IInv, LockInv, scanVars
<1>7. HoldInv'
  BY <1>0, <1>1, ProcsDisjoint DEF IInv, HoldInv, Holding, Procs
<1>8. DeletedInv'
  BY <1>0, <1>1, <1>2 DEF AdjustInventory, IInv, DeletedInv, Procs, jobVars
<1>9. JobsAreExclusive'
  <2>1. UNCHANGED <<m_assignments, Queued, finished, deleted>>
    BY DEF AdjustInventory, Queued, jobVars
  <2>2. \A p \in Procs : job'[p] \in finished' => pc'[p] \in {"free", "jobDone"}
    BY <1>0, <1>1, <1>2, <2>1 DEF IInv, JobsAreExclusive, Procs
  <2> QED BY <1>1, <1>2, <2>1, <2>2 DEF IInv, JobsAreExclusive
<1>10. ActiveCountExact'
  BY <1>0, CountUnchanged DEF AdjustInventory, IInv, Counted
<1> QED BY <1>5, <1>6, <1>7, <1>8, <1>9, <1>10 DEF IInv
LEMMA EnqueueInv ==
  ASSUME IInv, NEW c \in Clients, Enqueue(c)
  PROVE  IInv'
<1>0. /\ c \in Procs /\ c \notin Threads /\ pc[c] = "enqueue" /\ pc'[c] = "idle"
      /\ \A d \in Clients \ {c} : pc'[d] = pc[d]
      /\ \A t \in Threads : \/ pc'[t] = pc[t]
                            \/ pc[t] = "sleep" /\ pc'[t] = "apply"
  <2>1. \A d \in Clients : pc[d] # "sleep"
    BY DEF IInv, TypeOK, ClientPcs, SetStatePcs
  <2> QED BY <2>1, ProcsDisjoint DEF Enqueue, At, WakeThreads, Procs
<1>1. job[c] \in Jobs
  BY <1>0 DEF IInv, TypeOK, HoldInv
<1>2. /\ job'[c] = NoJob /\ \A p \in Procs \ {c} : job'[p] = job[p]
      /\ job' \in [Procs -> Jobs \cup {NoJob}]
  BY <1>0 DEF Enqueue, IInv, TypeOK
<1>3. /\ m_assignments' \in Seq(Jobs) /\ IsInjective(m_assignments')
      /\ Queued' = Queued \cup {job[c]}
  <2>1. PICK i \in 0..Len(m_assignments) :
          m_assignments' = InsertAt(m_assignments, i + 1, job[c])
    BY DEF Enqueue
  <2>2. /\ m_assignments \in Seq(Jobs) /\ IsInjective(m_assignments)
        /\ job[c] \notin ToSet(m_assignments)
    BY <1>0 DEF IInv, TypeOK, JobsAreExclusive, Queued
  <2>3. i + 1 \in 1..(Len(m_assignments) + 1)
    BY <2>2, LenProperties
  <2> QED BY <1>1, <2>1, <2>2, <2>3, InsertAtFacts, InsertAtSet DEF Queued
<1>4. PcTypeOK'
  <2>1. pc' = [p \in Procs |-> pc'[p]]
    BY DEF Enqueue, WakeThreads
  <2>2. \A t \in Threads : pc'[t] \in ThreadPcs \cup SetStatePcs
    BY <1>0 DEF IInv, TypeOK, ThreadPcs
  <2>3. \A d \in Clients : pc'[d] \in ClientPcs \cup SetStatePcs
    BY <1>0 DEF IInv, TypeOK, ClientPcs
  <2> QED BY <2>1, <2>2, <2>3 DEF PcTypeOK, Procs
<1>5. TypeOK'
  BY <1>2, <1>3, <1>4 DEF Enqueue, IInv, TypeOK, PcTypeOK, PolicyTypeOK,
         jobVars, poolVars, scanVars, policyVars
<1>6. LockInv'
  BY <1>0 DEF Enqueue, IInv, LockInv, scanVars
<1>7. HoldInv'
  BY <1>0, <1>2, ProcsDisjoint DEF IInv, HoldInv, Holding, Procs
<1>8. NoJob \notin Queued' \cup finished \cup deleted
  <2>1. Queued' \subseteq Jobs
    BY <1>3, ElementOfSeq, LenProperties DEF Queued, ToSet
  <2> QED BY <2>1, ProcsDisjoint DEF IInv, TypeOK
<1>9. DeletedInv'
  BY <1>0, <1>2, <1>8 DEF Enqueue, IInv, DeletedInv, Procs, jobVars
<1>10. JobsAreExclusive'
  <2>1. UNCHANGED <<finished, deleted>>
    BY DEF Enqueue, jobVars
  <2>2. job[c] \notin finished \cup deleted
    BY <1>0 DEF IInv, JobsAreExclusive, DeletedInv
  <2>3. \A p \in Procs : job'[p] \notin Queued'
    BY <1>0, <1>2, <1>3, <1>8, <1>1 DEF IInv, JobsAreExclusive
  <2>4. \A p \in Procs : job'[p] \in finished' => pc'[p] \in {"free", "jobDone"}
    BY <1>0, <1>2, <1>8, <2>1 DEF IInv, JobsAreExclusive, Procs
  <2> QED BY <1>2, <1>3, <2>1, <2>2, <2>3, <2>4 DEF IInv, JobsAreExclusive
<1>11. ActiveCountExact'
  BY <1>0, CountUnchanged DEF Enqueue, IInv, Counted
<1> QED BY <1>5, <1>6, <1>7, <1>9, <1>10, <1>11 DEF IInv

\* Jobs leave the queue, and clients in finish() may wake up.
LEMMA DequeueInv ==
  ASSUME IInv, NEW c \in Clients,
         DequeueAll(c) \/ \E j \in Jobs : Dequeue(c, j)
  PROVE  IInv'
<1> DEFINE Shorter == /\ m_assignments' \in Seq(Jobs)
                      /\ IsInjective(m_assignments')
                      /\ Queued' \subseteq Queued
<1>1. Shorter
  <2>1. m_assignments \in Seq(Jobs) /\ IsInjective(m_assignments)
    BY DEF IInv, TypeOK, JobsAreExclusive
  <2>2. CASE DequeueAll(c)
    BY <2>2, EmptySeq DEF DequeueAll, Queued, ToSet, IsInjective
  <2>3. ASSUME NEW j \in Jobs, Dequeue(c, j)
        PROVE  Shorter
    BY <2>1, <2>3, RemoveFirstSet DEF Dequeue, Queued
  <2> QED BY <2>2, <2>3
<1>2. UNCHANGED <<m_state, m_active, job, policy, jobVars, poolVars, scanVars,
                  policyVars>>
  BY DEF Dequeue, DequeueAll
<1>3. /\ pc' \in [Procs -> ThreadPcs \cup ClientPcs \cup SetStatePcs]
      /\ \A t \in Threads : pc'[t] = pc[t]
      /\ \A d \in Clients : \/ pc'[d] = pc[d]
                            \/ pc[d] = "finishWaiting" /\ pc'[d] = "finishTest"
  BY ProcsDisjoint
     DEF Dequeue, DequeueAll, Goto, At, IInv, TypeOK, Procs, ClientPcs
<1>4. TypeOK'
  BY <1>1, <1>2, <1>3 DEF IInv, TypeOK, PolicyTypeOK, ClientPcs, jobVars,
         poolVars, scanVars, policyVars
<1>5. LockInv'
  BY <1>2, <1>3 DEF IInv, LockInv, scanVars
<1>6. HoldInv'
  BY <1>2, <1>3 DEF IInv, HoldInv
<1>7. DeletedInv'
  BY <1>2, <1>3 DEF IInv, DeletedInv, Procs, jobVars
<1>8. JobsAreExclusive'
  BY <1>1, <1>2, <1>3 DEF IInv, JobsAreExclusive, Procs, jobVars
<1>9. ActiveCountExact'
  BY <1>2, <1>3, CountUnchanged DEF IInv
<1> QED BY <1>4, <1>5, <1>6, <1>7, <1>8, <1>9 DEF IInv

LEMMA DeleteJobInv ==
  ASSUME IInv, NEW c \in Clients, NEW j \in Jobs, DeleteJob(c, j)
  PROVE  IInv'
<1>1. UNCHANGED <<m_state, m_active, m_assignments, pc, job, policy, finished,
                  succeeded, poolVars, scanVars>>
      /\ deleted' = deleted \cup {j} /\ j \notin Queued
      /\ \A p \in Procs : job[p] = j => pc[p] = "jobDone"
  BY DEF DeleteJob, At
<1>2. PolicyTypeOK'
  <2>1. PolicyTypeOK
    BY DEF IInv, TypeOK
  <2> QED BY <2>1, PolicyStepType, Zenon DEF DeleteJob
<1>3. TypeOK'
  BY <1>1, <1>2 DEF IInv, TypeOK, poolVars, scanVars
<1>4. LockInv' /\ HoldInv' /\ ActiveCountExact'
  BY <1>1 DEF IInv, LockInv, HoldInv, ActiveCountExact, scanVars
<1>5. DeletedInv'
  BY <1>1 DEF IInv, DeletedInv
<1>6. JobsAreExclusive'
  BY <1>1 DEF IInv, JobsAreExclusive, Queued
<1> QED BY <1>3, <1>4, <1>5, <1>6 DEF IInv

LEMMA ClientInv ==
  ASSUME IInv, NEW c \in Clients, ClientStep(c) \/ ClientCall(c)
  PROVE  IInv'
<1>1. c \in Procs
  BY DEF Procs
<1>2. CASE ClientStep(c)
  BY <1>1, <1>2, EnqueueInv, QuietClientInv, SetStateInv DEF ClientStep
<1>3. CASE ClientCall(c)
  BY <1>3, AdjustInventoryInv, DequeueInv, DeleteJobInv, SettingsInv,
     QuietClientInv DEF ClientCall
<1> QED BY <1>2, <1>3

-----------------------------------------------------------------------------
(* The theorems *)

LEMMA StutterInv == IInv /\ UNCHANGED vars => IInv'
BY DEF IInv, TypeOK, PolicyTypeOK, LockInv, HoldInv, DeletedInv,
       JobsAreExclusive, ActiveCountExact, Queued, vars, jobVars, poolVars,
       scanVars, policyVars

\* The invariant holds in every state of the weaver.
THEOREM Invariance == Spec => []IInv
<1>1. IInv /\ [Next]_vars => IInv'
  BY WorkerInv, ClientInv, StutterInv DEF Next
<1> QED BY InitInv, <1>1, PTL DEF Spec

\* Every variable has its type; in particular m_active is never negative.
THEOREM TypeCorrect == Spec => []TypeOK
<1>1. IInv => TypeOK
  BY DEF IInv
<1> QED BY Invariance, <1>1, PTL

\* No job is lost to two owners: not queued twice, not executed by two
\* threads, not executed again after it has finished.
THEOREM ExclusiveJobs == Spec => []JobsAreExclusive
<1>1. IInv => JobsAreExclusive
  BY DEF IInv
<1> QED BY Invariance, <1>1, PTL

\* m_active is the number of threads between incActiveThreadCount and
\* decActiveThreadCount.
THEOREM ActiveCount == Spec => []ActiveCountExact
<1>1. IInv => ActiveCountExact
  BY DEF IInv
<1> QED BY Invariance, <1>1, PTL

-----------------------------------------------------------------------------
(* The destructor takes the threads out of m_inventory one by one and      *)
(* joins them, so that DestructorLeavesNoThread rests on what m_inventory  *)
(* is: the list of all threads that run, but for the one being joined.     *)

Runs(t) == pc[t] \notin {"none", "exited"}

InInventory(t) == \E n \in 1..Len(m_inventory) : m_inventory[n] = t

\* A thread that runs can be found by the destructor.
Registered == \A t \in Threads : Runs(t) => t = joining \/ InInventory(t)

\* Only the owner is in the destructor, and it knows whom it joins.
OwnerDeletes ==
  /\ \A c \in Clients \ {Owner} : pc[c] \notin DtorPcs
  /\ joining # NoThread => pc[Owner] = "dtorJoin"
  /\ pc[Owner] = "gone" => m_inventory = <<>>

DtorInv == Registered /\ OwnerDeletes

-----------------------------------------------------------------------------
(* Steps that neither start, register nor join a thread *)

OrdinaryStep ==
  /\ UNCHANGED <<m_inventory, joining>>
  /\ \A t \in Threads : Runs(t)' => Runs(t)
  /\ \A c \in Clients \ {Owner} : pc'[c] \in DtorPcs => pc[c] \in DtorPcs
  /\ pc[Owner] = "dtorJoin" => pc'[Owner] = "dtorJoin"
  /\ pc'[Owner] = "gone" => pc[Owner] = "gone"

LEMMA OrdinaryInv ==
  ASSUME DtorInv, OrdinaryStep
  PROVE  DtorInv'
BY DEF DtorInv, OrdinaryStep, Registered, OwnerDeletes, InInventory

\* A process moves on, and may wake others.
Move(p, l) ==
  /\ pc'[p] = l
  /\ \A q \in Procs \ {p} :
        \/ pc'[q] = pc[q]
        \/ pc[q] = "sleep" /\ pc'[q] = "apply"
        \/ pc[q] = "finishWaiting" /\ pc'[q] = "finishTest"

LEMMA MoveForms ==
  ASSUME IInv, NEW p \in Procs, NEW l,
         Goto(p, l) \/ WakeThreads(p, l) \/ WakeFinish(p, l)
  PROVE  Move(p, l)
BY DEF IInv, TypeOK, Goto, WakeThreads, WakeFinish, Move

LEMMA OrdinaryMove ==
  ASSUME NEW p \in Procs, NEW l, Move(p, l), UNCHANGED <<m_inventory, joining>>,
         p \in Threads => Runs(p),
         p \in Clients => pc[p] \notin DtorPcs /\ l \notin DtorPcs
  PROVE  OrdinaryStep
BY ProcsDisjoint DEF Move, OrdinaryStep, Runs, DtorPcs, Procs

LEMMA OrdinarySetState ==
  ASSUME IInv, NEW p \in Procs, SetStateStep(p)
  PROVE  OrdinaryStep
<1>1. PICK l \in {"wait", "idle", "suspCheck", "suspSet", "activated"} :
        Goto(p, l) \/ WakeThreads(p, l)
  BY DEF SetStateStep, Activated, SuspCheck, SuspSet, AfterSetState
<1>2. pc[p] \in {"activated", "suspCheck", "suspSet"} /\ UNCHANGED poolVars
  BY DEF SetStateStep, Activated, SuspCheck, SuspSet, At
<1>3. Move(p, l)
  BY <1>1, MoveForms
<1> QED
  BY <1>2, <1>3, OrdinaryMove DEF Runs, DtorPcs, poolVars

\* A thread runs until it exits.
LEMMA OrdinaryWorker ==
  ASSUME IInv, NEW t \in Threads, Worker(t)
  PROVE  OrdinaryStep
<1>1. t \in Procs /\ t \notin Clients
  BY ProcsDisjoint DEF Procs
<1>2. CASE SetStateStep(t)
  BY <1>1, <1>2, OrdinarySetState
<1>3. CASE ~SetStateStep(t)
  <2>1. UNCHANGED poolVars /\ Runs(t)
    BY <1>3, ProcsDisjoint
       DEF Worker, ApplyForWork, LockQueue, PolicyAgrees, PolicyRefuses, TakeJob,
           NothingAvailable, IncActive, WaitForAvailableJob, Block, RunJob,
           FreePolicy, EmitDone, ForgetJob, DecActive, Scanning, At, Runs
  <2>2. \/ UNCHANGED pc
        \/ \E l \in ThreadPcs \union SetStatePcs : Goto(t, l) \/ WakeFinish(t, l)
    BY <1>3
       DEF Worker, ApplyForWork, LockQueue, PolicyAgrees, PolicyRefuses, TakeJob,
           NothingAvailable, IncActive, WaitForAvailableJob, Block, RunJob,
           FreePolicy, EmitDone, ForgetJob, DecActive, ThreadPcs, SetStatePcs
  <2>3. CASE UNCHANGED pc
    BY <2>1, <2>3 DEF OrdinaryStep, Runs, poolVars
  <2>4. CASE \E l \in ThreadPcs \union SetStatePcs : Goto(t, l) \/ WakeFinish(t, l)
    BY <1>1, <2>1, <2>4, MoveForms, OrdinaryMove DEF poolVars
  <2> QED
    BY <2>2, <2>3, <2>4
<1> QED
  BY <1>2, <1>3

\* The calls of clients that are not the destructor's.
LEMMA OrdinaryCall ==
  ASSUME IInv, NEW c \in Clients,
         \/ Suspend(c) \/ Resume(c) \/ Finish(c) \/ FinishTest(c)
         \/ FinishWait(c) \/ FinishTimeout(c) \/ Enqueue(c) \/ DequeueAll(c)
         \/ \E j \in Jobs : Dequeue(c, j) \/ DeleteJob(c, j)
         \/ \E n \in MaxValues : SetMaximumNumberOfThreads(c, n)
         \/ \E r \in Restrictions, n \in CapValues : SetCap(c, r, n)
  PROVE  OrdinaryStep
<1>1. /\ c \in Procs /\ c \notin Threads
      /\ pc \in [Procs -> ThreadPcs \cup ClientPcs \cup SetStatePcs]
  BY ProcsDisjoint DEF Procs, IInv, TypeOK
<1>2. CASE \/ Suspend(c) \/ Resume(c) \/ Finish(c) \/ FinishTest(c)
           \/ FinishWait(c) \/ FinishTimeout(c) \/ Enqueue(c)
  <2>1. UNCHANGED poolVars /\ pc[c] \notin DtorPcs
    BY <1>2 DEF Suspend, Resume, Finish, FinishTest, FinishWait, FinishTimeout,
                Enqueue, Calling, At, DtorPcs
  <2>2. \E l \in {"activated", "idle", "finishTest", "finishWait", "finishWaiting"} :
          Goto(c, l) \/ WakeThreads(c, l)
    BY <1>2 DEF Suspend, Resume, Finish, FinishTest, FinishWait, FinishTimeout,
                Enqueue
  <2> QED
    BY <1>1, <2>1, <2>2, MoveForms, OrdinaryMove DEF DtorPcs, poolVars
<1>3. CASE \E j \in Jobs : Dequeue(c, j)
  <2>1. UNCHANGED poolVars
    BY <1>3 DEF Dequeue
  <2>2. \/ UNCHANGED pc
        \/ \E w \in Clients : At(w, "finishWaiting") /\ Goto(w, "finishTest")
    BY <1>3 DEF Dequeue
  <2> QED
    BY <1>1, <2>1, <2>2, ProcsDisjoint
       DEF OrdinaryStep, Runs, poolVars, At, Goto, DtorPcs, Procs
<1>4. CASE \/ DequeueAll(c)
           \/ \E j \in Jobs : DeleteJob(c, j)
           \/ \E n \in MaxValues : SetMaximumNumberOfThreads(c, n)
           \/ \E r \in Restrictions, n \in CapValues : SetCap(c, r, n)
  <2>1. UNCHANGED <<m_inventory, joining, pc>>
    BY <1>4 DEF DequeueAll, DeleteJob, SetMaximumNumberOfThreads, SetCap, poolVars
  <2> QED
    BY <2>1 DEF OrdinaryStep, Runs
<1> QED
  BY <1>2, <1>3, <1>4

-----------------------------------------------------------------------------
(* A thread is started *)

LEMMA AdjustRegisters ==
  ASSUME IInv, DtorInv, NEW c \in Clients, NEW j \in Jobs, AdjustInventory(c, j)
  PROVE  DtorInv'
<1>1. /\ c \in Procs /\ c \notin Threads
      /\ pc \in [Procs -> ThreadPcs \cup ClientPcs \cup SetStatePcs]
      /\ m_inventory \in Seq(Threads) /\ Owner \in Clients
  BY ProcsDisjoint DEF Procs, IInv, TypeOK
<1>2. pc[c] = "idle" /\ pc[Owner] \notin DtorPcs /\ joining' = joining
  BY DEF AdjustInventory, Calling, At
<1>3. joining = NoThread
  BY <1>2 DEF DtorInv, OwnerDeletes, DtorPcs
<1>4. CASE Goto(c, "enqueue") /\ UNCHANGED m_inventory
  BY <1>1, <1>2, <1>4, MoveForms, OrdinaryMove, OrdinaryInv DEF DtorPcs
<1>5. ASSUME NEW t \in Threads, At(t, "none"),
             m_inventory' = Append(m_inventory, t),
             pc' = [pc EXCEPT ![t] = "apply", ![c] = "enqueue"]
      PROVE  DtorInv'
  <2>1. /\ Len(m_inventory') = Len(m_inventory) + 1
        /\ m_inventory'[Len(m_inventory) + 1] = t
        /\ \A n \in 1..Len(m_inventory) : m_inventory'[n] = m_inventory[n]
    BY <1>1, <1>5
  <2>2. \A u \in Threads : u = t \/ InInventory(u) => InInventory(u)'
    <3>1. Len(m_inventory) \in Nat
      BY <1>1
    <3> QED
      BY <2>1, <3>1 DEF InInventory
  <2>3. Registered'
    BY <1>1, <1>2, <1>5, <2>2 DEF DtorInv, Registered, Runs, Procs
  <2>4. OwnerDeletes'
    BY <1>1, <1>2, <1>3, <1>5, ProcsDisjoint DEF DtorInv, OwnerDeletes, DtorPcs, Procs
  <2> QED
    BY <2>3, <2>4 DEF DtorInv
<1> QED
  BY <1>4, <1>5 DEF AdjustInventory

-----------------------------------------------------------------------------
(* The destructor *)

LEMMA DtorWaits ==
  ASSUME IInv, DtorInv, NEW c \in Clients,
         ShutDown(c) \/ DtorWake(c) \/ DtorRetry(c)
  PROVE  DtorInv'
<1>1. c \in Procs /\ c \notin Threads
  BY ProcsDisjoint DEF Procs
<1>2. c = Owner /\ UNCHANGED poolVars
  BY DEF ShutDown, DtorWake, DtorRetry, At, DtorInv, OwnerDeletes, DtorPcs
<1>3. PICK l \in {"dtorWake", "dtorNext", "dtorJoin"} :
        Move(c, l) /\ (pc[c] = "dtorJoin" => l = "dtorJoin")
  BY <1>1, MoveForms DEF ShutDown, DtorWake, DtorRetry, Calling, At
<1>4. OrdinaryStep
  BY <1>1, <1>2, <1>3, ProcsDisjoint
     DEF Move, OrdinaryStep, Runs, DtorPcs, Procs, poolVars
<1> QED
  BY <1>4, OrdinaryInv

\* The next thread leaves the inventory and is the one being joined.
LEMMA DtorNextInv ==
  ASSUME IInv, DtorInv, NEW c \in Clients, DtorNext(c)
  PROVE  DtorInv'
<1>1. /\ c \in Procs /\ c \notin Threads
      /\ pc \in [Procs -> ThreadPcs \cup ClientPcs \cup SetStatePcs]
      /\ m_inventory \in Seq(Threads) /\ m_inventory # <<>>
  BY ProcsDisjoint DEF Procs, IInv, TypeOK, DtorNext
<1>2. c = Owner /\ pc[c] = "dtorNext" /\ joining = NoThread
  BY DEF DtorNext, At, DtorInv, OwnerDeletes, DtorPcs
<1>3. Move(c, "dtorJoin") /\ \A q \in Procs \ {c} : pc'[q] = pc[q]
  BY <1>1 DEF DtorNext, Goto, Move
<1>4. \A u \in Threads : InInventory(u) => u = joining' \/ InInventory(u)'
  <2> SUFFICES ASSUME NEW n \in 1..Len(m_inventory), n # 1
               PROVE  \E k \in 1..Len(m_inventory') : m_inventory'[k] = m_inventory[n]
    BY <1>1 DEF DtorNext, InInventory
  <2>1. Len(m_inventory) \in Nat
    BY <1>1
  <2>2. Len(m_inventory') = Len(m_inventory) - 1 /\ n - 1 \in 1..Len(m_inventory')
    BY <1>1, <2>1 DEF DtorNext
  <2>3. m_inventory'[n - 1] = m_inventory[n]
    BY <1>1, <2>1, <2>2 DEF DtorNext
  <2> QED
    BY <2>2, <2>3
<1>5. Registered'
  BY <1>1, <1>2, <1>3, <1>4, ProcsDisjoint
     DEF DtorInv, Registered, Runs, IInv, TypeOK, Procs
<1>6. OwnerDeletes'
  BY <1>1, <1>2, <1>3, ProcsDisjoint DEF Move, DtorInv, OwnerDeletes, DtorPcs, Procs
<1> QED
  BY <1>5, <1>6 DEF DtorInv

\* Only a thread that has exited is forgotten.
LEMMA DtorJoinedInv ==
  ASSUME IInv, DtorInv, NEW c \in Clients, DtorJoined(c)
  PROVE  DtorInv'
<1>1. /\ c \in Procs /\ c \notin Threads
      /\ pc \in [Procs -> ThreadPcs \cup ClientPcs \cup SetStatePcs]
  BY ProcsDisjoint DEF Procs, IInv, TypeOK
<1>2. /\ c = Owner /\ pc' = [pc EXCEPT ![c] = "dtorNext"] /\ m_inventory' = m_inventory
      /\ joining' = NoThread /\ pc[joining] = "exited"
  BY DEF DtorJoined, At, Goto, DtorInv, OwnerDeletes, DtorPcs
<1>3. Registered'
  BY <1>1, <1>2 DEF DtorInv, Registered, Runs, InInventory, Procs
<1>4. OwnerDeletes'
  BY <1>1, <1>2, ProcsDisjoint DEF DtorInv, OwnerDeletes, DtorPcs, Procs
<1> QED
  BY <1>3, <1>4 DEF DtorInv

LEMMA DtorEndInv ==
  ASSUME IInv, DtorInv, NEW c \in Clients, DtorEnd(c)
  PROVE  DtorInv'
<1>1. /\ c \in Procs /\ c \notin Threads
      /\ pc \in [Procs -> ThreadPcs \cup ClientPcs \cup SetStatePcs]
  BY ProcsDisjoint DEF Procs, IInv, TypeOK
<1>2. /\ c = Owner /\ pc' = [pc EXCEPT ![c] = "gone"]
      /\ m_inventory = <<>> /\ UNCHANGED <<m_inventory, joining>>
      /\ joining = NoThread
  BY DEF DtorEnd, At, Goto, DtorInv, OwnerDeletes, DtorPcs, poolVars
<1>3. Registered'
  BY <1>1, <1>2 DEF DtorInv, Registered, Runs, InInventory, Procs
<1>4. OwnerDeletes'
  BY <1>1, <1>2, ProcsDisjoint DEF DtorInv, OwnerDeletes, DtorPcs, Procs
<1> QED
  BY <1>3, <1>4 DEF DtorInv

-----------------------------------------------------------------------------
(* The theorem *)

LEMMA InitDtor == Init => DtorInv
BY ProcsDisjoint
   DEF Init, DtorInv, Registered, OwnerDeletes, Runs, DtorPcs, Procs

LEMMA NextDtor ==
  ASSUME IInv, DtorInv, [Next]_vars
  PROVE  DtorInv'
<1>1. CASE UNCHANGED vars
  BY <1>1, OrdinaryInv DEF vars, poolVars, OrdinaryStep, Runs
<1>2. CASE \E t \in Threads : Worker(t)
  BY <1>2, OrdinaryWorker, OrdinaryInv
<1>3. CASE \E c \in Clients : ClientStep(c)
  BY <1>3, OrdinaryCall, OrdinarySetState, OrdinaryInv, DtorWaits, DtorNextInv,
     DtorJoinedInv, DtorEndInv DEF ClientStep, Procs
<1>4. CASE \E c \in Clients : ClientCall(c)
  <2>1. PICK c \in Clients : ClientCall(c)
    BY <1>4
  <2>2. CASE \E j \in Jobs : AdjustInventory(c, j)
    BY <2>2, AdjustRegisters
  <2>3. CASE ShutDown(c)
    BY <2>3, DtorWaits
  <2> QED
    BY <2>1, <2>2, <2>3, OrdinaryCall, OrdinaryInv DEF ClientCall
<1> QED
  BY <1>1, <1>2, <1>3, <1>4 DEF Next

\* When ~WeaverImpl returns every thread that was ever started has exited and
\* holds no job, though enqueue may have started threads up to the last moment.
THEOREM DestructorJoinsAll == Spec => []DestructorLeavesNoThread
<1>1. IInv /\ DtorInv => DestructorLeavesNoThread
  <2> SUFFICES ASSUME IInv, DtorInv, pc[Owner] = "gone", NEW t \in Threads
               PROVE  pc[t] \in {"none", "exited"} /\ job[t] = NoJob
    BY DEF DestructorLeavesNoThread, At
  <2>1. joining = NoThread /\ m_inventory = <<>>
    BY DEF DtorInv, OwnerDeletes
  <2>2. ~InInventory(t) /\ t # joining
    BY <2>1, ProcsDisjoint DEF InInventory, Procs
  <2>3. pc[t] \in {"none", "exited"}
    BY <2>2 DEF DtorInv, Registered, Runs
  <2> QED
    BY <2>3 DEF IInv, HoldInv, Holding
<1>2. Spec => []DtorInv
  BY InitDtor, NextDtor, Invariance, PTL DEF Spec
<1> QED
  BY <1>1, <1>2, Invariance, PTL

-----------------------------------------------------------------------------
(* Policies and permissions *)

\* A job that was taken and has not run yet.
Ready == {"taken", "execute"}

\* The places where the position in the list of policies means something.
Tracked == {"scan", "free"} \cup Ready

-----------------------------------------------------------------------------
(* Steps in which no job, no permission and no dependency takes part *)

SilentStep ==
  /\ UNCHANGED <<succeeded, deleted, dependencies, customers, m_mutex>>
  /\ \A t \in Threads : pc[t] \in Tracked \/ pc'[t] \in Tracked =>
        pc'[t] = pc[t] /\ job'[t] = job[t] /\ policy'[t] = policy[t]
  /\ m_mutex = NoThread \/ UNCHANGED <<m_assignments, index>>

LEMMA SilentWorker ==
  ASSUME IInv, NEW t \in Threads,
         \/ ApplyForWork(t) \/ WaitForAvailableJob(t) \/ Block(t)
         \/ ForgetJob(t) \/ DecActive(t)
  PROVE  SilentStep
<1>1. /\ t \in Procs
      /\ pc \in [Procs -> ThreadPcs \cup ClientPcs \cup SetStatePcs]
      /\ job \in [Procs -> Jobs \cup {NoJob}]
  BY DEF IInv, TypeOK, Procs
<1>2. UNCHANGED <<succeeded, deleted, dependencies, customers, m_assignments,
                  index, m_mutex, policy>>
  BY DEF ApplyForWork, WaitForAvailableJob, Block, ForgetJob, DecActive,
         jobVars, policyVars, scanVars
<1>3. \A u \in Threads : pc[u] \in Tracked \/ pc'[u] \in Tracked =>
        pc'[u] = pc[u] /\ job'[u] = job[u]
  <2>1. CASE ApplyForWork(t) \/ WaitForAvailableJob(t) \/ Block(t)
    <3>1. \E l \in {"take", "suspCheck", "wait", "exited", "apply", "block", "sleep"} :
            Goto(t, l)
      BY <2>1 DEF ApplyForWork, WaitForAvailableJob, Block
    <3>2. UNCHANGED job /\ pc[t] \in {"apply", "wait", "block"}
      BY <2>1 DEF ApplyForWork, WaitForAvailableJob, Block, At
    <3> QED BY <1>1, <3>1, <3>2 DEF Goto, Tracked, Ready, Procs
  <2>2. CASE ForgetJob(t)
    BY <1>1, <2>2 DEF ForgetJob, At, Goto, Tracked, Ready, Procs
  <2>3. CASE DecActive(t)
    BY <1>1, <2>3 DEF DecActive, At, WakeFinish, Tracked, Ready, Procs
  <2> QED BY <2>1, <2>2, <2>3
<1> QED BY <1>2, <1>3 DEF SilentStep

LEMMA SilentSetState ==
  ASSUME IInv, NEW p \in Procs, SetStateStep(p)
  PROVE  SilentStep
<1>1. pc \in [Procs -> ThreadPcs \cup ClientPcs \cup SetStatePcs]
  BY DEF IInv, TypeOK
<1>2. UNCHANGED <<succeeded, deleted, dependencies, customers, m_assignments,
                  index, m_mutex, job, policy>>
  BY DEF SetStateStep, Activated, SuspCheck, SuspSet, jobVars, policyVars, scanVars
<1>3. PICK l \in {"wait", "idle", "suspCheck", "suspSet", "activated"} :
        Goto(p, l) \/ WakeThreads(p, l)
  BY DEF SetStateStep, Activated, SuspCheck, SuspSet, AfterSetState
<1>4. pc[p] \in {"suspCheck", "suspSet", "activated"}
  BY DEF SetStateStep, Activated, SuspCheck, SuspSet, At
<1>5. \A u \in Threads : pc[u] \in Tracked \/ pc'[u] \in Tracked => pc'[u] = pc[u]
  BY <1>1, <1>3, <1>4 DEF Goto, WakeThreads, Tracked, Ready, Procs
<1> QED BY <1>2, <1>5 DEF SilentStep

\* Calls that leave the queue alone.
LEMMA SilentClient ==
  ASSUME IInv, NEW c \in Clients,
         \/ Suspend(c) \/ Resume(c) \/ ShutDown(c) \/ Finish(c)
         \/ FinishTest(c) \/ FinishWait(c) \/ FinishTimeout(c)
         \/ DtorWake(c) \/ DtorNext(c) \/ DtorJoined(c) \/ DtorRetry(c)
         \/ DtorEnd(c)
  PROVE  SilentStep
<1>1. /\ c \in Procs /\ c \notin Threads
      /\ pc \in [Procs -> ThreadPcs \cup ClientPcs \cup SetStatePcs]
  BY ProcsDisjoint DEF IInv, TypeOK, Procs
<1>2. UNCHANGED <<succeeded, deleted, dependencies, customers, m_assignments,
                  index, m_mutex, job, policy>>
  BY DEF Suspend, Resume, ShutDown, Finish, FinishTest, FinishWait,
         FinishTimeout, DtorWake, DtorNext, DtorJoined, DtorRetry, DtorEnd,
         jobVars, policyVars, scanVars
<1> DEFINE L == {"activated", "dtorWake", "dtorNext", "dtorJoin", "gone",
                 "idle", "finishTest", "finishWait", "finishWaiting"}
<1>3. PICK l \in L : Goto(c, l) \/ WakeThreads(c, l)
  BY DEF Suspend, Resume, ShutDown, Finish, FinishTest, FinishWait,
         FinishTimeout, DtorWake, DtorNext, DtorJoined, DtorRetry, DtorEnd
<1>4. \A u \in Threads : pc[u] \in Tracked \/ pc'[u] \in Tracked => pc'[u] = pc[u]
  BY <1>1, <1>3 DEF Goto, WakeThreads, Tracked, Ready, Procs
<1> QED BY <1>2, <1>4 DEF SilentStep

\* Calls that change the queue need m_mutex; the others change neither the
\* queue nor what the policies have given.
LEMMA SilentCall ==
  ASSUME IInv, NEW c \in Clients,
         \/ Enqueue(c) \/ DequeueAll(c)
         \/ \E j \in Jobs : AdjustInventory(c, j) \/ Dequeue(c, j)
         \/ \E n \in MaxValues : SetMaximumNumberOfThreads(c, n)
         \/ \E r \in Restrictions, n \in CapValues : SetCap(c, r, n)
  PROVE  SilentStep
<1>1. /\ c \in Procs /\ c \notin Threads
      /\ pc \in [Procs -> ThreadPcs \cup ClientPcs \cup SetStatePcs]
      /\ job \in [Procs -> Jobs \cup {NoJob}]
  BY ProcsDisjoint DEF IInv, TypeOK, Procs
<1>2. UNCHANGED <<succeeded, deleted, dependencies, customers, m_mutex, policy>>
  BY DEF Enqueue, DequeueAll, AdjustInventory, Dequeue, SetCap, setCap,
         SetMaximumNumberOfThreads, jobVars, policyVars, scanVars
<1>3. m_mutex = NoThread \/ UNCHANGED <<m_assignments, index>>
  BY DEF Enqueue, DequeueAll, AdjustInventory, Dequeue, SetCap, MutexFree,
         SetMaximumNumberOfThreads, scanVars
<1>4. \A u \in Threads : job'[u] = job[u]
  BY <1>1 DEF Enqueue, DequeueAll, AdjustInventory, Dequeue, SetCap,
              SetMaximumNumberOfThreads, Procs
<1>5. \A u \in Threads : pc[u] \in Tracked \/ pc'[u] \in Tracked => pc'[u] = pc[u]
  <2>1. CASE Enqueue(c)
    BY <1>1, <2>1 DEF Enqueue, WakeThreads, Tracked, Ready, Procs
  <2>2. ASSUME NEW j \in Jobs, AdjustInventory(c, j)
        PROVE  \A u \in Threads :
                 pc[u] \in Tracked \/ pc'[u] \in Tracked => pc'[u] = pc[u]
    BY <1>1, <2>2 DEF AdjustInventory, At, Goto, Tracked, Ready, Procs
  <2>3. ASSUME NEW j \in Jobs, Dequeue(c, j)
        PROVE  \A u \in Threads : pc'[u] = pc[u]
    BY <1>1, <2>3, ProcsDisjoint DEF Dequeue, Goto, Procs
  <2>4. CASE \/ DequeueAll(c)
             \/ \E n \in MaxValues : SetMaximumNumberOfThreads(c, n)
             \/ \E r \in Restrictions, n \in CapValues : SetCap(c, r, n)
    BY <2>4 DEF DequeueAll, SetMaximumNumberOfThreads, SetCap
  <2> QED BY <2>1, <2>2, <2>3, <2>4
<1> QED BY <1>2, <1>3, <1>4, <1>5 DEF SilentStep

\* Every other step is one of a scan, of an execution, or a deletion.
LEMMA StepCases ==
  ASSUME IInv, [Next]_vars
  PROVE  \/ SilentStep
         \/ \E t \in Threads :
              \/ LockQueue(t) \/ PolicyAgrees(t) \/ PolicyRefuses(t)
              \/ TakeJob(t) \/ NothingAvailable(t)
              \/ IncActive(t) \/ RunJob(t) \/ FreePolicy(t) \/ EmitDone(t)
         \/ \E c \in Clients, j \in Jobs : DeleteJob(c, j)
<1>1. CASE UNCHANGED vars
  BY <1>1 DEF SilentStep, vars, jobVars, scanVars, policyVars
<1>2. ASSUME NEW t \in Threads, SetStateStep(t) PROVE SilentStep
  BY <1>2, SilentSetState DEF Procs
<1>3. ASSUME NEW c \in Clients, SetStateStep(c) PROVE SilentStep
  BY <1>3, SilentSetState DEF Procs
<1>4. CASE \E t \in Threads : Worker(t)
  BY <1>2, <1>4, SilentWorker DEF Worker
<1>5. CASE \E c \in Clients : ClientStep(c) \/ ClientCall(c)
  BY <1>3, <1>5, SilentClient, SilentCall DEF ClientStep, ClientCall
<1> QED BY <1>1, <1>4, <1>5 DEF Next

-----------------------------------------------------------------------------
(* Dependencies *)

\* A dependency goes away only with a success or a deletion.
ResolvedInv ==
  /\ dependencies \subseteq InitialDependencies
  /\ \A d \in InitialDependencies \ dependencies : d[2] \in succeeded \cup deleted

\* Once the DependencyPolicy has agreed, the job being scanned is free.
ScanResolvedInv ==
  \A t \in Threads : Scanning(t) =>
    \A n \in 1..Len(ScannedPolicies) :
      n < policy[t] /\ ScannedPolicies[n] = DependencyPolicy
        => ~hasUnresolvedDependencies(Scanned)

ReadyResolvedInv ==
  \A t \in Threads : pc[t] \in Ready => ~hasUnresolvedDependencies(job[t])

DInv == ResolvedInv /\ ScanResolvedInv /\ ReadyResolvedInv

\* What a step may do to the dependencies.
Resolving ==
  /\ dependencies' \subseteq dependencies
  /\ \A d \in dependencies \ dependencies' : d[2] \in succeeded' \cup deleted'
  /\ succeeded \subseteq succeeded' /\ deleted \subseteq deleted'

\* No thread begins to scan or takes a job, and what one scans stays put.
NoScanStep ==
  \A t \in Threads :
    /\ pc'[t] = "scan" => /\ pc[t] = "scan" /\ policy'[t] = policy[t]
                          /\ UNCHANGED <<m_assignments, index>>
    /\ pc'[t] \in Ready => pc[t] \in Ready /\ job'[t] = job[t]

LEMMA ResolvingInv ==
  ASSUME ResolvedInv, Resolving
  PROVE  ResolvedInv'
BY DEF ResolvedInv, Resolving

LEMMA NoScanStepInv ==
  ASSUME DInv, Resolving, NoScanStep
  PROVE  DInv'
<1>1. ASSUME NEW j, ~hasUnresolvedDependencies(j)
      PROVE  ~hasUnresolvedDependencies(j)'
  BY <1>1 DEF hasUnresolvedDependencies, Resolving
<1>2. ScanResolvedInv'
  BY <1>1 DEF DInv, ScanResolvedInv, Scanning, At, NoScanStep, Scanned,
              ScannedPolicies
<1>3. ReadyResolvedInv'
  BY <1>1 DEF DInv, ReadyResolvedInv, NoScanStep
<1> QED BY <1>2, <1>3, ResolvingInv DEF DInv

LEMMA SilentResolved ==
  ASSUME IInv, DInv, SilentStep
  PROVE  DInv'
<1>1. Resolving
  BY DEF Resolving, SilentStep
<1>2. NoScanStep
  BY ProcsDisjoint DEF NoScanStep, SilentStep, IInv, LockInv, Tracked, Ready, Procs
<1> QED BY <1>1, <1>2, NoScanStepInv

LEMMA LockQueueResolved ==
  ASSUME IInv, DInv, NEW t \in Threads, LockQueue(t)
  PROVE  DInv'
<1>1. /\ UNCHANGED <<job, succeeded, deleted, dependencies, m_assignments>>
      /\ policy' = [policy EXCEPT ![t] = 1] /\ policy \in [Threads -> Nat \ {0}]
      /\ m_mutex = NoThread /\ LockInv
      /\ \A u \in Threads \ {t} : pc'[u] = pc[u]
      /\ pc'[t] = "scan"
  BY DEF LockQueue, Goto, MutexFree, jobVars, policyVars, IInv, TypeOK, Procs
<1>2. ResolvedInv'
  BY <1>1 DEF DInv, ResolvedInv
<1>3. \A u \in Threads \ {t} : pc'[u] # "scan"
  BY <1>1, ProcsDisjoint DEF LockInv, Procs
<1>4. \A n \in 1..Len(ScannedPolicies)' : ~(n < policy'[t])
  BY <1>1
<1>5. ScanResolvedInv'
  BY <1>3, <1>4 DEF ScanResolvedInv, Scanning, At
<1>6. ReadyResolvedInv'
  BY <1>1 DEF DInv, ReadyResolvedInv, Ready, hasUnresolvedDependencies
<1> QED BY <1>2, <1>5, <1>6 DEF DInv

\* The answer of the DependencyPolicy is recorded in the position reached.
LEMMA PolicyAgreesResolved ==
  ASSUME IInv, DInv, NEW t \in Threads, PolicyAgrees(t)
  PROVE  DInv'
<1>1. /\ UNCHANGED <<job, pc, succeeded, deleted, dependencies, m_assignments, index>>
      /\ policy' = [policy EXCEPT ![t] = @ + 1] /\ policy \in [Threads -> Nat \ {0}]
      /\ Scanning(t) /\ canRun(ScannedPolicies[policy[t]], Scanned)
      /\ LockInv
  BY DEF PolicyAgrees, acquire, jobVars, scanVars, IInv, TypeOK
<1>2. ResolvedInv' /\ ReadyResolvedInv'
  BY <1>1 DEF DInv, ResolvedInv, ReadyResolvedInv, hasUnresolvedDependencies
<1>3. \A u \in Threads : Scanning(u)' => u = t
  BY <1>1 DEF Scanning, At, LockInv
<1>4. ASSUME NEW n \in 1..Len(ScannedPolicies),
             n < policy'[t], ScannedPolicies[n] = DependencyPolicy
      PROVE  ~hasUnresolvedDependencies(Scanned)
  <2>1. CASE n = policy[t]
    BY <1>1, <1>4, <2>1, PolicyIdentity DEF canRun
  <2>2. CASE n < policy[t]
    BY <1>1, <1>4, <2>2 DEF DInv, ScanResolvedInv
  <2> QED BY <1>1, <1>4, <2>1, <2>2
<1>5. UNCHANGED <<Scanned, ScannedPolicies, hasUnresolvedDependencies(Scanned)>>
  BY <1>1 DEF Scanned, ScannedPolicies, hasUnresolvedDependencies
<1>6. ScanResolvedInv'
  BY <1>3, <1>4, <1>5 DEF ScanResolvedInv
<1> QED BY <1>2, <1>6 DEF DInv

LEMMA PolicyRefusesResolved ==
  ASSUME IInv, DInv, NEW t \in Threads, PolicyRefuses(t)
  PROVE  DInv'
<1>1. /\ UNCHANGED <<job, pc, succeeded, deleted, dependencies, m_assignments>>
      /\ policy' = [policy EXCEPT ![t] = 1] /\ policy \in [Threads -> Nat \ {0}]
      /\ pc[t] = "scan" /\ LockInv
  BY DEF PolicyRefuses, release, Scanning, At, jobVars, IInv, TypeOK
<1>2. ResolvedInv' /\ ReadyResolvedInv'
  BY <1>1 DEF DInv, ResolvedInv, ReadyResolvedInv, hasUnresolvedDependencies
<1>3. \A u \in Threads : Scanning(u)' => u = t
  BY <1>1 DEF Scanning, At, LockInv
<1>4. \A n \in 1..Len(ScannedPolicies)' : ~(n < policy'[t])
  BY <1>1
<1>5. ScanResolvedInv'
  BY <1>3, <1>4 DEF ScanResolvedInv
<1> QED BY <1>2, <1>5 DEF DInv

\* All policies have agreed, the DependencyPolicy among them if the job
\* depends on anything.
LEMMA TakeJobResolved ==
  ASSUME IInv, DInv, NEW t \in Threads, TakeJob(t)
  PROVE  DInv'
<1>1. /\ UNCHANGED <<succeeded, deleted, dependencies>>
      /\ \A u \in Threads \ {t} : pc'[u] = pc[u] /\ job'[u] = job[u]
      /\ pc[t] = "scan" /\ pc'[t] = "taken" /\ job'[t] = Scanned
      /\ Scanning(t) /\ policy[t] > Len(ScannedPolicies)
      /\ LockInv
  BY DEF TakeJob, Goto, Scanning, At, jobVars, policyVars, IInv, TypeOK, Procs
<1>2. ResolvedInv'
  BY <1>1 DEF DInv, ResolvedInv
<1>3. \A u \in Threads : pc'[u] # "scan"
  BY <1>1 DEF LockInv
<1>4. ScanResolvedInv'
  BY <1>3 DEF ScanResolvedInv, Scanning, At
<1>5. ~hasUnresolvedDependencies(Scanned)
  <2> SUFFICES ASSUME NEW d \in dependencies, d[1] = Scanned
               PROVE  FALSE
    BY DEF hasUnresolvedDependencies
  <2>1. d \in InitialDependencies
    BY DEF DInv, ResolvedInv
  <2>2. DependencyPolicy \in ToSet(ScannedPolicies) /\ d[1] \in Jobs
    BY <2>1, DependenciesAssigned DEF ScannedPolicies
  <2>3. ScannedPolicies \in Seq(Policies)
    BY <2>2, PoliciesAssigned DEF ScannedPolicies
  <2>4. PICK n \in 1..Len(ScannedPolicies) : ScannedPolicies[n] = DependencyPolicy
    BY <2>2, <2>3 DEF ToSet
  <2>5. n < policy[t]
    BY <1>1, <2>3 DEF IInv, TypeOK
  <2> QED BY <1>1, <2>4, <2>5 DEF DInv, ScanResolvedInv, hasUnresolvedDependencies
<1>6. ReadyResolvedInv'
  <2>1. UNCHANGED dependencies
    BY <1>1
  <2> QED BY <1>1, <1>5, <2>1 DEF DInv, ReadyResolvedInv, Ready, hasUnresolvedDependencies
<1> QED BY <1>2, <1>4, <1>6 DEF DInv

LEMMA NothingAvailableResolved ==
  ASSUME IInv, DInv, NEW t \in Threads, NothingAvailable(t)
  PROVE  DInv'
<1>1. Resolving
  BY DEF NothingAvailable, Resolving, jobVars, policyVars
<1>2. /\ \A u \in Threads \ {t} : pc'[u] = pc[u]
      /\ pc[t] = "scan" /\ pc'[t] = "wait" /\ UNCHANGED job
  BY DEF NothingAvailable, At, Goto, IInv, TypeOK, Procs
<1>3. NoScanStep
  BY <1>2 DEF NoScanStep, Ready, IInv, LockInv
<1> QED BY <1>1, <1>3, NoScanStepInv

LEMMA ExecuteResolved ==
  ASSUME IInv, DInv, NEW t \in Threads,
         IncActive(t) \/ RunJob(t) \/ FreePolicy(t) \/ EmitDone(t)
  PROVE  DInv'
<1>1. /\ UNCHANGED <<m_assignments, index, job>>
      /\ \A u \in Threads : pc'[u] = "scan" => pc[u] = "scan" /\ policy'[u] = policy[u]
      /\ \A u \in Threads : pc'[u] \in Ready => pc[u] \in Ready
  <2>1. pc \in [Procs -> ThreadPcs \cup ClientPcs \cup SetStatePcs]
        /\ policy \in [Threads -> Nat \ {0}]
    BY DEF IInv, TypeOK
  <2>2. CASE IncActive(t)
    BY <2>1, <2>2 DEF IncActive, At, Goto, Ready, Procs, scanVars
  <2>3. CASE RunJob(t)
    BY <2>1, <2>3 DEF RunJob, At, Goto, Ready, Procs, scanVars
  <2>4. CASE FreePolicy(t)
    BY <2>1, <2>4 DEF FreePolicy, At, Ready, Procs, scanVars
  <2>5. CASE EmitDone(t)
    BY <2>1, <2>5 DEF EmitDone, At, Goto, Ready, Procs, scanVars
  <2> QED BY <2>2, <2>3, <2>4, <2>5
<1>2. NoScanStep
  BY <1>1 DEF NoScanStep
<1>3. Resolving
  <2>1. CASE IncActive(t)
    BY <2>1 DEF IncActive, Resolving, jobVars, policyVars
  <2>2. CASE RunJob(t)
    BY <2>2 DEF RunJob, Resolving, policyVars
  <2>3. CASE FreePolicy(t)
    BY <2>3 DEF FreePolicy, free, release, resolveDependencies, Resolving, jobVars
  <2>4. CASE EmitDone(t)
    BY <2>4 DEF EmitDone, Resolving, jobVars, policyVars
  <2> QED BY <2>1, <2>2, <2>3, <2>4
<1> QED BY <1>2, <1>3, NoScanStepInv

LEMMA DeleteJobResolved ==
  ASSUME IInv, DInv, NEW c \in Clients, NEW j \in Jobs, DeleteJob(c, j)
  PROVE  DInv'
<1>1. NoScanStep
  BY DEF DeleteJob, NoScanStep, scanVars
<1>2. Resolving
  BY DEF DeleteJob, destructed, resolveDependencies, Resolving
<1> QED BY <1>1, <1>2, NoScanStepInv

LEMMA NextResolved == IInv /\ DInv /\ [Next]_vars => DInv'
BY StepCases, SilentResolved, LockQueueResolved, PolicyAgreesResolved,
   PolicyRefusesResolved, TakeJobResolved, NothingAvailableResolved,
   ExecuteResolved, DeleteJobResolved

LEMMA InitResolved == Init => DInv
<1> SUFFICES ASSUME Init PROVE DInv
  OBVIOUS
<1>1. \A t \in Threads : pc[t] = "none"
  BY DEF Init, Procs
<1> QED BY <1>1 DEF Init, PolicyInit, DInv, ResolvedInv, ScanResolvedInv,
           ReadyResolvedInv, Ready, Scanning, At

\* No job starts before every job it depends on has succeeded or has been
\* deleted, whatever is queued, dequeued, failed or deleted meanwhile.
THEOREM DependenciesAreHonoured == Spec => []DependenciesHonoured
<1>1. DInv => DependenciesHonoured
  BY DEF DInv, ResolvedInv, ReadyResolvedInv, Ready, DependenciesHonoured,
         hasUnresolvedDependencies
<1>2. Spec => []DInv
  BY Invariance, InitResolved, NextResolved, PTL DEF Spec
<1> QED BY <1>1, <1>2, PTL

-----------------------------------------------------------------------------
(* Permissions *)

\* The position in the list of policies: no further than its end in a scan,
\* at its beginning in the hands of a thread.
PositionInv ==
  \A t \in Threads :
    /\ Scanning(t) => policy[t] <= Len(ScannedPolicies) + 1
    /\ pc[t] \in Ready => policy[t] = 1

\* The two ways to hold the permission of r.
ScanHolds(r, j) ==
  \E t \in Threads :
    /\ Scanning(t) /\ Scanned = j
    /\ \E n \in 1..Len(ScannedPolicies) : n < policy[t] /\ ScannedPolicies[n] = r

ThreadHolds(t, r, j) ==
  /\ job[t] = j
  /\ \/ pc[t] \in Ready /\ r \in ToSet(queuePolicies[j])
     \/ /\ pc[t] = "free"
        /\ \E n \in policy[t]..Len(queuePolicies[j]) : queuePolicies[j][n] = r

Holders(r) ==
  {j \in Jobs : ScanHolds(r, j) \/ \E t \in Threads : ThreadHolds(t, r, j)}

ListInv ==
  \A r \in Restrictions :
    IsInjective(customers[r]) /\ ToSet(customers[r]) = Holders(r)

PInv == PositionInv /\ ListInv

LEMMA ListsOfPolicies ==
  ASSUME NEW j \in Jobs
  PROVE  /\ queuePolicies[j] \in Seq(Policies) /\ Len(queuePolicies[j]) \in Nat
         /\ \A n \in 1..Len(queuePolicies[j]) : queuePolicies[j][n] \in Policies
         /\ \A m, n \in 1..Len(queuePolicies[j]) :
              queuePolicies[j][m] = queuePolicies[j][n] => m = n
         /\ \A r : r \in ToSet(queuePolicies[j])
              <=> \E n \in 1..Len(queuePolicies[j]) : queuePolicies[j][n] = r
<1>1. queuePolicies[j] \in Seq(Policies)
  BY PoliciesAssigned
<1>2. /\ Len(queuePolicies[j]) \in Nat
      /\ \A n \in 1..Len(queuePolicies[j]) : queuePolicies[j][n] \in Policies
      /\ DOMAIN queuePolicies[j] = 1..Len(queuePolicies[j])
  BY <1>1, ElementOfSeq, LenProperties
<1> QED BY <1>1, <1>2, PoliciesAssigned DEF ToSet

LEMMA ScannedJob ==
  ASSUME IInv, NEW t \in Threads, Scanning(t)
  PROVE  /\ Scanned \in Jobs /\ Scanned \in Queued /\ m_mutex = t
         /\ \A u \in Threads : job[u] # Scanned
         /\ index \in 1..Len(m_assignments)
<1>1. /\ m_assignments \in Seq(Jobs) /\ index \in 1..Len(m_assignments)
      /\ m_mutex = t
  BY DEF IInv, TypeOK, Scanning, At, LockInv
<1>2. Scanned \in Jobs /\ Scanned \in Queued
  BY <1>1, ElementOfSeq, LenProperties DEF Scanned, Queued, ToSet
<1> QED BY <1>1, <1>2 DEF IInv, JobsAreExclusive, Procs

LEMMA HoldersAre ==
  ASSUME IInv, PositionInv, NEW r \in Restrictions, NEW j \in Jobs
  PROVE  HoldsPermission(r, j) <=> j \in Holders(r)
<1>1. ScanHolds(r, j) <=>
        /\ m_mutex # NoThread
        /\ index <= Len(m_assignments) /\ Scanned = j
        /\ \E n \in 1..(policy[m_mutex] - 1) : ScannedPolicies[n] = r
  <2>1. m_mutex # NoThread <=> \E t \in Threads : pc[t] = "scan" /\ m_mutex = t
    BY ProcsDisjoint DEF IInv, TypeOK, LockInv, Procs
  <2>2. CASE m_mutex = NoThread
    BY <2>1, <2>2, ProcsDisjoint DEF ScanHolds, Scanning, At, IInv, LockInv, Procs
  <2>3. ASSUME NEW t \in Threads, pc[t] = "scan", m_mutex = t,
               index <= Len(m_assignments), Scanned = j
        PROVE  (\E n \in 1..(policy[t] - 1) : ScannedPolicies[n] = r)
               <=> \E n \in 1..Len(ScannedPolicies) :
                     n < policy[t] /\ ScannedPolicies[n] = r
    <3>1. policy[t] <= Len(ScannedPolicies) + 1
      BY <2>3 DEF PositionInv, Scanning, At
    <3>2. policy[t] \in Nat /\ Len(ScannedPolicies) \in Nat
      BY <2>3, ListsOfPolicies DEF IInv, TypeOK, ScannedPolicies
    <3> QED BY <3>1, <3>2
  <2> QED BY <2>1, <2>2, <2>3 DEF ScanHolds, Scanning, At, IInv, LockInv
<1> QED BY <1>1 DEF HoldsPermission, Holders, ThreadHolds, Ready

\* Nobody gets or gives back a permission.
LEMMA SameHolders ==
  ASSUME ListInv, UNCHANGED customers,
         \A r \in Restrictions, j \in Jobs : j \in Holders(r)' <=> j \in Holders(r)
  PROVE  ListInv'
<1>1. \A r \in Restrictions : Holders(r)' = Holders(r)
  BY DEF Holders
<1> QED BY <1>1 DEF ListInv

LEMMA SilentPermissions ==
  ASSUME IInv, PInv, SilentStep
  PROVE  PInv'
<1>1. \A t \in Threads :
        Scanning(t)' \/ Scanning(t) =>
          /\ Scanning(t)' /\ Scanning(t) /\ policy'[t] = policy[t]
          /\ UNCHANGED <<Scanned, ScannedPolicies>>
  BY ProcsDisjoint DEF SilentStep, Scanning, At, Tracked, Ready, Scanned,
         ScannedPolicies, IInv, LockInv, Procs
<1>2. \A t \in Threads, r \in Restrictions, j \in Jobs :
        ThreadHolds(t, r, j)' <=> ThreadHolds(t, r, j)
  BY DEF SilentStep, ThreadHolds, Tracked, Ready
<1>3. \A r \in Restrictions, j \in Jobs : ScanHolds(r, j)' <=> ScanHolds(r, j)
  BY <1>1 DEF ScanHolds
<1>4. PositionInv'
  BY <1>1 DEF PInv, PositionInv, SilentStep, Tracked, Ready
<1> QED BY <1>2, <1>3, <1>4, SameHolders DEF PInv, Holders, SilentStep

\* Before the first policy is asked the job being scanned holds nothing.
LEMMA LockQueuePermissions ==
  ASSUME IInv, PInv, NEW t \in Threads, LockQueue(t)
  PROVE  PInv'
<1>1. /\ UNCHANGED <<job, customers, m_assignments>>
      /\ policy' = [policy EXCEPT ![t] = 1] /\ policy \in [Threads -> Nat \ {0}]
      /\ \A u \in Threads \ {t} : pc'[u] = pc[u]
      /\ pc[t] = "take" /\ pc'[t] = "scan"
      /\ \A u \in Threads : pc[u] # "scan"
      /\ index' = 1 /\ m_assignments \in Seq(Jobs)
  BY ProcsDisjoint DEF LockQueue, At, Goto, MutexFree, policyVars, IInv, TypeOK,
         LockInv, Procs
<1>2. \A r \in Restrictions, j \in Jobs : ~ScanHolds(r, j) /\ ~ScanHolds(r, j)'
  BY <1>1 DEF ScanHolds, Scanning, At
<1>3. \A u \in Threads, r \in Restrictions, j \in Jobs :
        ThreadHolds(u, r, j)' <=> ThreadHolds(u, r, j)
  BY <1>1 DEF ThreadHolds, Ready
<1>4. ListInv'
  BY <1>1, <1>2, <1>3, SameHolders DEF PInv, Holders
<1>5. Scanning(t)' => Len(ScannedPolicies)' \in Nat
  <2>1. Scanning(t)' => Scanned' \in Jobs
    BY <1>1, ElementOfSeq, LenProperties DEF Scanning, Scanned
  <2> QED BY <2>1, ListsOfPolicies DEF ScannedPolicies
<1>6. PositionInv'
  BY <1>1, <1>5 DEF PInv, PositionInv, Scanning, At, Ready
<1> QED BY <1>4, <1>6 DEF PInv

\* The scan ends without a job: nothing is held at its end.
LEMMA NothingAvailablePermissions ==
  ASSUME IInv, PInv, NEW t \in Threads, NothingAvailable(t)
  PROVE  PInv'
<1>1. /\ UNCHANGED <<job, customers, m_assignments, policy>>
      /\ \A u \in Threads \ {t} : pc'[u] = pc[u] /\ pc[u] # "scan"
      /\ pc[t] = "scan" /\ pc'[t] = "wait" /\ ~Scanning(t)
  BY DEF NothingAvailable, At, Goto, policyVars, IInv, TypeOK, LockInv, Procs,
         Scanning
<1>2. \A u \in Threads : ~Scanning(u) /\ ~Scanning(u)'
  BY <1>1 DEF Scanning, At
<1>3. \A u \in Threads, r \in Restrictions, j \in Jobs :
        ThreadHolds(u, r, j)' <=> ThreadHolds(u, r, j)
  BY <1>1 DEF ThreadHolds, Ready
<1>4. ListInv'
  BY <1>1, <1>2, <1>3, SameHolders DEF PInv, Holders, ScanHolds
<1>5. PositionInv'
  BY <1>1, <1>2 DEF PInv, PositionInv, Ready
<1> QED BY <1>4, <1>5 DEF PInv

\* The policy that agrees gets the job on its list, where it was not before.
LEMMA PolicyAgreesPermissions ==
  ASSUME IInv, PInv, NEW t \in Threads, PolicyAgrees(t)
  PROVE  PInv'
<1> DEFINE p == ScannedPolicies[policy[t]]
<1>1. /\ UNCHANGED <<job, pc, m_assignments, index>>
      /\ policy' = [policy EXCEPT ![t] = @ + 1] /\ policy \in [Threads -> Nat \ {0}]
      /\ Scanning(t) /\ policy[t] \in 1..Len(ScannedPolicies)
      /\ customers' = [r \in Restrictions |->
            IF r = p THEN Append(customers[r], Scanned) ELSE customers[r]]
      /\ customers \in [Restrictions -> Seq(Jobs)]
      /\ \A u \in Threads : Scanning(u) => u = t
  <2>1. Scanned \in Jobs
    BY ScannedJob DEF PolicyAgrees
  <2>2. Len(ScannedPolicies) \in Nat
    BY <2>1, ListsOfPolicies DEF ScannedPolicies
  <2> QED BY <2>2 DEF PolicyAgrees, acquire, scanVars, IInv, TypeOK, LockInv,
              PolicyTypeOK, Scanning, At
<1>2. Scanned \in Jobs /\ \A u \in Threads : job[u] # Scanned
  BY <1>1, ScannedJob
<1>3. \A m, n \in 1..Len(ScannedPolicies) :
        ScannedPolicies[m] = ScannedPolicies[n] => m = n
  BY <1>2, ListsOfPolicies DEF ScannedPolicies
<1>4. UNCHANGED <<Scanned, ScannedPolicies>> /\ \A u \in Threads : Scanning(u)' = Scanning(u)
  BY <1>1 DEF Scanned, ScannedPolicies, Scanning, At
<1>5. \A r \in Restrictions, j \in Jobs :
        ScanHolds(r, j)' <=> ScanHolds(r, j) \/ (r = p /\ j = Scanned)
  BY <1>1, <1>4 DEF ScanHolds
<1>6. \A u \in Threads, r \in Restrictions, j \in Jobs :
        ThreadHolds(u, r, j)' <=> ThreadHolds(u, r, j)
  BY <1>1, ProcsDisjoint DEF ThreadHolds, Ready, Scanning, At
<1>7. \A r \in Restrictions :
        Holders(r)' = IF r = p THEN Holders(r) \cup {Scanned} ELSE Holders(r)
  BY <1>2, <1>5, <1>6 DEF Holders
<1>8. \A r \in Restrictions : r = p => Scanned \notin Holders(r)
  <2>1. \A r \in Restrictions : r = p => ~ScanHolds(r, Scanned)
    BY <1>1, <1>3 DEF ScanHolds
  <2>2. \A r \in Restrictions, u \in Threads : ~ThreadHolds(u, r, Scanned)
    BY <1>2 DEF ThreadHolds
  <2> QED BY <2>1, <2>2 DEF Holders
<1>9. ListInv'
  <2>1. ASSUME NEW r \in Restrictions
        PROVE  IsInjective(customers'[r]) /\ ToSet(customers'[r]) = Holders(r)'
    <3>1. customers[r] \in Seq(Jobs) /\ IsInjective(customers[r])
          /\ ToSet(customers[r]) = Holders(r)
      BY <1>1 DEF PInv, ListInv
    <3>2. CASE r = p
      <4>1. customers'[r] = Append(customers[r], Scanned) /\ Scanned \notin Holders(r)
            /\ Holders(r)' = Holders(r) \cup {Scanned}
        BY <1>1, <1>7, <1>8, <3>2
      <4> HIDE DEF p
      <4>2. /\ ToSet(Append(customers[r], Scanned)) = ToSet(customers[r]) \cup {Scanned}
            /\ IsInjective(Append(customers[r], Scanned))
        BY <1>2, <3>1, <4>1, AppendSet
      <4> QED BY <3>1, <4>1, <4>2
    <3>3. CASE r # p
      BY <1>1, <1>7, <3>1, <3>3
    <3> QED BY <3>2, <3>3
  <2> QED BY <2>1 DEF ListInv
<1>10. PositionInv'
  BY <1>1, <1>4 DEF PInv, PositionInv, Scanning, At, Ready
<1> QED BY <1>9, <1>10 DEF PInv

\* Exactly the policies that had agreed forget the job.
LEMMA PolicyRefusesPermissions ==
  ASSUME IInv, PInv, NEW t \in Threads, PolicyRefuses(t)
  PROVE  PInv'
<1> DEFINE ps == {ScannedPolicies[n] : n \in 1..(policy[t] - 1)}
<1>1. /\ UNCHANGED <<job, pc, m_assignments>>
      /\ policy' = [policy EXCEPT ![t] = 1] /\ policy \in [Threads -> Nat \ {0}]
      /\ Scanning(t) /\ policy[t] <= Len(ScannedPolicies)
      /\ customers' = [r \in Restrictions |->
            IF r \in ps THEN RemoveFirst(customers[r], Scanned) ELSE customers[r]]
      /\ customers \in [Restrictions -> Seq(Jobs)]
      /\ index' = index + 1 /\ index \in Nat \ {0} /\ m_assignments \in Seq(Jobs)
      /\ \A u \in Threads : pc[u] = "scan" => u = t
  BY DEF PolicyRefuses, release, IInv, TypeOK, LockInv, PolicyTypeOK, Scanning, At
<1>2. Scanned \in Jobs /\ \A u \in Threads : job[u] # Scanned
  BY <1>1, ScannedJob
<1>3. \A r \in Restrictions, j \in Jobs : ~ScanHolds(r, j)'
  BY <1>1 DEF ScanHolds, Scanning, At
<1>4. \A r \in Restrictions, j \in Jobs :
        ScanHolds(r, j) <=> r \in ps /\ j = Scanned
  <2>1. Len(ScannedPolicies) \in Nat
    BY <1>2, ListsOfPolicies DEF ScannedPolicies
  <2>2. \A n : n \in 1..(policy[t] - 1) <=> n \in 1..Len(ScannedPolicies) /\ n < policy[t]
    BY <1>1, <2>1
  <2>3. \A u \in Threads : Scanning(u) => u = t
    BY <1>1 DEF Scanning, At
  <2>4. \A r : r \in ps <=> \E n \in 1..Len(ScannedPolicies) :
                           n < policy[t] /\ ScannedPolicies[n] = r
    BY <2>2
  <2> QED BY <1>1, <2>3, <2>4 DEF ScanHolds
<1>5. \A u \in Threads, r \in Restrictions, j \in Jobs :
        ThreadHolds(u, r, j)' <=> ThreadHolds(u, r, j)
  BY <1>1 DEF ThreadHolds, Ready, Scanning, At
<1>6. \A u \in Threads, r \in Restrictions : ~ThreadHolds(u, r, Scanned)
  BY <1>2 DEF ThreadHolds
<1>7. \A r \in Restrictions :
        Holders(r)' = IF r \in ps THEN Holders(r) \ {Scanned} ELSE Holders(r)
  BY <1>3, <1>4, <1>5, <1>6 DEF Holders
<1>8. ListInv'
  <2>1. ASSUME NEW r \in Restrictions
        PROVE  IsInjective(customers'[r]) /\ ToSet(customers'[r]) = Holders(r)'
    <3>1. customers[r] \in Seq(Jobs) /\ IsInjective(customers[r])
          /\ ToSet(customers[r]) = Holders(r)
      BY <1>1 DEF PInv, ListInv
    <3>2. CASE r \in ps
      <4>1. customers'[r] = RemoveFirst(customers[r], Scanned)
            /\ Holders(r)' = Holders(r) \ {Scanned}
        BY <1>1, <1>7, <3>2
      <4>2. /\ ToSet(RemoveFirst(customers[r], Scanned)) = ToSet(customers[r]) \ {Scanned}
            /\ IsInjective(RemoveFirst(customers[r], Scanned))
        BY <3>1, RemoveFirstSet
      <4> QED BY <3>1, <4>1, <4>2
    <3>3. CASE r \notin ps
      BY <1>1, <1>7, <3>1, <3>3
    <3> QED BY <3>2, <3>3
  <2> QED BY <2>1 DEF ListInv
<1>9. PositionInv'
  <2>1. Scanning(t)' => Len(ScannedPolicies)' \in Nat
    <3>1. Scanning(t)' => index' \in 1..Len(m_assignments)
      BY <1>1 DEF Scanning
    <3>2. Scanning(t)' => Scanned' \in Jobs
      BY <1>1, <3>1, ElementOfSeq DEF Scanned
    <3> QED BY <3>2, ListsOfPolicies DEF ScannedPolicies
  <2> QED BY <1>1, <2>1 DEF PInv, PositionInv, Scanning, At, Ready
<1> QED BY <1>8, <1>9 DEF PInv

\* What the scan holds for the job goes to the thread.
LEMMA TakeJobPermissions ==
  ASSUME IInv, PInv, NEW t \in Threads, TakeJob(t)
  PROVE  PInv'
<1>1. /\ UNCHANGED customers
      /\ policy' = [policy EXCEPT ![t] = 1] /\ policy \in [Threads -> Nat \ {0}]
      /\ Scanning(t) /\ policy[t] > Len(ScannedPolicies)
      /\ \A u \in Threads \ {t} : pc'[u] = pc[u] /\ job'[u] = job[u] /\ pc[u] # "scan"
      /\ pc[t] = "scan" /\ pc'[t] = "taken" /\ job'[t] = Scanned
  BY DEF TakeJob, Scanning, At, Goto, policyVars, IInv, TypeOK, LockInv, Procs
<1>2. Scanned \in Jobs /\ ScannedPolicies = queuePolicies[Scanned]
  BY <1>1, ScannedJob DEF ScannedPolicies
<1>3. \A r \in Restrictions, j \in Jobs : ~ScanHolds(r, j)'
  BY <1>1 DEF ScanHolds, Scanning, At
<1>4. \A r \in Restrictions, j \in Jobs :
        ScanHolds(r, j) <=> j = Scanned /\ r \in ToSet(queuePolicies[j])
  <2>1. /\ Len(ScannedPolicies) \in Nat
        /\ \A r : r \in ToSet(ScannedPolicies)
             <=> \E n \in 1..Len(ScannedPolicies) : ScannedPolicies[n] = r
    BY <1>2, ListsOfPolicies
  <2> QED BY <1>1, <1>2, <2>1 DEF ScanHolds, Scanning, At
<1>5. \A r \in Restrictions, j \in Jobs :
        ThreadHolds(t, r, j)' <=> ScanHolds(r, j)
  BY <1>1, <1>4 DEF ThreadHolds, Ready
<1>6. \A r \in Restrictions, j \in Jobs : ~ThreadHolds(t, r, j)
  BY <1>1 DEF ThreadHolds, Ready
<1>7. \A u \in Threads \ {t}, r \in Restrictions, j \in Jobs :
        ThreadHolds(u, r, j)' <=> ThreadHolds(u, r, j)
  BY <1>1 DEF ThreadHolds, Ready
<1>8. ListInv'
  BY <1>1, <1>3, <1>5, <1>6, <1>7, SameHolders DEF PInv, Holders
<1>9. PositionInv'
  BY <1>1 DEF PInv, PositionInv, Scanning, At, Ready
<1> QED BY <1>8, <1>9 DEF PInv

\* Steps of a thread with its job leave a scan alone.
LEMMA ScanUndisturbed ==
  ASSUME IInv, NEW t \in Threads, pc[t] # "scan", pc'[t] # "scan",
         \A u \in Threads \ {t} : pc'[u] = pc[u] /\ policy'[u] = policy[u],
         UNCHANGED <<m_assignments, index>>
  PROVE  /\ \A u \in Threads : Scanning(u)' <=> Scanning(u)
         /\ \A u \in Threads : Scanning(u) => policy'[u] = policy[u]
         /\ UNCHANGED <<Scanned, ScannedPolicies>>
         /\ \A r \in Restrictions, j \in Jobs : ScanHolds(r, j)' <=> ScanHolds(r, j)
<1>1. \A u \in Threads : Scanning(u)' <=> Scanning(u)
  BY DEF Scanning, At
<1>2. \A u \in Threads : Scanning(u) => policy'[u] = policy[u]
  BY DEF Scanning, At
<1>3. UNCHANGED <<Scanned, ScannedPolicies>>
  BY DEF Scanned, ScannedPolicies
<1>4. \A r \in Restrictions, j \in Jobs : ScanHolds(r, j)' <=> ScanHolds(r, j)
  BY <1>1, <1>2, <1>3 DEF ScanHolds
<1> QED BY <1>1, <1>2, <1>3, <1>4

\* A job keeps its permissions until the thread gives back the first.
LEMMA ExecutePermissions ==
  ASSUME IInv, PInv, NEW t \in Threads,
         IncActive(t) \/ RunJob(t) \/ EmitDone(t)
  PROVE  PInv'
<1>1. /\ UNCHANGED <<customers, job, m_assignments, index>>
      /\ \A u \in Threads \ {t} : pc'[u] = pc[u] /\ policy'[u] = policy[u]
      /\ policy \in [Threads -> Nat \ {0}]
      /\ \/ pc[t] = "taken" /\ pc'[t] = "execute" /\ policy' = policy
         \/ pc[t] = "execute" /\ pc'[t] = "free" /\ policy' = policy
         \/ /\ pc[t] = "free" /\ pc'[t] = "jobDone"
            /\ policy[t] > Len(queuePolicies[job[t]])
  BY DEF IncActive, RunJob, EmitDone, At, Goto, policyVars, scanVars, IInv,
         TypeOK, Procs
<1>2. pc[t] # "scan" /\ pc'[t] # "scan"
  BY <1>1
<1>3. pc[t] \in Ready => policy[t] = 1
  BY DEF PInv, PositionInv
<1>4. job[t] \in Jobs
  BY <1>1 DEF IInv, TypeOK, HoldInv, Holding, Procs
<1>5. \A r \in Restrictions, j \in Jobs : ThreadHolds(t, r, j)' <=> ThreadHolds(t, r, j)
  <2>1. \A r : r \in ToSet(queuePolicies[job[t]])
          <=> \E n \in 1..Len(queuePolicies[job[t]]) : queuePolicies[job[t]][n] = r
    BY <1>4, ListsOfPolicies
  <2>2. Len(queuePolicies[job[t]]) \in Nat
    BY <1>4, ListsOfPolicies
  <2> QED BY <1>1, <1>3, <2>1, <2>2 DEF ThreadHolds, Ready
<1>6. \A u \in Threads \ {t}, r \in Restrictions, j \in Jobs :
        ThreadHolds(u, r, j)' <=> ThreadHolds(u, r, j)
  BY <1>1 DEF ThreadHolds, Ready
<1>7. ListInv'
  BY <1>1, <1>2, <1>5, <1>6, ScanUndisturbed, SameHolders DEF PInv, Holders
<1>8. PositionInv'
  <2>1. \A u \in Threads : pc'[u] \in Ready => pc[u] \in Ready /\ policy'[u] = policy[u]
    BY <1>1 DEF Ready
  <2> QED BY <1>1, <1>2, <2>1, ScanUndisturbed DEF PInv, PositionInv
<1> QED BY <1>7, <1>8 DEF PInv

\* free() takes the job off the list of the policy the thread has reached.
LEMMA FreePolicyPermissions ==
  ASSUME IInv, PInv, NEW t \in Threads, FreePolicy(t)
  PROVE  PInv'
<1> DEFINE p == queuePolicies[job[t]][policy[t]]
<1>1. /\ UNCHANGED <<pc, job, m_assignments, index>>
      /\ policy' = [policy EXCEPT ![t] = @ + 1] /\ policy \in [Threads -> Nat \ {0}]
      /\ pc[t] = "free" /\ policy[t] <= Len(queuePolicies[job[t]])
      /\ customers \in [Restrictions -> Seq(Jobs)]
  BY DEF FreePolicy, At, scanVars, IInv, TypeOK, PolicyTypeOK
<1>2. job[t] \in Jobs /\ \A u \in Threads : job[u] = job[t] => u = t
  BY <1>1 DEF IInv, TypeOK, HoldInv, Holding, Procs, JobsAreExclusive
<1>3. \A m, n \in 1..Len(queuePolicies[job[t]]) :
        queuePolicies[job[t]][m] = queuePolicies[job[t]][n] => m = n
  BY <1>2, ListsOfPolicies
<1>4. /\ policy[t] \in 1..Len(queuePolicies[job[t]])
      /\ Len(queuePolicies[job[t]]) \in Nat /\ p \in Policies
  BY <1>1, <1>2, ListsOfPolicies
<1>5. customers' = [r \in Restrictions |->
         IF r = p THEN RemoveFirst(customers[r], job[t]) ELSE customers[r]]
  <2>1. CASE p \in Restrictions
    BY <2>1, PolicyIdentity DEF FreePolicy, free, release
  <2>2. CASE p = DependencyPolicy
    BY <1>1, <2>2, PolicyIdentity DEF FreePolicy, free, release
  <2> QED BY <1>4, <2>1, <2>2 DEF Policies
<1>6. \A r \in Restrictions, j \in Jobs :
        ThreadHolds(t, r, j)' <=> ThreadHolds(t, r, j) /\ ~(r = p /\ j = job[t])
  <2>1. \A n : n \in policy'[t]..Len(queuePolicies[job[t]])
               <=> n \in policy[t]..Len(queuePolicies[job[t]]) /\ n # policy[t]
    BY <1>1, <1>4
  <2> QED BY <1>1, <1>3, <1>4, <2>1 DEF ThreadHolds, Ready
<1>7. \A u \in Threads \ {t}, r \in Restrictions, j \in Jobs :
        /\ ThreadHolds(u, r, j)' <=> ThreadHolds(u, r, j)
        /\ ThreadHolds(u, r, j) => j # job[t]
  BY <1>1, <1>2 DEF ThreadHolds, Ready
<1>8. \A r \in Restrictions : ~ScanHolds(r, job[t])
  BY ScannedJob DEF ScanHolds
<1>9. \A r \in Restrictions, j \in Jobs : ScanHolds(r, j)' <=> ScanHolds(r, j)
  BY <1>1, ScanUndisturbed
<1>10. \A r \in Restrictions :
         Holders(r)' = IF r = p THEN Holders(r) \ {job[t]} ELSE Holders(r)
  BY <1>6, <1>7, <1>8, <1>9 DEF Holders
<1>11. ListInv'
  <2>1. ASSUME NEW r \in Restrictions
        PROVE  IsInjective(customers'[r]) /\ ToSet(customers'[r]) = Holders(r)'
    <3>1. customers[r] \in Seq(Jobs) /\ IsInjective(customers[r])
          /\ ToSet(customers[r]) = Holders(r)
      BY <1>1 DEF PInv, ListInv
    <3>2. CASE r = p
      <4>1. customers'[r] = RemoveFirst(customers[r], job[t])
            /\ Holders(r)' = Holders(r) \ {job[t]}
        BY <1>5, <1>10, <3>2
      <4>2. /\ ToSet(RemoveFirst(customers[r], job[t])) = ToSet(customers[r]) \ {job[t]}
            /\ IsInjective(RemoveFirst(customers[r], job[t]))
        BY <3>1, RemoveFirstSet
      <4> QED BY <3>1, <4>1, <4>2
    <3>3. CASE r # p
      BY <1>5, <1>10, <3>1, <3>3
    <3> QED BY <3>2, <3>3
  <2> QED BY <2>1 DEF ListInv
<1>12. PositionInv'
  BY <1>1, ScanUndisturbed DEF PInv, PositionInv, Ready
<1> QED BY <1>11, <1>12 DEF PInv

\* A job that may be deleted holds no permission any more.
LEMMA DeleteJobPermissions ==
  ASSUME IInv, PInv, NEW c \in Clients, NEW j \in Jobs, DeleteJob(c, j)
  PROVE  PInv'
<1>1. /\ UNCHANGED <<pc, job, policy, m_assignments, index>>
      /\ j \notin Queued /\ \A u \in Threads : job[u] = j => pc[u] = "jobDone"
      /\ customers' = [r \in Restrictions |->
            IF r \in ToSet(queuePolicies[j]) THEN RemoveFirst(customers[r], j)
                                             ELSE customers[r]]
      /\ customers \in [Restrictions -> Seq(Jobs)]
  BY DEF DeleteJob, At, destructed, scanVars, IInv, TypeOK, PolicyTypeOK, Procs
<1>2. \A r \in Restrictions : Holders(r)' = Holders(r)
  BY <1>1 DEF Holders, ScanHolds, ThreadHolds, Scanning, Scanned,
              ScannedPolicies, At
<1>3. \A r \in Restrictions : j \notin Holders(r)
  <2>1. \A r \in Restrictions : ~ScanHolds(r, j)
    BY <1>1, ScannedJob DEF ScanHolds
  <2>2. \A r \in Restrictions, u \in Threads : ~ThreadHolds(u, r, j)
    BY <1>1 DEF ThreadHolds, Ready
  <2> QED BY <2>1, <2>2 DEF Holders
<1>4. ListInv'
  <2>1. ASSUME NEW r \in Restrictions
        PROVE  IsInjective(customers'[r]) /\ ToSet(customers'[r]) = Holders(r)'
    <3>1. customers[r] \in Seq(Jobs) /\ IsInjective(customers[r])
          /\ ToSet(customers[r]) = Holders(r) /\ j \notin Holders(r)
      BY <1>1, <1>3 DEF PInv, ListInv
    <3>2. /\ ToSet(RemoveFirst(customers[r], j)) = ToSet(customers[r]) \ {j}
          /\ IsInjective(RemoveFirst(customers[r], j))
      BY <3>1, RemoveFirstSet
    <3>3. customers'[r] = customers[r] \/ customers'[r] = RemoveFirst(customers[r], j)
      BY <1>1
    <3> QED BY <1>2, <3>1, <3>2, <3>3
  <2> QED BY <2>1 DEF ListInv
<1>5. PositionInv'
  BY <1>1 DEF PInv, PositionInv, Scanning, ScannedPolicies, Scanned, At
<1> QED BY <1>4, <1>5 DEF PInv

LEMMA NextPermissions == IInv /\ PInv /\ [Next]_vars => PInv'
BY StepCases, SilentPermissions, LockQueuePermissions, PolicyAgreesPermissions,
   PolicyRefusesPermissions, TakeJobPermissions, NothingAvailablePermissions,
   ExecutePermissions, FreePolicyPermissions, DeleteJobPermissions

LEMMA InitPermissions == Init => PInv
<1> SUFFICES ASSUME Init PROVE PInv
  OBVIOUS
<1>1. \A t \in Threads : pc[t] = "none"
  BY DEF Init, Procs
<1>2. PositionInv
  BY <1>1 DEF PositionInv, Scanning, At, Ready
<1>3. ASSUME NEW r \in Restrictions
      PROVE  IsInjective(customers[r]) /\ ToSet(customers[r]) = Holders(r)
  <2>1. customers[r] = <<>>
    BY DEF Init, PolicyInit
  <2>2. Holders(r) = {}
    BY <1>1 DEF Holders, ScanHolds, ThreadHolds, Scanning, At, Ready
  <2> QED BY <2>1, <2>2 DEF IsInjective, ToSet
<1> QED BY <1>2, <1>3 DEF PInv, ListInv

\* However scans are refused in the middle and jobs are executed, fail or
\* are deleted: a restriction lists exactly the jobs that hold its
\* permission, each of them once.
THEOREM PermissionsAreExact == Spec => []PermissionsExact
<1>1. IInv /\ PInv => PermissionsExact
  <2> SUFFICES ASSUME IInv, PInv, NEW r \in Restrictions
               PROVE  /\ IsInjective(customers[r])
                      /\ ToSet(customers[r]) = {j \in Jobs : HoldsPermission(r, j)}
    BY DEF PermissionsExact
  <2>1. Holders(r) = {j \in Jobs : HoldsPermission(r, j)}
    <3>1. Holders(r) \subseteq Jobs
      BY DEF Holders
    <3> QED BY <3>1, HoldersAre DEF PInv
  <2> QED BY <2>1 DEF PInv, ListInv
<1>2. Spec => []PInv
  BY Invariance, InitPermissions, NextPermissions, PTL DEF Spec
<1> QED BY Invariance, <1>1, <1>2, PTL

-----------------------------------------------------------------------------
(* The caps *)

\* The caps a restriction has ever had.
Limits(r) == CapValues \cup {InitialCap[r]}

CapInv ==
  \A r \in Restrictions :
    /\ cap[r] \in Limits(r)
    /\ \E n \in Limits(r) : Len(customers[r]) <= n

\* A list gets longer only where it is below the cap.
ListsBelowCap ==
  \A r \in Restrictions :
    \/ Len(customers'[r]) <= Len(customers[r])
    \/ Len(customers'[r]) = Len(customers[r]) + 1 /\ Len(customers[r]) < cap[r]

CapsChosen ==
  \A r \in Restrictions : cap'[r] = cap[r] \/ cap'[r] \in CapValues

LEMMA ListLengths ==
  ASSUME IInv, NEW r \in Restrictions
  PROVE  customers[r] \in Seq(Jobs) /\ Len(customers[r]) \in Nat /\ cap[r] \in Int
BY LenProperties DEF IInv, TypeOK, PolicyTypeOK

LEMMA RemoveFirstShrinks ==
  ASSUME NEW S, NEW s \in Seq(S), NEW e
  PROVE  Len(RemoveFirst(s, e)) <= Len(s)
<1>1. Len(s) \in Nat /\ DOMAIN s = 1..Len(s)
  BY LenProperties
<1>2. CASE e \in ToSet(s)
  <2>1. PICK i \in 1..Len(s) : RemoveFirst(s, e) = RemoveAt(s, i)
    BY <1>2, RemoveFirstIsRemoveAt
  <2>2. Len(RemoveAt(s, i)) = Len(s) - 1
    BY RemoveAtFacts
  <2> QED BY <1>1, <2>1, <2>2
<1>3. CASE e \notin ToSet(s)
  <2>1. RemoveFirst(s, e) = s
    BY <1>1, <1>3 DEF RemoveFirst, ToSet
  <2> QED BY <1>1, <2>1
<1> QED BY <1>2, <1>3

LEMMA ReleaseShrinks ==
  ASSUME IInv, NEW ps, NEW j,
         customers' = [r \in Restrictions |->
            IF r \in ps THEN RemoveFirst(customers[r], j) ELSE customers[r]]
  PROVE  ListsBelowCap
BY ListLengths, RemoveFirstShrinks DEF ListsBelowCap

LEMMA NextLists ==
  ASSUME IInv, [Next]_vars
  PROVE  ListsBelowCap
<1>1. CASE UNCHANGED customers
  BY <1>1, ListLengths DEF ListsBelowCap
<1>2. ASSUME NEW t \in Threads, PolicyAgrees(t)
      PROVE  ListsBelowCap
  <2> DEFINE p == ScannedPolicies[policy[t]]
  <2>1. /\ customers' = [r \in Restrictions |->
              IF r = p THEN Append(customers[r], Scanned) ELSE customers[r]]
        /\ canRun(p, Scanned) /\ Scanned \in Jobs
    BY <1>2, ScannedJob DEF PolicyAgrees, acquire
  <2>2. ASSUME NEW r \in Restrictions, r = p
        PROVE  /\ Len(customers'[r]) = Len(customers[r]) + 1
               /\ Len(customers[r]) < cap[r]
    <3>1. Len(customers[r]) < cap[r]
      BY <2>1, <2>2, PolicyIdentity DEF canRun
    <3>2. customers'[r] = Append(customers[r], Scanned)
      BY <2>1, <2>2
    <3> QED BY <2>1, <3>1, <3>2, ListLengths, AppendProperties
  <2>3. ASSUME NEW r \in Restrictions, r # p
        PROVE  customers'[r] = customers[r]
    BY <2>1, <2>3
  <2> QED BY <2>2, <2>3, ListLengths DEF ListsBelowCap
<1>3. ASSUME NEW t \in Threads, PolicyRefuses(t)
      PROVE  ListsBelowCap
  BY <1>3, ReleaseShrinks DEF PolicyRefuses, release
<1>4. ASSUME NEW t \in Threads, FreePolicy(t)
      PROVE  ListsBelowCap
  <2> DEFINE p == queuePolicies[job[t]][policy[t]]
  <2>1. CASE release({p}, job[t])
    BY <2>1, ReleaseShrinks DEF release
  <2>2. UNCHANGED customers \/ release({p}, job[t])
    BY <1>4 DEF FreePolicy, free
  <2> QED BY <1>1, <2>1, <2>2
<1>5. ASSUME NEW c \in Clients, NEW j \in Jobs, DeleteJob(c, j)
      PROVE  ListsBelowCap
  BY <1>5, ReleaseShrinks DEF DeleteJob, destructed
<1>6. ASSUME NEW t \in Threads,
             \/ LockQueue(t) \/ TakeJob(t) \/ NothingAvailable(t)
             \/ IncActive(t) \/ RunJob(t) \/ EmitDone(t)
      PROVE  UNCHANGED customers
  BY <1>6 DEF LockQueue, TakeJob, NothingAvailable, IncActive, RunJob,
              EmitDone, policyVars
<1> QED BY <1>1, <1>2, <1>3, <1>4, <1>5, <1>6, StepCases DEF SilentStep

LEMMA NextCaps ==
  ASSUME IInv, [Next]_vars
  PROVE  CapsChosen
<1>1. CASE UNCHANGED cap
  BY <1>1 DEF CapsChosen
<1>2. CASE UNCHANGED vars
  BY <1>1, <1>2 DEF vars, policyVars
<1>3. ASSUME NEW p \in Procs, SetStateStep(p)
      PROVE  UNCHANGED cap
  BY <1>3 DEF SetStateStep, Activated, SuspCheck, SuspSet, policyVars
<1>4. ASSUME NEW t \in Threads, Worker(t)
      PROVE  UNCHANGED cap
  BY <1>3, <1>4 DEF Worker, ApplyForWork, LockQueue, PolicyAgrees,
     PolicyRefuses, TakeJob, NothingAvailable, WaitForAvailableJob, Block,
     IncActive, RunJob, FreePolicy, EmitDone, ForgetJob, DecActive, acquire,
     release, free, policyVars, Procs
<1>5. ASSUME NEW c \in Clients, ClientStep(c)
      PROVE  UNCHANGED cap
  BY <1>3, <1>5 DEF ClientStep, Enqueue, FinishTest, FinishWait,
     FinishTimeout, DtorWake, DtorNext, DtorJoined, DtorRetry, DtorEnd,
     policyVars, Procs
<1>6. ASSUME NEW c \in Clients, NEW r \in Restrictions, NEW n \in CapValues,
             SetCap(c, r, n)
      PROVE  CapsChosen
  BY <1>6 DEF SetCap, setCap, CapsChosen, IInv, TypeOK, PolicyTypeOK
<1>7. ASSUME NEW c \in Clients, NEW j \in Jobs,
             AdjustInventory(c, j) \/ Dequeue(c, j) \/ DeleteJob(c, j)
      PROVE  UNCHANGED cap
  BY <1>7 DEF AdjustInventory, Dequeue, DeleteJob, destructed, policyVars
<1>8. ASSUME NEW c \in Clients,
             \/ \E n \in MaxValues : SetMaximumNumberOfThreads(c, n)
             \/ DequeueAll(c) \/ Suspend(c) \/ Resume(c) \/ Finish(c)
             \/ ShutDown(c)
      PROVE  UNCHANGED cap
  BY <1>8 DEF SetMaximumNumberOfThreads, DequeueAll, Suspend, Resume, Finish,
     ShutDown, policyVars
<1> QED BY <1>1, <1>2, <1>4, <1>5, <1>6, <1>7, <1>8 DEF Next, ClientCall

LEMMA CapInvStep == IInv /\ CapInv /\ [Next]_vars => CapInv'
<1> SUFFICES ASSUME IInv, CapInv, [Next]_vars, NEW r \in Restrictions
             PROVE  /\ cap'[r] \in Limits(r)
                    /\ \E n \in Limits(r) : Len(customers'[r]) <= n
  BY DEF CapInv, Limits
<1>1. cap'[r] \in Limits(r)
  BY NextCaps DEF CapInv, CapsChosen, Limits
<1>2. /\ Limits(r) \subseteq Int
      /\ Len(customers[r]) \in Nat /\ Len(customers'[r]) \in Nat
  <2>1. IInv'
    BY WorkerInv, ClientInv, StutterInv DEF Next
  <2>2. customers'[r] \in Seq(Jobs)
    BY <2>1 DEF IInv, TypeOK, PolicyTypeOK
  <2>3. Limits(r) \subseteq Int
    <3>1. InitialCap[r] \in Nat
      BY CapsAreNumbers
    <3>2. CapValues \subseteq Int
      BY SizesAreNumbers
    <3>3. InitialCap[r] \in Int
      BY <3>1
    <3> QED BY <3>2, <3>3, Zenon DEF Limits
  <2> QED BY <2>2, <2>3, ListLengths, LenProperties
<1>3. CASE Len(customers'[r]) <= Len(customers[r])
  <2>1. PICK n \in Limits(r) : Len(customers[r]) <= n
    BY DEF CapInv
  <2>2. n \in Int
    BY <1>2
  <2>3. Len(customers'[r]) <= n
    BY <1>2, <1>3, <2>1, <2>2
  <2> QED BY <1>1, <2>3
<1>4. CASE Len(customers'[r]) = Len(customers[r]) + 1 /\ Len(customers[r]) < cap[r]
  <2>1. cap[r] \in Limits(r) /\ cap[r] \in Int
    BY <1>2 DEF CapInv
  <2>2. Len(customers'[r]) <= cap[r]
    BY <1>2, <1>4, <2>1
  <2> QED BY <1>1, <2>1, <2>2
<1> QED BY <1>1, <1>3, <1>4, NextLists DEF ListsBelowCap

LEMMA InitCaps == Init => CapInv
BY CapsAreNumbers DEF Init, PolicyInit, CapInv, Limits

\* A list is at least as long as the number of its different elements.
LEMMA FewerElements ==
  ASSUME NEW S, NEW s \in Seq(S)
  PROVE  Cardinality(ToSet(s)) <= Len(s)
<1>1. Len(s) \in Nat /\ DOMAIN s = 1..Len(s) /\ s \in [1..Len(s) -> S]
  BY LenProperties
<1>2. s \in Surjection(1..Len(s), ToSet(s))
  BY <1>1 DEF Surjection, ToSet
<1>3. IsFiniteSet(1..Len(s)) /\ Cardinality(1..Len(s)) = Len(s)
  BY <1>1, FS_Interval
<1> QED BY <1>2, <1>3, FS_Surjection

\* setCap at any moment, below the number of jobs admitted or above it: never
\* do more jobs hold a restriction's permission than one of its caps allowed.
THEOREM CapsAreRespected == Spec => []CapRespected
<1>1. IInv /\ CapInv /\ PermissionsExact => CapRespected
  <2> SUFFICES ASSUME IInv, CapInv, PermissionsExact, NEW r \in Restrictions
               PROVE  \E n \in Limits(r) :
                        Cardinality({j \in Jobs : HoldsPermission(r, j)}) <= n
    BY DEF CapRespected, Limits
  <2>1. ToSet(customers[r]) = {j \in Jobs : HoldsPermission(r, j)}
    BY DEF PermissionsExact
  <2>2. PICK n \in Limits(r) : Len(customers[r]) <= n
    BY DEF CapInv
  <2>3. Cardinality(ToSet(customers[r])) <= Len(customers[r])
    BY ListLengths, FewerElements
  <2>4. n \in Int /\ Len(customers[r]) \in Nat
    BY SizesAreNumbers, CapsAreNumbers, ListLengths DEF Limits
  <2>5. Cardinality(ToSet(customers[r])) \in Nat
    <3>1. Len(customers[r]) \in Nat /\ customers[r] \in Seq(Jobs)
      BY ListLengths
    <3>2. IsFiniteSet(ToSet(customers[r]))
      BY <3>1, JobsFinite, ElementOfSeq, LenProperties, FS_Subset DEF ToSet
    <3> QED BY <3>2, FS_CardinalityType
  <2>6. Cardinality(ToSet(customers[r])) <= n
    BY <2>2, <2>3, <2>4, <2>5
  <2> QED BY <2>1, <2>6
<1>2. Spec => []CapInv
  BY Invariance, InitCaps, CapInvStep, PTL DEF Spec
<1> QED BY Invariance, PermissionsAreExact, <1>1, <1>2, PTL

-----------------------------------------------------------------------------
(* The order of the queue *)

\* The jobs of a lower priority are behind.
Sorted ==
  \A m, n \in 1..Len(m_assignments) :
    m < n => priority[m_assignments[m]] >= priority[m_assignments[n]]

LEMMA RemoveAtOrder ==
  ASSUME NEW S, NEW s \in Seq(S), IsInjective(s), NEW i \in 1..Len(s),
         NEW x \in ToSet(s) \ {s[i]}, NEW y \in ToSet(s) \ {s[i]}
  PROVE  Precedes(s, x, y) <=> Precedes(RemoveAt(s, i), x, y)
<1> DEFINE t == RemoveAt(s, i)
<1>1. /\ Len(s) \in Nat /\ DOMAIN s = 1..Len(s)
      /\ Len(t) = Len(s) - 1
      /\ \A k \in 1..(Len(s) - 1) : t[k] = IF k < i THEN s[k] ELSE s[k + 1]
  BY RemoveAtFacts
<1> HIDE DEF t
<1>2. ASSUME NEW m \in 1..Len(s), NEW n \in 1..Len(s), m < n, s[m] = x, s[n] = y
      PROVE  Precedes(t, x, y)
  <2> DEFINE mm == IF m < i THEN m ELSE m - 1
             nn == IF n < i THEN n ELSE n - 1
  <2>1. m # i /\ n # i
    BY <1>2
  <2>2. mm \in 1..Len(t) /\ nn \in 1..Len(t) /\ mm < nn
    BY <1>1, <1>2, <2>1
  <2>3. t[mm] = s[m] /\ t[nn] = s[n]
    <3>1. mm \in 1..(Len(s) - 1) /\ nn \in 1..(Len(s) - 1)
      BY <1>1, <2>2
    <3>2. t[mm] = s[m]
      BY <1>1, <2>1, <3>1
    <3>3. t[nn] = s[n]
      BY <1>1, <2>1, <3>1
    <3> QED BY <3>2, <3>3
  <2> QED BY <1>2, <2>2, <2>3 DEF Precedes
<1>3. ASSUME NEW m \in 1..Len(t), NEW n \in 1..Len(t), m < n, t[m] = x, t[n] = y
      PROVE  Precedes(s, x, y)
  <2> DEFINE mm == IF m < i THEN m ELSE m + 1
             nn == IF n < i THEN n ELSE n + 1
  <2>1. mm \in 1..Len(s) /\ nn \in 1..Len(s) /\ mm < nn
    BY <1>1, <1>3
  <2>2. s[mm] = x /\ s[nn] = y
    BY <1>1, <1>3
  <2> QED BY <2>1, <2>2 DEF Precedes
<1>4. Precedes(s, x, y) <=> Precedes(t, x, y)
  BY <1>2, <1>3 DEF Precedes
<1> QED BY <1>4 DEF t

LEMMA InsertAtOrder ==
  ASSUME NEW S, NEW s \in Seq(S), NEW e \in S, e \notin ToSet(s),
         NEW i \in 0..Len(s)
  PROVE  /\ \A x, y \in ToSet(s) :
              Precedes(s, x, y) <=> Precedes(InsertAt(s, i + 1, e), x, y)
         /\ \A y \in ToSet(s) :
              Precedes(InsertAt(s, i + 1, e), y, e) <=> \E k \in 1..i : s[k] = y
<1> DEFINE t == InsertAt(s, i + 1, e)
<1>1. /\ Len(s) \in Nat /\ DOMAIN s = 1..Len(s) /\ i + 1 \in 1..(Len(s) + 1)
      /\ \A k \in 1..Len(s) : s[k] # e
  BY DEF ToSet
<1>2. /\ Len(t) = Len(s) + 1
      /\ \A k \in 1..(Len(s) + 1) :
            t[k] = IF k < i + 1 THEN s[k] ELSE IF k = i + 1 THEN e ELSE s[k - 1]
  BY <1>1, InsertAtFacts
<1> HIDE DEF t
<1>3. ASSUME NEW x \in ToSet(s), NEW y \in ToSet(s)
      PROVE  Precedes(s, x, y) <=> Precedes(t, x, y)
  <2>1. ASSUME NEW m \in 1..Len(s), NEW n \in 1..Len(s), m < n, s[m] = x, s[n] = y
        PROVE  Precedes(t, x, y)
    <3> DEFINE mm == IF m < i + 1 THEN m ELSE m + 1
               nn == IF n < i + 1 THEN n ELSE n + 1
    <3>1. mm \in 1..Len(t) /\ nn \in 1..Len(t) /\ mm < nn
      BY <1>1, <1>2, <2>1
    <3>2. t[mm] = x /\ t[nn] = y
      BY <1>1, <1>2, <2>1
    <3> QED BY <3>1, <3>2 DEF Precedes
  <2>2. ASSUME NEW m \in 1..Len(t), NEW n \in 1..Len(t), m < n, t[m] = x, t[n] = y
        PROVE  Precedes(s, x, y)
    <3> DEFINE mm == IF m < i + 1 THEN m ELSE m - 1
               nn == IF n < i + 1 THEN n ELSE n - 1
    <3>1. m # i + 1 /\ n # i + 1
      BY <1>1, <1>2, <1>3, <2>2
    <3>2. mm \in 1..Len(s) /\ nn \in 1..Len(s) /\ mm < nn
      BY <1>1, <1>2, <2>2, <3>1
    <3>3. s[mm] = x /\ s[nn] = y
      BY <1>1, <1>2, <2>2, <3>1
    <3> QED BY <3>2, <3>3 DEF Precedes
  <2> QED BY <2>1, <2>2 DEF Precedes
<1>4. ASSUME NEW y \in ToSet(s)
      PROVE  Precedes(t, y, e) <=> \E k \in 1..i : s[k] = y
  <2>1. ASSUME NEW m \in 1..Len(t), NEW n \in 1..Len(t), m < n, t[m] = y, t[n] = e
        PROVE  \E k \in 1..i : s[k] = y
    <3>1. n = i + 1
      BY <1>1, <1>2, <2>1
    <3>2. m \in 1..i /\ s[m] = y
      BY <1>1, <1>2, <2>1, <3>1
    <3> QED BY <3>2
  <2>2. ASSUME NEW k \in 1..i, s[k] = y
        PROVE  Precedes(t, y, e)
    <3>1. k \in 1..Len(t) /\ i + 1 \in 1..Len(t) /\ k < i + 1
      BY <1>1, <1>2
    <3>2. t[k] = y /\ t[i + 1] = e
      BY <1>1, <1>2, <2>2
    <3> QED BY <3>1, <3>2 DEF Precedes
  <2> QED BY <2>1, <2>2 DEF Precedes
<1> QED BY <1>3, <1>4 DEF t

\* The steps that change the queue.
LEMMA QueueSteps ==
  ASSUME IInv, [Next]_vars
  PROVE  \/ UNCHANGED m_assignments
         \/ \E t \in Threads : TakeJob(t)
         \/ \E c \in Clients :
              Enqueue(c) \/ DequeueAll(c) \/ \E j \in Jobs : Dequeue(c, j)
<1>1. CASE UNCHANGED vars
  BY <1>1 DEF vars
<1>2. ASSUME NEW t \in Threads, Worker(t) PROVE UNCHANGED m_assignments \/ TakeJob(t)
  BY <1>2 DEF Worker, ApplyForWork, LockQueue, PolicyAgrees, PolicyRefuses,
     NothingAvailable, IncActive, WaitForAvailableJob, Block, RunJob,
     FreePolicy, EmitDone, ForgetJob, DecActive, SetStateStep, Activated,
     SuspCheck, SuspSet
<1>3. ASSUME NEW c \in Clients, ClientStep(c) PROVE UNCHANGED m_assignments \/ Enqueue(c)
  BY <1>3 DEF ClientStep, FinishTest, FinishWait, FinishTimeout, DtorWake,
     DtorNext, DtorJoined, DtorRetry, DtorEnd, SetStateStep, Activated,
     SuspCheck, SuspSet
<1>4. ASSUME NEW c \in Clients, ClientCall(c)
      PROVE  \/ UNCHANGED m_assignments \/ DequeueAll(c)
             \/ \E j \in Jobs : Dequeue(c, j)
  BY <1>4 DEF ClientCall, AdjustInventory, DeleteJob, SetMaximumNumberOfThreads,
     SetCap, Suspend, Resume, Finish, ShutDown
<1> QED BY <1>1, <1>2, <1>3, <1>4 DEF Next

LEMMA QueueTypes ==
  ASSUME IInv
  PROVE  /\ m_assignments \in Seq(Jobs) /\ IsInjective(m_assignments)
         /\ Len(m_assignments) \in Nat /\ Queued = ToSet(m_assignments)
         /\ DOMAIN m_assignments = 1..Len(m_assignments)
         /\ \A k \in 1..Len(m_assignments) :
              m_assignments[k] \in Jobs /\ priority[m_assignments[k]] \in Int
<1>1. m_assignments \in Seq(Jobs) /\ IsInjective(m_assignments)
  BY DEF IInv, TypeOK, JobsAreExclusive
<1> QED BY <1>1, JobConstants DEF Queued

\* A job goes from anywhere in the queue.
JobLeaves(i) ==
  i \in 1..Len(m_assignments) /\ m_assignments' = RemoveAt(m_assignments, i)

LEMMA TakeJobLeaves ==
  ASSUME IInv, NEW t \in Threads, TakeJob(t)
  PROVE  \E i \in 1..Len(m_assignments) : JobLeaves(i)
BY ScannedJob DEF TakeJob, WithoutScanned, JobLeaves

LEMMA DequeueLeaves ==
  ASSUME IInv, NEW c \in Clients, NEW j \in Jobs, Dequeue(c, j)
  PROVE  \E i \in 1..Len(m_assignments) : JobLeaves(i)
<1>1. m_assignments \in Seq(Jobs) /\ j \in ToSet(m_assignments)
  BY QueueTypes DEF Dequeue
<1>2. \E i \in 1..Len(m_assignments) :
        RemoveFirst(m_assignments, j) = RemoveAt(m_assignments, i)
  BY <1>1, RemoveFirstIsRemoveAt
<1> QED BY <1>2 DEF Dequeue, JobLeaves

\* A job comes behind the last one with the same or a higher priority.
JobComes(i, j) ==
  /\ i \in 0..Len(m_assignments) /\ j \in Jobs \ Queued
  /\ InsertionPoint(i, j)
  /\ m_assignments' = InsertAt(m_assignments, i + 1, j)

LEMMA EnqueueComes ==
  ASSUME IInv, NEW c \in Clients, Enqueue(c)
  PROVE  \E i \in 0..Len(m_assignments), j \in Jobs \ Queued : JobComes(i, j)
<1>1. job[c] \in Jobs \ Queued
  BY DEF Enqueue, At, IInv, TypeOK, HoldInv, JobsAreExclusive, Procs
<1> QED BY <1>1 DEF Enqueue, JobComes

LEMMA QueueMoves ==
  ASSUME IInv, [Next]_vars
  PROVE  \/ UNCHANGED m_assignments
         \/ m_assignments' = <<>>
         \/ \E i \in 1..Len(m_assignments) : JobLeaves(i)
         \/ \E i \in 0..Len(m_assignments), j \in Jobs \ Queued : JobComes(i, j)
BY QueueSteps, TakeJobLeaves, DequeueLeaves, EnqueueComes DEF DequeueAll

\* InsertionPoint asks the neighbour; the ones in front of it have at least
\* its priority because the queue is sorted.
LEMMA InsertionPointSplits ==
  ASSUME IInv, Sorted, NEW j \in Jobs, NEW i \in 0..Len(m_assignments),
         InsertionPoint(i, j), NEW k \in 1..Len(m_assignments)
  PROVE  k <= i <=> priority[m_assignments[k]] >= priority[j]
<1>1. priority[j] \in Int
  BY JobConstants
<1>2. CASE k <= i
  <2>1. i \in 1..Len(m_assignments) /\ priority[m_assignments[i]] >= priority[j]
    BY <1>2, QueueTypes DEF InsertionPoint
  <2>2. priority[m_assignments[k]] >= priority[m_assignments[i]]
    BY <1>2, <2>1, QueueTypes DEF Sorted
  <2> QED BY <1>1, <1>2, <2>1, <2>2, QueueTypes
<1>3. CASE ~(k <= i)
  <2>1. k \in (i + 1)..Len(m_assignments)
    BY <1>3, QueueTypes
  <2>2. priority[m_assignments[k]] < priority[j]
    BY <2>1 DEF InsertionPoint
  <2> QED BY <1>1, <1>3, <2>2, QueueTypes
<1> QED BY <1>2, <1>3

LEMMA LeavesSorted ==
  ASSUME IInv, Sorted, NEW i \in 1..Len(m_assignments), JobLeaves(i)
  PROVE  Sorted'
<1> DEFINE q == m_assignments
           r == RemoveAt(m_assignments, i)
<1>1. /\ Len(r) = Len(q) - 1 /\ Len(q) \in Nat
      /\ \A k \in 1..(Len(q) - 1) : r[k] = IF k < i THEN q[k] ELSE q[k + 1]
  BY QueueTypes, RemoveAtFacts
<1>2. m_assignments' = r
  BY DEF JobLeaves
<1>3. \A m, n \in 1..Len(q) : m < n => priority[q[m]] >= priority[q[n]]
  BY DEF Sorted
<1> HIDE DEF q, r
<1>4. ASSUME NEW m \in 1..Len(r), NEW n \in 1..Len(r), m < n
      PROVE  priority[r[m]] >= priority[r[n]]
  <2>1. CASE n < i
    <3>1. r[m] = q[m] /\ r[n] = q[n] /\ m \in 1..Len(q) /\ n \in 1..Len(q)
      BY <1>1, <1>4, <2>1
    <3> QED BY <1>3, <1>4, <3>1
  <2>2. CASE m < i /\ ~(n < i)
    <3>1. /\ r[m] = q[m] /\ r[n] = q[n + 1]
          /\ m \in 1..Len(q) /\ n + 1 \in 1..Len(q) /\ m < n + 1
      BY <1>1, <1>4, <2>2
    <3> QED BY <1>3, <3>1
  <2>3. CASE ~(m < i)
    <3>1. /\ r[m] = q[m + 1] /\ r[n] = q[n + 1]
          /\ m + 1 \in 1..Len(q) /\ n + 1 \in 1..Len(q) /\ m + 1 < n + 1
      BY <1>1, <1>4, <2>3
    <3> QED BY <1>3, <3>1
  <2> QED BY <1>1, <1>4, <2>1, <2>2, <2>3
<1> QED BY <1>2, <1>4 DEF Sorted

LEMMA ComesSorted ==
  ASSUME IInv, Sorted, NEW i \in 0..Len(m_assignments), NEW j \in Jobs \ Queued,
         JobComes(i, j)
  PROVE  Sorted'
<1> DEFINE q == m_assignments
           r == InsertAt(m_assignments, i + 1, j)
<1>0. i + 1 \in 1..(Len(q) + 1) /\ i \in 0..Len(q)
  BY QueueTypes
<1>1. /\ Len(r) = Len(q) + 1 /\ Len(q) \in Nat /\ i \in 0..Len(q)
      /\ \A k \in 1..(Len(q) + 1) :
           r[k] = IF k < i + 1 THEN q[k] ELSE IF k = i + 1 THEN j ELSE q[k - 1]
  BY <1>0, QueueTypes, InsertAtFacts
<1>2. m_assignments' = r
  BY DEF JobComes
<1>3. /\ \A m, n \in 1..Len(q) : m < n => priority[q[m]] >= priority[q[n]]
      /\ \A k \in 1..Len(q) : k <= i <=> priority[q[k]] >= priority[j]
      /\ \A k \in 1..Len(q) : priority[q[k]] \in Int
      /\ priority[j] \in Int
  BY InsertionPointSplits, QueueTypes, JobConstants DEF Sorted, JobComes
<1> HIDE DEF q, r
<1>4. ASSUME NEW m \in 1..Len(r), NEW n \in 1..Len(r), m < n
      PROVE  priority[r[m]] >= priority[r[n]]
  <2>1. CASE n < i + 1
    <3>1. r[m] = q[m] /\ r[n] = q[n] /\ m \in 1..Len(q) /\ n \in 1..Len(q)
      BY <1>1, <1>4, <2>1
    <3> QED BY <1>3, <1>4, <3>1
  <2>2. CASE n = i + 1
    <3>1. r[m] = q[m] /\ r[n] = j /\ m \in 1..Len(q) /\ m <= i
      BY <1>1, <1>4, <2>2
    <3>2. priority[q[m]] >= priority[j]
      BY <1>3, <3>1
    <3> QED BY <3>1, <3>2
  <2>3. CASE n > i + 1 /\ m < i + 1
    <3>1. /\ r[m] = q[m] /\ r[n] = q[n - 1] /\ m < n - 1
          /\ m \in 1..Len(q) /\ n - 1 \in 1..Len(q)
      BY <1>1, <1>4, <2>3
    <3> QED BY <1>3, <3>1
  <2>4. CASE n > i + 1 /\ m = i + 1
    <3>1. r[m] = j /\ r[n] = q[n - 1] /\ n - 1 \in 1..Len(q) /\ ~(n - 1 <= i)
      BY <1>1, <1>4, <2>4
    <3>2. priority[q[n - 1]] \in Int /\ ~(priority[q[n - 1]] >= priority[j])
      BY <1>3, <3>1
    <3> QED BY <1>3, <3>1, <3>2
  <2>5. CASE m > i + 1
    <3>1. /\ r[m] = q[m - 1] /\ r[n] = q[n - 1] /\ m - 1 < n - 1
          /\ m - 1 \in 1..Len(q) /\ n - 1 \in 1..Len(q)
      BY <1>1, <1>4, <2>5
    <3> QED BY <1>3, <3>1
  <2>6. m \in Int /\ n \in Int /\ i \in Int
    BY <1>1
  <2> QED BY <2>1, <2>2, <2>3, <2>4, <2>5, <2>6
<1> QED BY <1>2, <1>4 DEF Sorted

LEMMA NextSorted == IInv /\ Sorted /\ [Next]_vars => Sorted'
<1> SUFFICES ASSUME IInv, Sorted, [Next]_vars PROVE Sorted'
  OBVIOUS
<1>1. CASE UNCHANGED m_assignments
  BY <1>1 DEF Sorted
<1>2. CASE m_assignments' = <<>>
  BY <1>2 DEF Sorted
<1> QED BY <1>1, <1>2, QueueMoves, LeavesSorted, ComesSorted

LEMMA SortedAlways == Spec => []Sorted
<1>1. Init => Sorted
  BY DEF Init, Sorted
<1> QED BY <1>1, Invariance, NextSorted, PTL DEF Spec

\* The jobs that stay in the queue keep their order.
StayingInOrder ==
  \A x, y \in Queued \cap Queued' :
    Precedes(m_assignments, x, y) <=> Precedes(m_assignments', x, y)

\* A new job comes behind exactly those that do not have a lower priority.
NewInPlace ==
  \A x \in Queued' \ Queued, y \in Queued \cap Queued' :
    Precedes(m_assignments', y, x) <=> priority[y] >= priority[x]

LEMMA StepInOrder ==
  ASSUME IInv, Sorted, [Next]_vars
  PROVE  StayingInOrder /\ NewInPlace
<1> DEFINE q == m_assignments
<1>0. q \in Seq(Jobs) /\ IsInjective(q) /\ Queued = ToSet(q) /\ Queued' = ToSet(q')
  BY QueueTypes DEF Queued
<1>1. CASE UNCHANGED m_assignments
  BY <1>0, <1>1 DEF StayingInOrder, NewInPlace
<1>2. CASE m_assignments' = <<>>
  <2>1. Queued' = {}
    BY <1>2 DEF Queued, ToSet
  <2> QED BY <2>1 DEF StayingInOrder, NewInPlace
<1>3. ASSUME NEW i \in 1..Len(q), JobLeaves(i)
      PROVE  StayingInOrder /\ NewInPlace
  <2>1. q' = RemoveAt(q, i)
    BY <1>3 DEF JobLeaves
  <2>2. Queued' = Queued \ {q[i]}
    BY <1>0, <2>1, RemoveAtSet
  <2>3. \A x, y \in ToSet(q) \ {q[i]} :
          Precedes(q, x, y) <=> Precedes(RemoveAt(q, i), x, y)
    BY <1>0, RemoveAtOrder
  <2> QED BY <1>0, <2>1, <2>2, <2>3 DEF StayingInOrder, NewInPlace
<1>4. ASSUME NEW i \in 0..Len(q), NEW j \in Jobs \ Queued, JobComes(i, j)
      PROVE  StayingInOrder /\ NewInPlace
  <2>1. q' = InsertAt(q, i + 1, j) /\ InsertionPoint(i, j)
    BY <1>4 DEF JobComes
  <2>2. Queued' = Queued \cup {j}
    <3>1. i + 1 \in 1..(Len(q) + 1)
      BY <1>4, QueueTypes
    <3> QED BY <1>0, <2>1, <3>1, InsertAtSet
  <2>3. /\ \A x, y \in ToSet(q) : Precedes(q, x, y) <=> Precedes(q', x, y)
        /\ \A y \in ToSet(q) : Precedes(q', y, j) <=> \E k \in 1..i : q[k] = y
    BY <1>0, <2>1, InsertAtOrder
  <2>4. \A k \in 1..Len(q) : k <= i <=> priority[q[k]] >= priority[j]
    BY <2>1, InsertionPointSplits
  <2>5. ASSUME NEW y \in ToSet(q)
        PROVE  (\E k \in 1..i : q[k] = y) <=> priority[y] >= priority[j]
    <3>1. PICK n \in 1..Len(q) : q[n] = y
      BY QueueTypes DEF ToSet
    <3>2. \A k \in 1..Len(q) : q[k] = y => k = n
      BY <1>0, <3>1, QueueTypes DEF IsInjective
    <3>3. (\E k \in 1..i : q[k] = y) <=> n <= i
      BY <3>1, <3>2, QueueTypes
    <3> QED BY <2>4, <3>1, <3>3
  <2> QED BY <1>0, <2>2, <2>3, <2>5 DEF StayingInOrder, NewInPlace
<1> QED BY <1>1, <1>2, <1>3, <1>4, QueueMoves

\* Whatever is queued, dequeued and taken: jobs of a higher priority are
\* before jobs of a lower one, and equals in the order they came.
THEOREM QueueIsOrdered == Spec => QueueOrder
<1>1. IInv /\ Sorted /\ [Next]_vars =>
        [LET stay == Queued \cap Queued' IN
           /\ \A x, y \in stay :
                Precedes(m_assignments, x, y) <=> Precedes(m_assignments', x, y)
           /\ \A x \in Queued' \ Queued, y \in stay :
                Precedes(m_assignments', y, x) <=> priority[y] >= priority[x]]_vars
  BY StepInOrder DEF StayingInOrder, NewInPlace
<1> QED BY <1>1, Invariance, SortedAlways, PTL DEF Spec, QueueOrder

-----------------------------------------------------------------------------
(* The stages of jobs *)

\* A thread that frees the policies of its job has executed it.
DoneInv ==
  \A t \in Threads : pc[t] \in {"free", "jobDone"} => job[t] \in finished

InHands(j) == \E t \in Threads : job[t] = j

\* The jobs stay where they are.
JobsSame ==
  /\ UNCHANGED <<finished, succeeded, deleted, m_assignments>>
  /\ \A t \in Threads : job'[t] = job[t]

PermissionsSame == UNCHANGED <<customers, cap>>

LEMMA QuietWorker ==
  ASSUME IInv, NEW t \in Threads,
         \/ ApplyForWork(t) \/ LockQueue(t) \/ NothingAvailable(t)
         \/ IncActive(t) \/ WaitForAvailableJob(t) \/ Block(t) \/ EmitDone(t)
         \/ DecActive(t) \/ SetStateStep(t)
  PROVE  JobsSame /\ PermissionsSame
BY DEF JobsSame, PermissionsSame, ApplyForWork, LockQueue, NothingAvailable,
   IncActive, WaitForAvailableJob, Block, EmitDone, DecActive, SetStateStep,
   Activated, SuspCheck, SuspSet, jobVars, policyVars

LEMMA QuietClient ==
  ASSUME IInv, NEW c \in Clients,
         \/ FinishTest(c) \/ FinishWait(c) \/ FinishTimeout(c)
         \/ DtorWake(c) \/ DtorNext(c) \/ DtorJoined(c) \/ DtorRetry(c)
         \/ DtorEnd(c) \/ SetStateStep(c)
         \/ \E j \in Jobs : AdjustInventory(c, j)
         \/ \E n \in MaxValues : SetMaximumNumberOfThreads(c, n)
         \/ Suspend(c) \/ Resume(c) \/ Finish(c) \/ ShutDown(c)
  PROVE  JobsSame /\ PermissionsSame
<1>1. UNCHANGED <<finished, succeeded, deleted, m_assignments, customers, cap>>
  BY DEF FinishTest, FinishWait, FinishTimeout, DtorWake, DtorNext, DtorJoined,
   DtorRetry, DtorEnd, SetStateStep, Activated, SuspCheck, SuspSet,
   AdjustInventory, SetMaximumNumberOfThreads, Suspend, Resume, Finish,
   ShutDown, jobVars, policyVars
<1>2. UNCHANGED job \/ \E j \in Jobs : job' = [job EXCEPT ![c] = j]
  BY DEF FinishTest, FinishWait, FinishTimeout, DtorWake, DtorNext, DtorJoined,
   DtorRetry, DtorEnd, SetStateStep, Activated, SuspCheck, SuspSet,
   AdjustInventory, SetMaximumNumberOfThreads, Suspend, Resume, Finish, ShutDown
<1>3. \A t \in Threads : job'[t] = job[t]
  BY <1>2, ProcsDisjoint DEF IInv, TypeOK, Procs
<1> QED BY <1>1, <1>3 DEF JobsSame, PermissionsSame

\* A job that was executed is not executed again, also in the hands of the
\* thread that executed it.
LEMMA NextDone == IInv /\ DoneInv /\ [Next]_vars => DoneInv'
<1> SUFFICES ASSUME IInv, DoneInv, [Next]_vars PROVE DoneInv'
  OBVIOUS
<1> DEFINE Late == {"free", "jobDone"}
           StaysLate(u) ==
             /\ pc'[u] \in Late => pc[u] \in Late /\ job'[u] = job[u]
             /\ finished \subseteq finished'
<1>0. /\ pc \in [Procs -> ThreadPcs \cup ClientPcs \cup SetStatePcs]
      /\ job \in [Procs -> Jobs \cup {NoJob}]
      /\ Threads \subseteq Procs /\ Clients \subseteq Procs
      /\ Threads \cap Clients = {}
  BY ProcsDisjoint DEF IInv, TypeOK, Procs
<1>1. ASSUME \A u \in Threads : StaysLate(u) PROVE DoneInv'
  BY <1>1 DEF DoneInv
<1>2. CASE UNCHANGED vars
  BY <1>1, <1>2 DEF vars, jobVars
<1>3. ASSUME NEW p \in Procs, NEW l, l \notin Late,
             Goto(p, l) \/ WakeThreads(p, l) \/ WakeFinish(p, l),
             UNCHANGED <<job, finished>>
      PROVE  DoneInv'
  <2>1. \A u \in Threads : StaysLate(u)
    BY <1>0, <1>3 DEF Goto, WakeThreads, WakeFinish
  <2> QED BY <1>1, <2>1
<1>4. ASSUME NEW p \in Procs, SetStateStep(p) PROVE DoneInv'
  <2>1. PICK l \in {"wait", "idle", "suspCheck", "suspSet", "activated"} :
          Goto(p, l) \/ WakeThreads(p, l)
    BY <1>4 DEF SetStateStep, Activated, SuspCheck, SuspSet, AfterSetState
  <2>2. UNCHANGED <<job, finished>>
    BY <1>4 DEF SetStateStep, Activated, SuspCheck, SuspSet, jobVars
  <2> QED BY <1>3, <2>1, <2>2
<1>5. ASSUME NEW t \in Threads, Worker(t) PROVE DoneInv'
  <2>0. t \in Procs
    BY <1>0
  <2>1. CASE \/ ApplyForWork(t) \/ LockQueue(t) \/ NothingAvailable(t)
             \/ IncActive(t) \/ WaitForAvailableJob(t) \/ Block(t) \/ DecActive(t)
    <3>1. PICK l \in ThreadPcs \cup SetStatePcs : l \notin Late /\
            (Goto(t, l) \/ WakeFinish(t, l))
      BY <2>1 DEF ApplyForWork, LockQueue, NothingAvailable, IncActive,
         WaitForAvailableJob, Block, DecActive, ThreadPcs, SetStatePcs
    <3>2. UNCHANGED <<job, finished>>
      BY <2>1 DEF ApplyForWork, LockQueue, NothingAvailable, IncActive,
         WaitForAvailableJob, Block, DecActive, jobVars
    <3> QED BY <1>3, <2>0, <3>1, <3>2
  <2>2. CASE PolicyAgrees(t) \/ PolicyRefuses(t) \/ FreePolicy(t)
    BY <1>1, <2>2 DEF PolicyAgrees, PolicyRefuses, FreePolicy, jobVars
  <2>3. CASE TakeJob(t)
    BY <1>0, <1>1, <2>3 DEF TakeJob, Goto, jobVars
  <2>4. CASE RunJob(t)
    <3>1. /\ \A u \in Threads \ {t} : pc'[u] = pc[u]
          /\ UNCHANGED job /\ finished' = finished \cup {job[t]}
      BY <1>0, <2>4 DEF RunJob, Goto
    <3> QED BY <3>1 DEF DoneInv
  <2>5. CASE EmitDone(t)
    <3>1. \A u \in Threads : StaysLate(u)
      BY <1>0, <2>5 DEF EmitDone, At, Goto, jobVars
    <3> QED BY <1>1, <3>1
  <2>6. CASE ForgetJob(t)
    BY <1>0, <1>1, <2>6 DEF ForgetJob, Goto, jobVars
  <2> QED BY <1>4, <1>5, <2>0, <2>1, <2>2, <2>3, <2>4, <2>5, <2>6 DEF Worker
<1>6. ASSUME NEW c \in Clients, ClientStep(c) \/ ClientCall(c) PROVE DoneInv'
  <2>0. c \in Procs /\ c \notin Threads
    BY <1>0
  <2>1. CASE \/ Suspend(c) \/ Resume(c) \/ ShutDown(c) \/ Finish(c)
             \/ FinishTest(c) \/ FinishWait(c) \/ FinishTimeout(c)
             \/ DtorWake(c) \/ DtorNext(c) \/ DtorJoined(c) \/ DtorRetry(c)
             \/ DtorEnd(c)
    <3>1. PICK l \in {"activated", "dtorWake", "dtorNext", "dtorJoin", "gone",
                      "idle", "finishTest", "finishWait", "finishWaiting"} :
            Goto(c, l) \/ WakeThreads(c, l)
      BY <2>1 DEF Suspend, Resume, ShutDown, Finish, FinishTest, FinishWait,
         FinishTimeout, DtorWake, DtorNext, DtorJoined, DtorRetry, DtorEnd
    <3>2. UNCHANGED <<job, finished>>
      BY <2>1 DEF Suspend, Resume, ShutDown, Finish, FinishTest, FinishWait,
         FinishTimeout, DtorWake, DtorNext, DtorJoined, DtorRetry, DtorEnd, jobVars
    <3> QED BY <1>3, <2>0, <3>1, <3>2
  <2>2. CASE Enqueue(c)
    BY <1>0, <1>1, <2>0, <2>2 DEF Enqueue, WakeThreads, jobVars
  <2>3. ASSUME NEW j \in Jobs, AdjustInventory(c, j) PROVE DoneInv'
    BY <1>0, <1>1, <2>0, <2>3 DEF AdjustInventory, Goto, jobVars
  <2>4. ASSUME NEW j \in Jobs, Dequeue(c, j) PROVE DoneInv'
    BY <1>0, <1>1, <2>4 DEF Dequeue, Goto, jobVars
  <2>5. ASSUME NEW j \in Jobs, DeleteJob(c, j) PROVE DoneInv'
    BY <1>1, <2>5 DEF DeleteJob
  <2>6. CASE \/ DequeueAll(c)
             \/ \E n \in MaxValues : SetMaximumNumberOfThreads(c, n)
             \/ \E r \in Restrictions, n \in CapValues : SetCap(c, r, n)
    BY <1>1, <2>6 DEF DequeueAll, SetMaximumNumberOfThreads, SetCap, jobVars
  <2> QED BY <1>4, <1>6, <2>0, <2>1, <2>2, <2>3, <2>4, <2>5, <2>6
          DEF ClientStep, ClientCall
<1> QED BY <1>2, <1>5, <1>6 DEF Next

\* The alternatives of Stage exclude each other.
OnePlace(j) ==
  /\ j \in Queued => j \notin finished \cup deleted
  /\ InHands(j) => j \notin Queued

LEMMA InOnePlace ==
  ASSUME IInv, NEW j
  PROVE  OnePlace(j)
BY DEF OnePlace, InHands, IInv, JobsAreExclusive, Procs

LEMMA InOnePlaceNext ==
  ASSUME IInv', NEW j
  PROVE  OnePlace(j)'
BY DEF OnePlace, InHands, IInv, JobsAreExclusive, Procs

\* What a job is in the abstract scheduling.
LEMMA StageIs ==
  ASSUME NEW j, OnePlace(j)
  PROVE  /\ j \in deleted => Stage(j) = "deleted"
         /\ j \in finished \ deleted =>
              Stage(j) = IF j \in succeeded THEN "succeeded" ELSE "failed"
         /\ j \in Queued \ (finished \cup deleted) => Stage(j) = "queued"
         /\ j \notin Queued \cup finished \cup deleted =>
              Stage(j) = IF InHands(j) THEN "running" ELSE "idle"
<1>1. CASE j \in deleted
  BY <1>1 DEF Stage, InHands, OnePlace
<1>2. CASE j \in finished \ deleted
  BY <1>2 DEF Stage, InHands, OnePlace
<1>3. CASE j \in Queued \ (finished \cup deleted)
  BY <1>3 DEF Stage, InHands, OnePlace
<1>4. CASE j \notin Queued \cup finished \cup deleted
  BY <1>4 DEF Stage, InHands, OnePlace
<1> QED BY <1>1, <1>2, <1>3, <1>4

LEMMA StageWillBe ==
  ASSUME NEW j, OnePlace(j)'
  PROVE  /\ j \in deleted' => Stage(j)' = "deleted"
         /\ j \in finished' \ deleted' =>
              Stage(j)' = IF j \in succeeded' THEN "succeeded" ELSE "failed"
         /\ j \in Queued' \ (finished' \cup deleted') => Stage(j)' = "queued"
         /\ j \notin Queued' \cup finished' \cup deleted' =>
              Stage(j)' = IF InHands(j)' THEN "running" ELSE "idle"
<1>1. CASE j \in deleted'
  BY <1>1 DEF Stage, InHands, OnePlace
<1>2. CASE j \in finished' \ deleted'
  BY <1>2 DEF Stage, InHands, OnePlace
<1>3. CASE j \in Queued' \ (finished' \cup deleted')
  BY <1>3 DEF Stage, InHands, OnePlace
<1>4. CASE j \notin Queued' \cup finished' \cup deleted'
  BY <1>4 DEF Stage, InHands, OnePlace
<1> QED BY <1>1, <1>2, <1>3, <1>4

LEMMA SameStage ==
  ASSUME IInv, IInv', NEW j,
         j \in deleted' <=> j \in deleted,
         j \in finished' <=> j \in finished,
         j \in succeeded' <=> j \in succeeded,
         j \in Queued' <=> j \in Queued,
         j \in finished \/ (InHands(j)' <=> InHands(j))
  PROVE  Stage(j)' = Stage(j)
<1>1. OnePlace(j) /\ OnePlace(j)'
  BY InOnePlace, InOnePlaceNext
<1>2. CASE j \in deleted
  BY <1>1, <1>2, StageIs, StageWillBe
<1>3. CASE j \in finished \ deleted
  BY <1>1, <1>3, StageIs, StageWillBe
<1>4. CASE j \in Queued \ (finished \cup deleted)
  BY <1>1, <1>4, StageIs, StageWillBe
<1>5. CASE j \notin Queued \cup finished \cup deleted
  BY <1>1, <1>5, StageIs, StageWillBe
<1> QED BY <1>2, <1>3, <1>4, <1>5

Status == [j \in Jobs |-> Stage(j)]

Permitted == [r \in Restrictions |-> ToSet(customers[r])]

LEMMA SamePermitted ==
  ASSUME UNCHANGED customers
  PROVE  UNCHANGED Permitted
BY DEF Permitted

LEMMA SameStatus ==
  ASSUME IInv, IInv', JobsSame
  PROVE  UNCHANGED Status
<1>1. \A j : InHands(j)' <=> InHands(j)
  BY DEF JobsSame, InHands
<1>2. UNCHANGED Queued
  BY DEF JobsSame, Queued
<1>3. \A j \in Jobs : Stage(j)' = Stage(j)
  BY <1>1, <1>2, SameStage DEF JobsSame
<1> QED BY <1>3 DEF Status

LEMMA OneStage ==
  ASSUME NEW j \in Jobs, NEW s, Stage(j)' = s,
         \A k \in Jobs \ {j} : Stage(k)' = Stage(k)
  PROVE  Status' = [Status EXCEPT ![j] = s]
BY DEF Status

\* Who has no permission.
LEMMA HoldsNothing ==
  ASSUME IInv, PInv, NEW j \in Jobs,
         MutexFree \/ j \notin Queued,
         \A t \in Threads : job[t] = j => pc[t] = "jobDone",
         NEW r \in Restrictions
  PROVE  j \notin Permitted[r]
<1>1. ~ScanHolds(r, j)
  <2>1. \A t \in Threads : pc[t] = "scan" => m_mutex # NoThread
    BY ProcsDisjoint DEF IInv, LockInv, Procs
  <2> QED BY <2>1, ScannedJob DEF ScanHolds, Scanning, At, MutexFree
<1>2. \A t \in Threads : ~ThreadHolds(t, r, j)
  BY DEF ThreadHolds, Ready
<1> QED BY <1>1, <1>2 DEF Holders, PInv, ListInv, Permitted

-----------------------------------------------------------------------------
(* One lemma for every action of the abstract scheduling *)

LEMMA Stutters ==
  ASSUME IInv, IInv', JobsSame, PermissionsSame
  PROVE  UNCHANGED Scheduling!abstractVars
<1>1. UNCHANGED Status /\ UNCHANGED Permitted /\ UNCHANGED cap
  BY SameStatus, SamePermitted DEF PermissionsSame
<1> QED BY <1>1 DEF Scheduling!abstractVars, Status, Permitted

LEMMA EnqueueSubmits ==
  ASSUME IInv, IInv', NEW c \in Clients, Enqueue(c)
  PROVE  \E j \in Jobs : Scheduling!Submit(j)
<1>1. c \in Procs /\ c \notin Threads /\ pc[c] = "enqueue"
  BY ProcsDisjoint DEF Enqueue, At, Procs
<1>2. job[c] \in Jobs \ Queued
  BY <1>1 DEF IInv, TypeOK, HoldInv, JobsAreExclusive
<1>3. job[c] \notin finished \cup deleted
  BY <1>1 DEF IInv, DeletedInv, JobsAreExclusive
<1>4. \A t \in Threads : job[t] # job[c]
  BY <1>1, <1>2, ProcsDisjoint DEF IInv, JobsAreExclusive, Procs
<1>5. PICK j \in Jobs \ Queued : j = job[c]
  BY <1>2
<1>6. /\ c \in Procs /\ c \notin Threads
      /\ j \in Jobs \ Queued /\ j \notin finished \cup deleted
      /\ \A t \in Threads : job[t] # j
  BY <1>1, <1>3, <1>4, <1>5
<1>7. /\ UNCHANGED <<finished, succeeded, deleted, customers, cap>>
      /\ \A t \in Threads : job'[t] = job[t]
  BY <1>6 DEF Enqueue, jobVars, policyVars, IInv, TypeOK, Procs
<1>8. Queued' = Queued \cup {j}
  <2>1. PICK i \in 0..Len(m_assignments) :
          m_assignments' = InsertAt(m_assignments, i + 1, j)
    BY <1>5 DEF Enqueue
  <2>2. i + 1 \in 1..(Len(m_assignments) + 1)
    BY QueueTypes
  <2> QED BY <1>6, <2>1, <2>2, QueueTypes, InsertAtSet DEF Queued
<1>9. \A k : InHands(k)' <=> InHands(k)
  BY <1>7 DEF InHands
<1>10. Stage(j) = "idle" /\ Stage(j)' = "queued"
  <2>1. OnePlace(j) /\ OnePlace(j)'
    BY InOnePlace, InOnePlaceNext
  <2>2. ~InHands(j)
    BY <1>6 DEF InHands
  <2> QED BY <1>6, <1>7, <1>8, <2>1, <2>2, StageIs, StageWillBe
<1>11. \A k \in Jobs \ {j} : Stage(k)' = Stage(k)
  BY <1>7, <1>8, <1>9, SameStage
<1>12. Status' = [Status EXCEPT ![j] = "queued"] /\ Status[j] = "idle"
  BY <1>6, <1>10, <1>11, OneStage DEF Status
<1>13. UNCHANGED Permitted
  BY <1>7, SamePermitted
<1> QED BY <1>6, <1>7, <1>12, <1>13 DEF Scheduling!Submit, Status, Permitted

\* Nobody scans while jobs are dequeued, so that they have no permissions.
LEMMA Withdraws ==
  ASSUME IInv, IInv', PInv, MutexFree, NEW js \in SUBSET Queued,
         UNCHANGED <<finished, succeeded, deleted, customers, cap>>,
         \A t \in Threads : job'[t] = job[t],
         Queued' = Queued \ js
  PROVE  Scheduling!Withdraw(js)
<1>1. \A k : InHands(k)' <=> InHands(k)
  BY DEF InHands
<1>2. js \subseteq Jobs
  BY QueueTypes DEF ToSet
<1>3. ASSUME NEW j \in js
      PROVE  /\ Stage(j) = "queued" /\ Stage(j)' = "idle"
             /\ \A r \in Restrictions : j \notin Permitted[r]
  <2>1. OnePlace(j) /\ OnePlace(j)'
    BY InOnePlace, InOnePlaceNext
  <2>2. ~InHands(j) /\ j \notin finished \cup deleted
    BY <2>1 DEF OnePlace
  <2>3. Stage(j) = "queued" /\ Stage(j)' = "idle"
    BY <1>1, <2>1, <2>2, StageIs, StageWillBe
  <2>4. \A t \in Threads : job[t] # j
    BY <2>2 DEF InHands
  <2> QED BY <1>2, <2>3, <2>4, HoldsNothing
<1>4. \A k \in Jobs \ js : Stage(k)' = Stage(k)
  BY <1>1, SameStage
<1>5. Status' = [j \in Jobs |-> IF j \in js THEN "idle" ELSE Status[j]]
  BY <1>3, <1>4 DEF Status
<1>6. \A j \in js : Status[j] = "queued"
  BY <1>2, <1>3 DEF Status
<1>7. UNCHANGED Permitted
  BY SamePermitted
<1> QED BY <1>3, <1>5, <1>6, <1>7 DEF Scheduling!Withdraw, Status, Permitted

LEMMA DequeueWithdraws ==
  ASSUME IInv, IInv', PInv, NEW c \in Clients,
         DequeueAll(c) \/ \E j \in Jobs : Dequeue(c, j)
  PROVE  \E js \in SUBSET Jobs : Scheduling!Withdraw(js)
<1>1. /\ MutexFree
      /\ UNCHANGED <<finished, succeeded, deleted, customers, cap, job>>
  BY DEF DequeueAll, Dequeue, jobVars, policyVars
<1>2. Queued \subseteq Jobs
  BY QueueTypes DEF ToSet
<1>3. CASE DequeueAll(c)
  <2>1. Queued' = Queued \ Queued
    BY <1>3 DEF DequeueAll, Queued, ToSet
  <2> QED BY <1>1, <1>2, <2>1, Withdraws
<1>4. ASSUME NEW j \in Jobs, Dequeue(c, j)
      PROVE  \E js \in SUBSET Jobs : Scheduling!Withdraw(js)
  <2>1. {j} \in SUBSET Queued /\ Queued' = Queued \ {j}
    BY <1>4, QueueTypes, RemoveFirstSet DEF Dequeue, Queued
  <2> QED BY <1>1, <1>2, <2>1, Withdraws
<1> QED BY <1>3, <1>4

LEMMA SameCardinality == \A S : Scheduling!Cardinality(S) = Cardinality(S)
BY DEF Scheduling!Cardinality, Cardinality

\* A list of customers has room where the set of permissions has.
LEMMA AgreesPermits ==
  ASSUME IInv, IInv', PInv, NEW t \in Threads, PolicyAgrees(t)
  PROVE  \/ UNCHANGED Scheduling!abstractVars
         \/ \E j \in Jobs, r \in Restrictions : Scheduling!Permit(j, r)
<1>0. PICK j, p : j = Scanned /\ p = ScannedPolicies[policy[t]]
  OBVIOUS
<1>1. JobsSame /\ UNCHANGED cap
  BY DEF PolicyAgrees, JobsSame, acquire, jobVars
<1>2. /\ Scanning(t) /\ policy[t] <= Len(ScannedPolicies) /\ canRun(p, j)
      /\ customers' = [r \in Restrictions |->
            IF r = p THEN Append(customers[r], j) ELSE customers[r]]
      /\ customers \in [Restrictions -> Seq(Jobs)]
  BY <1>0 DEF PolicyAgrees, acquire, IInv, TypeOK, PolicyTypeOK
<1>3. j \in Jobs /\ j \in Queued /\ \A u \in Threads : job[u] # j
  BY <1>0, <1>2, ScannedJob
<1>4. policy[t] \in 1..Len(ScannedPolicies) /\ p \in Policies
  BY <1>0, <1>2, <1>3, ListsOfPolicies DEF ScannedPolicies, IInv, TypeOK
<1>5. CASE p \notin Restrictions
  <2>1. customers' = customers
    BY <1>2, <1>5
  <2> QED BY <1>1, <2>1, Stutters DEF PermissionsSame
<1>6. CASE p \in Restrictions
  <2>1. Stage(j) = "queued"
    BY <1>3, InOnePlace, StageIs DEF OnePlace
  <2>2. p \in ToSet(queuePolicies[j]) \cap Restrictions
    <3>1. p = queuePolicies[j][policy[t]] /\ policy[t] \in 1..Len(queuePolicies[j])
      BY <1>0, <1>4 DEF ScannedPolicies
    <3> QED BY <1>3, <1>6, <3>1, ListsOfPolicies
  <2>3. j \notin Permitted[p]
    <3>1. ~ScanHolds(p, j)
      <4>1. \A u \in Threads : Scanning(u) => u = t
        BY <1>2, ScannedJob
      <4>2. \A n \in 1..Len(ScannedPolicies) : ScannedPolicies[n] = p => n = policy[t]
        BY <1>0, <1>3, <1>4, ListsOfPolicies DEF ScannedPolicies
      <4>3. policy[t] \in Nat
        BY DEF IInv, TypeOK
      <4> QED BY <1>4, <4>1, <4>2, <4>3 DEF ScanHolds
    <3>2. \A u \in Threads : ~ThreadHolds(u, p, j)
      BY <1>3 DEF ThreadHolds
    <3> QED BY <1>6, <3>1, <3>2 DEF PInv, ListInv, Holders, Permitted
  <2>4. Cardinality(Permitted[p]) < cap[p]
    <3>1. Len(customers[p]) < cap[p] /\ cap[p] \in Int /\ Len(customers[p]) \in Nat
      BY <1>2, <1>6, PolicyIdentity, ListLengths DEF canRun
    <3>2. Cardinality(ToSet(customers[p])) <= Len(customers[p])
      BY <1>2, <1>6, FewerElements
    <3>3. Cardinality(ToSet(customers[p])) \in Nat
      BY <1>2, <1>6, FS_CardinalityType, JobsFinite, FS_Subset DEF ToSet
    <3> QED BY <1>6, <3>1, <3>2, <3>3 DEF Permitted
  <2>5. Permitted' = [Permitted EXCEPT ![p] = @ \cup {j}]
    <3>1. \A r \in Restrictions :
            ToSet(customers'[r]) =
              IF r = p THEN ToSet(customers[r]) \cup {j} ELSE ToSet(customers[r])
      <4>1. \A r \in Restrictions :
              ToSet(Append(customers[r], j)) = ToSet(customers[r]) \cup {j}
        BY <1>2, <1>3, AppendSet
      <4> QED BY <1>2, <4>1
    <3> QED BY <3>1 DEF Permitted
  <2>6. UNCHANGED Status /\ Status[j] = "queued"
    BY <1>1, <1>3, <2>1, SameStatus DEF Status
  <2>7. p \in [k \in Jobs |-> ToSet(queuePolicies[k]) \cap Restrictions][j]
    BY <1>3, <2>2
  <2>8. Scheduling!Permit(j, p)
    BY <1>1, <1>6, <2>3, <2>4, <2>5, <2>6, <2>7, SameCardinality
       DEF Scheduling!Permit, Status, Permitted
  <2> QED BY <1>3, <1>6, <2>8
<1> QED BY <1>5, <1>6

\* The lists without one of their customers, as sets.
LEMMA Releases ==
  ASSUME IInv, PInv, NEW ps, NEW j,
         customers' = [r \in Restrictions |->
            IF r \in ps THEN RemoveFirst(customers[r], j) ELSE customers[r]]
  PROVE  Permitted' = [r \in Restrictions |->
            IF r \in ps \cap Restrictions THEN Permitted[r] \ {j} ELSE Permitted[r]]
<1>1. ASSUME NEW r \in Restrictions
      PROVE  ToSet(RemoveFirst(customers[r], j)) = ToSet(customers[r]) \ {j}
  <2>1. customers[r] \in Seq(Jobs) /\ IsInjective(customers[r])
    BY DEF IInv, TypeOK, PolicyTypeOK, PInv, ListInv
  <2> QED BY <2>1, RemoveFirstSet
<1> QED BY <1>1 DEF Permitted

LEMMA RefusesReturns ==
  ASSUME IInv, IInv', PInv, NEW t \in Threads, PolicyRefuses(t)
  PROVE  \E j \in Jobs, rs \in SUBSET Restrictions : Scheduling!Return(j, rs)
<1>1. PICK j, ps : /\ j = Scanned
                   /\ ps = {ScannedPolicies[n] : n \in 1..(policy[t] - 1)}
  OBVIOUS
<1>2. /\ Scanning(t) /\ JobsSame /\ UNCHANGED cap
      /\ customers' = [r \in Restrictions |->
            IF r \in ps THEN RemoveFirst(customers[r], j) ELSE customers[r]]
  BY <1>1 DEF PolicyRefuses, release, JobsSame, jobVars
<1>3. j \in Jobs /\ j \in Queued
  BY <1>1, <1>2, ScannedJob
<1>4. Stage(j) = "queued"
  BY <1>3, InOnePlace, StageIs DEF OnePlace
<1>5. UNCHANGED Status /\ Status[j] = "queued"
  BY <1>2, <1>3, <1>4, SameStatus DEF Status
<1>6. Permitted' = [r \in Restrictions |->
        IF r \in ps \cap Restrictions THEN Permitted[r] \ {j} ELSE Permitted[r]]
  BY <1>2, Releases
<1>7. Scheduling!Return(j, ps \cap Restrictions)
  BY <1>2, <1>5, <1>6 DEF Scheduling!Return, Status, Permitted
<1> QED BY <1>3, <1>7

\* A thread frees the policies after the job has ended.
LEMMA FreeReturns ==
  ASSUME IInv, IInv', PInv, DoneInv, NEW t \in Threads, FreePolicy(t)
  PROVE  \/ UNCHANGED Scheduling!abstractVars
         \/ \E j \in Jobs, rs \in SUBSET Restrictions : Scheduling!Return(j, rs)
<1>1. PICK j, p : j = job[t] /\ p = queuePolicies[job[t]][policy[t]]
  OBVIOUS
<1>2. pc[t] = "free" /\ JobsSame /\ UNCHANGED cap
  BY DEF FreePolicy, At, JobsSame, free, release, jobVars
<1>3. j \in Jobs /\ j \in finished \ deleted
  BY <1>1, <1>2 DEF DoneInv, IInv, TypeOK, DeletedInv, Procs
<1>4. CASE UNCHANGED customers
  BY <1>2, <1>4, Stutters DEF PermissionsSame
<1>5. CASE ~UNCHANGED customers
  <2>1. customers' = [r \in Restrictions |->
          IF r \in {p} THEN RemoveFirst(customers[r], j) ELSE customers[r]]
    BY <1>1, <1>5 DEF FreePolicy, free, release
  <2>2. Permitted' = [r \in Restrictions |->
          IF r \in {p} \cap Restrictions THEN Permitted[r] \ {j} ELSE Permitted[r]]
    BY <2>1, Releases
  <2>3. Stage(j) \in {"succeeded", "failed"}
    BY <1>3, InOnePlace, StageIs
  <2>4. UNCHANGED Status /\ Status[j] \in {"succeeded", "failed"}
    BY <1>2, <1>3, <2>3, SameStatus DEF Status
  <2>5. Scheduling!Return(j, {p} \cap Restrictions)
    BY <1>2, <2>2, <2>4
       DEF Scheduling!Return, Scheduling!Ended, Status, Permitted
  <2> QED BY <1>3, <2>5
<1> QED BY <1>4, <1>5

\* All policies have agreed: each restriction has the job on its list, and
\* what the job depends on is resolved.
LEMMA TakeStarts ==
  ASSUME IInv, IInv', PInv, DInv, NEW t \in Threads, TakeJob(t)
  PROVE  \E j \in Jobs : Scheduling!Start(j)
<1>1. PICK j : j = Scanned
  OBVIOUS
<1>2. /\ Scanning(t) /\ policy[t] > Len(ScannedPolicies)
      /\ UNCHANGED <<finished, succeeded, deleted, customers, cap>>
      /\ job' = [job EXCEPT ![t] = j] /\ job \in [Procs -> Jobs \cup {NoJob}]
      /\ t \in Procs /\ pc[t] = "scan"
  BY <1>1 DEF TakeJob, Scanning, At, jobVars, policyVars, IInv, TypeOK, Procs
<1>3. /\ j \in Jobs /\ j \in Queued /\ \A u \in Threads : job[u] # j
      /\ index \in 1..Len(m_assignments)
  BY <1>1, <1>2, ScannedJob
<1>4. Queued' = Queued \ {j}
  <2>1. m_assignments' = RemoveAt(m_assignments, index) /\ j = m_assignments[index]
    BY <1>1 DEF TakeJob, WithoutScanned, Scanned
  <2> QED BY <1>3, <2>1, QueueTypes, RemoveAtSet DEF Queued
<1>5. job[t] = NoJob
  BY <1>2 DEF IInv, HoldInv, Holding
<1>6. InHands(j)' /\ \A k \in Jobs \ {j} : InHands(k)' <=> InHands(k)
  <2>1. \A u \in Threads : job'[u] = IF u = t THEN j ELSE job[u]
    BY <1>2 DEF Procs
  <2> QED BY <1>5, <2>1, ProcsDisjoint DEF InHands
<1>7. Stage(j) = "queued" /\ Stage(j)' = "running"
  <2>1. OnePlace(j) /\ OnePlace(j)'
    BY InOnePlace, InOnePlaceNext
  <2>2. j \notin finished \cup deleted
    BY <1>3, <2>1 DEF OnePlace
  <2> QED BY <1>2, <1>3, <1>4, <1>6, <2>1, <2>2, StageIs, StageWillBe
<1>8. \A k \in Jobs \ {j} : Stage(k)' = Stage(k)
  BY <1>2, <1>4, <1>6, SameStage
<1>9. Status' = [Status EXCEPT ![j] = "running"] /\ Status[j] = "queued"
  BY <1>3, <1>7, <1>8, OneStage DEF Status
<1>10. \A r \in ToSet(queuePolicies[j]) \cap Restrictions : j \in Permitted[r]
  <2>1. ASSUME NEW r \in ToSet(queuePolicies[j]) \cap Restrictions
        PROVE  ScanHolds(r, j)
    <3>1. PICK n \in 1..Len(queuePolicies[j]) : queuePolicies[j][n] = r
      BY <1>3, ListsOfPolicies
    <3>2. n < policy[t] /\ ScannedPolicies = queuePolicies[j]
      BY <1>1, <1>2, <1>3, ListsOfPolicies DEF ScannedPolicies, IInv, TypeOK
    <3> QED BY <1>1, <1>2, <3>1, <3>2 DEF ScanHolds
  <2> QED BY <1>3, <2>1 DEF PInv, ListInv, Holders, Permitted
<1>11. \A d \in InitialDependencies : d[1] = j =>
         Stage(d[2]) \in {"succeeded", "deleted"}
  <2> SUFFICES ASSUME NEW d \in InitialDependencies, d[1] = j
               PROVE  Stage(d[2]) \in {"succeeded", "deleted"}
    OBVIOUS
  <2>1. DInv'
    BY TakeJobResolved
  <2>2. job'[t] = j /\ pc'[t] = "taken"
    BY <1>2 DEF TakeJob, Goto, IInv, TypeOK
  <2>3. ~hasUnresolvedDependencies(j)'
    BY <2>1, <2>2 DEF DInv, ReadyResolvedInv, Ready
  <2>4. d \notin dependencies
    BY <2>3 DEF hasUnresolvedDependencies, TakeJob, policyVars
  <2>5. d[2] \in succeeded \cup deleted /\ succeeded \subseteq finished
    BY <2>4 DEF DInv, ResolvedInv, IInv, TypeOK
  <2> QED BY <2>5, InOnePlace, StageIs
<1>12. \A d \in InitialDependencies : d[1] = j =>
         Status[d[2]] \in {"succeeded", "deleted"}
  BY <1>11, DependenciesAssigned DEF Status
<1>13. \A r \in [k \in Jobs |-> ToSet(queuePolicies[k]) \cap Restrictions][j] :
         j \in Permitted[r]
  BY <1>3, <1>10
<1>14. UNCHANGED Permitted
  BY <1>2, SamePermitted
<1>15. Scheduling!Start(j)
  BY <1>2, <1>9, <1>12, <1>13, <1>14 DEF Scheduling!Start, Status, Permitted
<1> QED BY <1>3, <1>15

LEMMA RunEnds ==
  ASSUME IInv, IInv', NEW t \in Threads, RunJob(t)
  PROVE  \E j \in Jobs : Scheduling!End(j)
<1>1. PICK j : j = job[t]
  OBVIOUS
<1>2. /\ pc[t] = "execute" /\ t \in Procs
      /\ UNCHANGED <<job, deleted, m_assignments, customers, cap>>
      /\ finished' = finished \cup {j}
      /\ \/ succeeded' = succeeded \cup {j}
         \/ j \in MayFail /\ succeeded' = succeeded
  BY <1>1 DEF RunJob, At, policyVars, Procs
<1>3. /\ j \in Jobs /\ j \notin Queued \cup finished \cup deleted
      /\ succeeded \subseteq finished
  BY <1>1, <1>2 DEF IInv, TypeOK, HoldInv, Holding, DeletedInv, JobsAreExclusive
<1>4. \A k : InHands(k)' <=> InHands(k)
  BY <1>2 DEF InHands
<1>5. UNCHANGED Queued
  BY <1>2 DEF Queued
<1>6. /\ Stage(j) = "running"
      /\ Stage(j)' = IF j \in succeeded' THEN "succeeded" ELSE "failed"
  <2>1. OnePlace(j) /\ OnePlace(j)' /\ InHands(j)
    BY <1>1, InOnePlace, InOnePlaceNext DEF InHands
  <2> QED BY <1>2, <1>3, <2>1, StageIs, StageWillBe
<1>7. \A k \in Jobs \ {j} : Stage(k)' = Stage(k)
  BY <1>2, <1>4, <1>5, SameStage
<1>8. Status[j] = "running" /\ UNCHANGED Permitted
  BY <1>2, <1>3, <1>6, SamePermitted DEF Status
<1>9. \/ Status' = [Status EXCEPT ![j] = "succeeded"]
      \/ j \in MayFail /\ Status' = [Status EXCEPT ![j] = "failed"]
  <2>1. CASE succeeded' = succeeded \cup {j}
    <3>1. Stage(j)' = "succeeded"
      BY <1>6, <2>1
    <3> QED BY <1>3, <1>7, <3>1, OneStage
  <2>2. CASE j \in MayFail /\ succeeded' = succeeded
    <3>1. Stage(j)' = "failed"
      BY <1>3, <1>6, <2>2
    <3> QED BY <1>3, <1>7, <2>2, <3>1, OneStage
  <2> QED BY <1>2, <2>1, <2>2
<1>10. Scheduling!End(j)
  BY <1>2, <1>8, <1>9 DEF Scheduling!End, Status, Permitted
<1> QED BY <1>3, <1>10

\* A job that is deleted has no permission: RemoveFirst changes nothing.
LEMMA DeleteDeletes ==
  ASSUME IInv, IInv', PInv, DoneInv, NEW c \in Clients, NEW j \in Jobs, DeleteJob(c, j)
  PROVE  Scheduling!Delete(j)
<1>1. /\ j \notin Queued \cup deleted
      /\ \A p \in Procs : job[p] = j => pc[p] = "jobDone"
      /\ UNCHANGED <<job, finished, succeeded, m_assignments, cap>>
      /\ deleted' = deleted \cup {j}
      /\ customers' = [r \in Restrictions |->
           IF r \in ToSet(queuePolicies[j])
           THEN RemoveFirst(customers[r], j) ELSE customers[r]]
  BY DEF DeleteJob, At, destructed
<1>2. /\ \A k : InHands(k)' <=> InHands(k)
      /\ UNCHANGED Queued
  BY <1>1 DEF InHands, Queued
<1>3. Stage(j) \in {"idle", "succeeded", "failed"} /\ Stage(j)' = "deleted"
  <2>1. OnePlace(j) /\ OnePlace(j)'
    BY InOnePlace, InOnePlaceNext
  <2>2. InHands(j) => j \in finished
    BY <1>1 DEF InHands, DoneInv, Procs
  <2> QED BY <1>1, <2>1, <2>2, StageIs, StageWillBe
<1>4. \A k \in Jobs \ {j} : Stage(k)' = Stage(k)
  BY <1>1, <1>2, SameStage
<1>5. /\ Status' = [Status EXCEPT ![j] = "deleted"]
      /\ Status[j] \in {"idle", "succeeded", "failed"}
  BY <1>3, <1>4, OneStage DEF Status
<1>6. \A r \in Restrictions : j \notin Permitted[r]
  <2>1. \A t \in Threads : job[t] = j => pc[t] = "jobDone"
    BY <1>1 DEF Procs
  <2> QED BY <1>1, <2>1, HoldsNothing
<1>7. UNCHANGED Permitted
  <2>1. Permitted' = [r \in Restrictions |->
          IF r \in ToSet(queuePolicies[j]) \cap Restrictions
          THEN Permitted[r] \ {j} ELSE Permitted[r]]
    BY <1>1, Releases
  <2>2. \A r \in Restrictions : Permitted'[r] = Permitted[r]
    BY <1>6, <2>1
  <2>3. \A r \in Restrictions : ToSet(customers'[r]) = ToSet(customers[r])
    BY <2>2 DEF Permitted
  <2> QED BY <2>3 DEF Permitted
<1> QED BY <1>1, <1>5, <1>6, <1>7
        DEF Scheduling!Delete, Scheduling!Ended, Status, Permitted

\* What a thread forgets has ended.
LEMMA ForgetStutters ==
  ASSUME IInv, IInv', DoneInv, NEW t \in Threads, ForgetJob(t)
  PROVE  UNCHANGED Scheduling!abstractVars
<1>1. /\ UNCHANGED <<finished, succeeded, deleted, m_assignments, customers, cap>>
      /\ job[t] \in finished
      /\ \A u \in Threads \ {t} : job'[u] = job[u]
      /\ job'[t] = NoJob
  BY DEF ForgetJob, At, DoneInv, jobVars, policyVars, IInv, TypeOK, Procs
<1>2. UNCHANGED Queued
  BY <1>1 DEF Queued
<1>3. \A k \in Jobs : k \in finished \/ (InHands(k)' <=> InHands(k))
  BY <1>1, ProcsDisjoint DEF InHands
<1>4. \A k \in Jobs : Stage(k)' = Stage(k)
  BY <1>1, <1>2, <1>3, SameStage
<1>5. UNCHANGED Status /\ UNCHANGED Permitted
  BY <1>1, <1>4, SamePermitted DEF Status
<1> QED BY <1>1, <1>5 DEF Scheduling!abstractVars, Status, Permitted

LEMMA SetCapChanges ==
  ASSUME IInv, IInv', NEW c \in Clients, NEW r \in Restrictions,
         NEW n \in CapValues, SetCap(c, r, n)
  PROVE  Scheduling!ChangeLimit(r)
<1>1. JobsSame /\ UNCHANGED customers
  BY DEF SetCap, setCap, JobsSame, jobVars
<1>2. UNCHANGED Status /\ UNCHANGED Permitted
  BY <1>1, SameStatus, SamePermitted
<1>3. cap' = [cap EXCEPT ![r] = n] /\ cap \in [Restrictions -> Int] /\ n \in Int
  BY SizesAreNumbers DEF SetCap, setCap, IInv, TypeOK, PolicyTypeOK
<1>4. cap'[r] \in Int /\ cap' = [cap EXCEPT ![r] = cap'[r]]
  BY <1>3
<1> QED BY <1>2, <1>4 DEF Scheduling!ChangeLimit, Status, Permitted

LEMMA StepSchedules ==
  ASSUME IInv, IInv', PInv, DInv, DoneInv, [Next]_vars
  PROVE  [Scheduling!SchedulingNext]_(Scheduling!abstractVars)
<1> USE DEF Scheduling!SchedulingNext
<1>1. CASE UNCHANGED vars
  <2>1. JobsSame /\ PermissionsSame
    BY <1>1 DEF JobsSame, PermissionsSame, vars, jobVars, policyVars
  <2> QED BY <2>1, Stutters
<1>2. ASSUME NEW t \in Threads, Worker(t)
      PROVE  [Scheduling!SchedulingNext]_(Scheduling!abstractVars)
  <2>1. CASE \/ ApplyForWork(t) \/ LockQueue(t) \/ NothingAvailable(t)
             \/ IncActive(t) \/ WaitForAvailableJob(t) \/ Block(t) \/ EmitDone(t)
             \/ DecActive(t) \/ SetStateStep(t)
    BY <2>1, QuietWorker, Stutters
  <2>2. CASE PolicyAgrees(t)
    BY <2>2, AgreesPermits
  <2>3. CASE PolicyRefuses(t)
    BY <2>3, RefusesReturns
  <2>4. CASE TakeJob(t)
    BY <2>4, TakeStarts
  <2>5. CASE RunJob(t)
    BY <2>5, RunEnds
  <2>6. CASE FreePolicy(t)
    BY <2>6, FreeReturns
  <2>7. CASE ForgetJob(t)
    BY <2>7, ForgetStutters
  <2> QED BY <1>2, <2>1, <2>2, <2>3, <2>4, <2>5, <2>6, <2>7 DEF Worker
<1>3. ASSUME NEW c \in Clients, ClientStep(c)
      PROVE  [Scheduling!SchedulingNext]_(Scheduling!abstractVars)
  <2>1. CASE Enqueue(c)
    BY <2>1, EnqueueSubmits
  <2>2. CASE ~Enqueue(c)
    BY <1>3, <2>2, QuietClient, Stutters DEF ClientStep
  <2> QED BY <2>1, <2>2
<1>4. ASSUME NEW c \in Clients, ClientCall(c)
      PROVE  [Scheduling!SchedulingNext]_(Scheduling!abstractVars)
  <2>1. CASE DequeueAll(c) \/ \E j \in Jobs : Dequeue(c, j)
    BY <2>1, DequeueWithdraws
  <2>2. CASE \E j \in Jobs : DeleteJob(c, j)
    BY <2>2, DeleteDeletes
  <2>3. CASE \E r \in Restrictions, n \in CapValues : SetCap(c, r, n)
    BY <2>3, SetCapChanges
  <2>4. CASE \/ \E j \in Jobs : AdjustInventory(c, j)
             \/ \E n \in MaxValues : SetMaximumNumberOfThreads(c, n)
             \/ Suspend(c) \/ Resume(c) \/ Finish(c) \/ ShutDown(c)
    BY <2>4, QuietClient, Stutters
  <2> QED BY <1>4, <2>1, <2>2, <2>3, <2>4 DEF ClientCall
<1> QED BY <1>1, <1>2, <1>3, <1>4 DEF Next

LEMMA InitSchedules == Init => Scheduling!SchedulingInit
<1> SUFFICES ASSUME Init PROVE Scheduling!SchedulingInit
  OBVIOUS
<1>1. \A j \in Jobs : Stage(j) = "idle"
  <2>1. Queued = {} /\ finished = {} /\ deleted = {} /\ \A p \in Procs : job[p] = NoJob
    BY DEF Init, Queued, ToSet
  <2>2. \A j \in Jobs : ~InHands(j)
    BY <2>1, ProcsDisjoint DEF InHands, Procs
  <2> QED BY <2>1, <2>2, StageIs DEF OnePlace
<1>2. \A r \in Restrictions : ToSet(customers[r]) = {}
  BY DEF Init, PolicyInit, ToSet
<1> QED BY <1>1, <1>2 DEF Scheduling!SchedulingInit, Init, PolicyInit

\* The queue, its threads, clients and policies do nothing that is not a step
\* of JobScheduling or hidden from it.
THEOREM SchedulingIsImplemented == Spec => ImplementsScheduling
<1>1. Init => DoneInv
  BY ProcsDisjoint DEF Init, DoneInv, Procs
<1>2. Spec => [](PInv /\ DInv /\ DoneInv)
  BY <1>1, Invariance, InitPermissions, NextPermissions, InitResolved,
     NextResolved, NextDone, PTL DEF Spec
<1>3. /\ IInv /\ IInv' /\ PInv /\ DInv /\ DoneInv /\ [Next]_vars
      => [Scheduling!SchedulingNext]_(Scheduling!abstractVars)
  BY StepSchedules
<1> QED BY <1>2, <1>3, Invariance, InitSchedules, PTL
        DEF Spec, ImplementsScheduling, Scheduling!SchedulingSpec
=============================================================================
