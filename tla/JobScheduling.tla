---------------------------- MODULE JobScheduling ----------------------------
(***************************************************************************)
(* What a ThreadWeaver queue promises about jobs, without threads, queue   *)
(* positions, locks or wait conditions: a job that is submitted runs at    *)
(* most once, only with the permission of every resource restriction it is *)
(* under, and only after the jobs it depends on have succeeded (or have    *)
(* been deleted); permissions are given below the limit only and are       *)
(* returned before the job may be deleted.                                 *)
(***************************************************************************)
EXTENDS Integers, FiniteSets

CONSTANTS
  Jobs,
  Restrictions,
  DependsOn,        \* set of <<a, b>>: a depends on b
  RestrictedBy,     \* the restrictions of every job
  MayFail,          \* the jobs that can end without success
  InitialLimit

VARIABLES
  status,           \* the stage of every job
  permitted,        \* per restriction, the jobs that hold a permission
  limit             \* per restriction, how many it gives at a time

abstractVars == <<status, permitted, limit>>

Stages == {"idle", "queued", "running", "succeeded", "failed", "deleted"}

Ended == {"succeeded", "failed"}

SchedulingTypeOK ==
  /\ status \in [Jobs -> Stages]
  /\ permitted \in [Restrictions -> SUBSET Jobs]
  /\ limit \in [Restrictions -> Int]

SchedulingInit ==
  /\ status = [j \in Jobs |-> "idle"]
  /\ permitted = [r \in Restrictions |-> {}]
  /\ limit = InitialLimit

Submit(j) ==
  /\ status[j] = "idle"
  /\ status' = [status EXCEPT ![j] = "queued"]
  /\ UNCHANGED <<permitted, limit>>

\* One job or all jobs that wait and have no permission yet are taken back.
Withdraw(js) ==
  /\ \A j \in js : status[j] = "queued" /\ \A r \in Restrictions : j \notin permitted[r]
  /\ status' = [j \in Jobs |-> IF j \in js THEN "idle" ELSE status[j]]
  /\ UNCHANGED <<permitted, limit>>

Permit(j, r) ==
  /\ status[j] = "queued"
  /\ r \in RestrictedBy[j]
  /\ j \notin permitted[r]
  /\ Cardinality(permitted[r]) < limit[r]
  /\ permitted' = [permitted EXCEPT ![r] = @ \cup {j}]
  /\ UNCHANGED <<status, limit>>

\* Permissions are returned while the job waits or after it has ended.
Return(j, rs) ==
  /\ status[j] \in {"queued"} \cup Ended
  /\ permitted' = [r \in Restrictions |->
        IF r \in rs THEN permitted[r] \ {j} ELSE permitted[r]]
  /\ UNCHANGED <<status, limit>>

Start(j) ==
  /\ status[j] = "queued"
  /\ \A r \in RestrictedBy[j] : j \in permitted[r]
  /\ \A d \in DependsOn : d[1] = j => status[d[2]] \in {"succeeded", "deleted"}
  /\ status' = [status EXCEPT ![j] = "running"]
  /\ UNCHANGED <<permitted, limit>>

End(j) ==
  /\ status[j] = "running"
  /\ \/ status' = [status EXCEPT ![j] = "succeeded"]
     \/ j \in MayFail /\ status' = [status EXCEPT ![j] = "failed"]
  /\ UNCHANGED <<permitted, limit>>

Delete(j) ==
  /\ status[j] \in {"idle"} \cup Ended
  /\ \A r \in Restrictions : j \notin permitted[r]
  /\ status' = [status EXCEPT ![j] = "deleted"]
  /\ UNCHANGED <<permitted, limit>>

ChangeLimit(r) ==
  /\ limit'[r] \in Int
  /\ limit' = [limit EXCEPT ![r] = limit'[r]]
  /\ UNCHANGED <<status, permitted>>

SchedulingNext ==
  \/ \E j \in Jobs :
        \/ Submit(j) \/ Start(j) \/ End(j) \/ Delete(j)
        \/ \E r \in Restrictions : Permit(j, r)
        \/ \E rs \in SUBSET Restrictions : Return(j, rs)
  \/ \E js \in SUBSET Jobs : Withdraw(js)
  \/ \E r \in Restrictions : ChangeLimit(r)

SchedulingSpec == SchedulingInit /\ [][SchedulingNext]_abstractVars
=============================================================================
