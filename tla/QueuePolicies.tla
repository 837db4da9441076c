---------------------------- MODULE QueuePolicies ----------------------------
(***************************************************************************)
(* The queue policies of ThreadWeaver: DependencyPolicy, a singleton, and  *)
(* any number of ResourceRestrictionPolicy objects.  A policy answers      *)
(* canRun for a queued job and thereby gives it the resource it guards;    *)
(* the job gives it back with release (it was not started after all) or    *)
(* with free (it was executed).  Every method below takes the mutex of its *)
(* policy for its whole body, so each is one step.                         *)
(***************************************************************************)
EXTENDS Integers, FiniteSets, SequencesExt

CONSTANTS
  Jobs,                 \* the Job objects the application has created
  Restrictions,         \* the ResourceRestrictionPolicy objects
  DependencyPolicy,     \* the one DependencyPolicy object
  queuePolicies,        \* Job::Private::queuePolicies of every job
  InitialDependencies,  \* <<a, b>>: DependencyPolicy::addDependency(a, b)
  InitialCap            \* the cap each restriction is constructed with

Policies == Restrictions \cup {DependencyPolicy}

ASSUME JobsFinite == IsFiniteSet(Jobs)

ASSUME PolicyIdentity == DependencyPolicy \notin Restrictions

\* Job::assignQueuePolicy ignores a policy the job already has.
ASSUME PoliciesAssigned ==
  /\ queuePolicies \in [Jobs -> Seq(Policies)]
  /\ \A j \in Jobs : \A m, n \in 1..Len(queuePolicies[j]) :
        queuePolicies[j][m] = queuePolicies[j][n] => m = n

\* addDependency assigns the policy to both jobs and refuses a # b only.
ASSUME DependenciesAssigned ==
  /\ InitialDependencies \subseteq Jobs \X Jobs
  /\ \A d \in InitialDependencies :
        /\ d[1] # d[2]
        /\ DependencyPolicy \in ToSet(queuePolicies[d[1]])
        /\ DependencyPolicy \in ToSet(queuePolicies[d[2]])

ASSUME CapsAreNumbers == InitialCap \in [Restrictions -> Nat]

VARIABLES
  dependencies,         \* the multimap: <<a, b>> while a waits for b
  customers,            \* per restriction, the list of jobs it admitted
  cap                   \* per restriction, its current limit

policyVars == <<dependencies, customers, cap>>

PolicyTypeOK ==
  /\ dependencies \subseteq Jobs \X Jobs
  /\ customers \in [Restrictions -> Seq(Jobs)]
  /\ cap \in [Restrictions -> Int]

PolicyInit ==
  /\ dependencies = InitialDependencies
  /\ customers = [r \in Restrictions |-> <<>>]
  /\ cap = InitialCap

-----------------------------------------------------------------------------
(* DependencyPolicy *)

hasUnresolvedDependencies(job) == \E d \in dependencies : d[1] = job

\* Every entry that waits for job goes; the entries of job itself stay.
resolveDependencies(job) ==
  dependencies' = {d \in dependencies : d[2] # job}

-----------------------------------------------------------------------------
(* What Job::canBeExecuted and Job::freeQueuePolicyResources ask of a      *)
(* policy, whichever of the two classes it belongs to.                     *)

\* Mutant: one customer too many.
canRunAtCap(policy, job) ==
  \/ policy = DependencyPolicy /\ ~hasUnresolvedDependencies(job)
  \/ policy \in Restrictions /\ Len(customers[policy]) <= cap[policy]

canRun(policy, job) ==
  \/ policy = DependencyPolicy /\ ~hasUnresolvedDependencies(job)
  \/ policy \in Restrictions /\ Len(customers[policy]) < cap[policy]

\* The effect of a canRun that answered true.
acquire(policy, job) ==
  /\ customers' = [r \in Restrictions |->
        IF r = policy THEN Append(customers[r], job) ELSE customers[r]]
  /\ UNCHANGED <<dependencies, cap>>

\* Mutant: the permission is kept.
releaseNothing(policies, job) == UNCHANGED policyVars

\* Gives back what the given policies hold for job; a DependencyPolicy
\* holds nothing.
release(policies, job) ==
  /\ customers' = [r \in Restrictions |->
        IF r \in policies THEN RemoveFirst(customers[r], job)
                          ELSE customers[r]]
  /\ UNCHANGED <<dependencies, cap>>

\* Mutant: a failed job releases its dependents, too.
freeAnyway(policy, job, success) ==
  \/ policy \in Restrictions /\ release({policy}, job)
  \/ /\ policy = DependencyPolicy
     /\ resolveDependencies(job)
     /\ UNCHANGED <<customers, cap>>

\* After the execution: a restriction forgets the job, the DependencyPolicy
\* releases the jobs that waited for it, if it was a success.
free(policy, job, success) ==
  \/ policy \in Restrictions /\ release({policy}, job)
  \/ /\ policy = DependencyPolicy
     /\ IF success THEN resolveDependencies(job) ELSE UNCHANGED dependencies
     /\ UNCHANGED <<customers, cap>>

\* ~Job tells every policy of the job.  By then the dynamic type is Job,
\* whose success() is true: the dependencies are always resolved.
destructed(job) ==
  /\ customers' = [r \in Restrictions |->
        IF r \in ToSet(queuePolicies[job]) THEN RemoveFirst(customers[r], job)
                                           ELSE customers[r]]
  /\ IF DependencyPolicy \in ToSet(queuePolicies[job])
     THEN resolveDependencies(job)
     ELSE UNCHANGED dependencies
  /\ UNCHANGED cap

setCap(r, n) ==
  /\ cap' = [cap EXCEPT ![r] = n]
  /\ UNCHANGED <<dependencies, customers>>
=============================================================================
