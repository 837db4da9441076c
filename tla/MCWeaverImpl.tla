---------------------------- MODULE MCWeaverImpl -----------------------------
(***************************************************************************)
(* Instances of WeaverImpl for TLC.  Three jobs: b depends on a, a and c   *)
(* are under one restriction of cap 1, b is under it too, and its          *)
(* restriction is asked before its dependency, so that a permission has to *)
(* be given back when the dependency refuses.  b is more urgent than the   *)
(* others, c and a are equal.                                              *)
(***************************************************************************)
EXTENDS WeaverImpl

CONSTANTS a, b, c, t1, t2, t3, c1, c2, r1, dep

PolicyJobs == {a, b, c}

MCpolicies == (a :> <<r1, dep>>) @@ (b :> <<r1, dep>>) @@ (c :> <<r1>>)

MCdependencies == {<<b, a>>}

MCcap == [r \in {r1} |-> 1]

\* For setCap: lowered to 1 and raised again.
MCcapTwo == [r \in {r1} |-> 2]

MCpriority == (a :> 0) @@ (b :> 1) @@ (c :> 0)

\* Jobs without policies.
NoPolicies == [j \in Jobs |-> <<>>]

NoCaps == [r \in {} |-> 0]

ThreadSymmetry == Permutations(Threads)
=============================================================================
