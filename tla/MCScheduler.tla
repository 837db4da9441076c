---------------------------- MODULE MCScheduler -----------------------------
(***************************************************************************)
(* Small instances of Scheduler.                                           *)
(***************************************************************************)
EXTENDS Scheduler

CONSTANTS g1, g2, o1, u1, u2, h1, h2, s1, s2

\* g1 and g2 get the same file; o1 does something else on another host.
MCurl == [j \in Jobs |-> IF j = o1 THEN u2 ELSE u1]

MChost == [u \in {u1, u2} |-> IF u = u1 THEN h1 ELSE h2]
=============================================================================
