--------------------------- MODULE CrashableLock ---------------------------
(***************************************************************************)
(* What the users of a lock file may rely on: a lock of processes that may *)
(* crash.  The lock belongs to one process at a time.  A process that      *)
(* crashes keeps it: the others learn that it is stale, but not one of     *)
(* them takes it.                                                          *)
(***************************************************************************)
CONSTANTS Processes, NoPid

VARIABLES
  holder,     \* the process the lock belongs to, or NoPid
  granted,    \* the processes that have been told that they have it
  crashed     \* the processes that do not run any more

lockVars == <<holder, granted, crashed>>

LockInit == holder = NoPid /\ granted = {} /\ crashed = {}

Acquire(p) ==
  /\ holder = NoPid /\ p \notin crashed
  /\ holder' = p
  /\ UNCHANGED <<granted, crashed>>

\* lock() returns LockOK.
Grant(p) ==
  /\ holder = p /\ p \notin crashed
  /\ granted' = granted \union {p}
  /\ UNCHANGED <<holder, crashed>>

Release(p) ==
  /\ p \in granted /\ p \notin crashed
  /\ holder' = NoPid
  /\ granted' = granted \ {p}
  /\ UNCHANGED crashed

Crash(p) ==
  /\ p \notin crashed
  /\ crashed' = crashed \union {p}
  /\ granted' = granted \ {p}
  /\ UNCHANGED holder

LockNext ==
  \E p \in Processes : Acquire(p) \/ Grant(p) \/ Release(p) \/ Crash(p)

LockSpec == LockInit /\ [][LockNext]_lockVars
=============================================================================
