---------------------------- MODULE MCKLockFile ----------------------------
(***************************************************************************)
(* Instances of KLockFile for TLC.                                         *)
(***************************************************************************)
EXTENDS KLockFile, TLC

CONSTANTS p1, p2, p3, i1, i2, i3

OneHost == [p \in Processes |-> "here"]

\* Who may be late: a process that waits and does not force; with copies one
\* that forces, and takes a lock away between the link and its check.
OneLate == [f \in FileSystems |-> IF f = "posix" THEN {p2} ELSE {p1}]

NobodyLate == [f \in FileSystems |-> {}]

Symmetry ==
  Permutations(Inodes) \union Permutations(Processes \ {p1})
=============================================================================
