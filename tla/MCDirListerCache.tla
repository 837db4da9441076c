--------------------------- MODULE MCDirListerCache ---------------------------
(***************************************************************************)
(* Small instances of DirListerCache.                                      *)
(***************************************************************************)
EXTENDS DirListerCache, TLC

CONSTANTS l1, l2, top, sub, f

\* A directory with a directory, which may have a file.
MCContents == [dir \in Dirs |-> IF dir = top THEN {sub} ELSE {f}]

\* One or two of the things that interfere, and some of three.
MCUsageSets ==
  {{"early", "close"}, {"early", "stop"}, {"keepEarly", "stop", "removed"},
   {"fails", "evict", "notify"}, {"reload", "mounted"}, {"manual"}, {"update"},
   {"again"}}

\* Directories that are left while they are updated.
MCAbandoned == {{"early", "abandon"}}
=============================================================================
