----------------------------- MODULE KLockFile -----------------------------
(***************************************************************************)
(* KLockFile (kdecore/io/klockfile_unix.cpp): processes that lock a file   *)
(* by making a hard link, wait for it, recognise that its creator has      *)
(* crashed, and break it.                                                  *)
(*                                                                         *)
(* Every system call, with what is computed from its answer, is a step;    *)
(* between any two of them other processes take steps or this one crashes. *)
(* A name of the directory refers to a file, which is its inode and the    *)
(* process that wrote it, or to none: lock is the lock file, temp the      *)
(* unique file of lockFile or the temporary file of deleteStaleLock (a     *)
(* process never has both), test the temporary name with ".test".  An      *)
(* inode without names is used again.                                      *)
(***************************************************************************)
EXTENDS Integers, FiniteSets

CONSTANTS
  Processes,      \* each with a KLockFile object for the same file
  Inodes,
  Hosts,          \* Hosts[p]: the host p runs on
  ForcerSets,     \* which processes may call lock ( ForceFlag ): the choices
  Late,           \* the processes whose staleTimer can pass staleTime, on
                  \* every file system
  FileSystems,    \* a subset of {"posix", "smbfs"}
  HardErrors,     \* lock() gives up after so many errors; 5 in the code
  NoPid, NoFile

ASSUME ProcessAssumption == IsFiniteSet(Processes) /\ NoPid \notin Processes
ASSUME FileAssumption == NoFile \notin [ino : Inodes, pid : Processes]
ASSUME HardErrorsAssumption == HardErrors \in Nat \ {0}

VARIABLES
  fs,             \* the file system; on "smbfs" a link is a copy of the file
  forcers,        \* the processes that call lock ( ForceFlag )
  lock, temp, test,
  pc,
  call,           \* call[p]: the local variables of lock () and its callees
  d               \* d[p]: the members of KLockFile::Private

files == <<lock, temp, test>>
world == <<fs, forcers>>    \* these two never change
vars == <<world, files, pc, call, d>>

Flags == SUBSET {"NoBlockFlag", "ForceFlag"}

Results == {"LockOK", "LockFail", "LockError"}

LockFilePcs == {"lstat", "create", "link", "lstatUnique", "lstatLock",
                "removeUnique"}

BreakPcs == {"break", "statTemp", "statLock", "unlinkLock", "unlinkTemp",
             "forceTemp", "forceLock", "giveUp"}

TestPcs == {"testLink", "testStat", "testUnlink"}

Pcs == {"idle", "crashed", "readPid", "judge"}
         \union LockFilePcs \union BreakPcs \union TestPcs

Files == [ino : Inodes, pid : Processes]

\* What lstat tells of a file; NoStat where the code has no value yet, or one
\* it does not read any more.
Stats == [ino : Inodes, nlink : Nat]

NoStat == [ino |-> NoFile, nlink |-> 0]

Calls == [options : Flags, hardErrors : 1..HardErrors, result : Results,
          breaking : BOOLEAN,
          stBuf : Stats \union {NoStat}, stBuf2 : Stats \union {NoStat}]

Privates == [isLocked : BOOLEAN, linkCountSupport : BOOLEAN,
             staleTimer : {"null", "running", "elapsed"},
             statBuf : Stats \union {NoStat},
             pid : Processes \union {NoPid}]

NoCall == [options |-> {}, hardErrors |-> HardErrors, result |-> "LockOK",
           breaking |-> FALSE, stBuf |-> NoStat, stBuf2 |-> NoStat]

\* The constructor.
NewPrivate == [isLocked |-> FALSE, linkCountSupport |-> TRUE,
               staleTimer |-> "null", statBuf |-> NoStat, pid |-> NoPid]

At(p, where) == pc[p] = where

Goto(p, where) == pc' = [pc EXCEPT ![p] = where]

Alive(p) == ~At(p, "crashed")

-----------------------------------------------------------------------------
(* The file system *)

\* The names of the file f: processes whose temp or test it is, and the lock.
nlink(f) ==
  (IF lock # NoFile /\ lock.ino = f.ino THEN 1 ELSE 0)
    + Cardinality({p \in Processes : temp[p] # NoFile /\ temp[p].ino = f.ino})
    + Cardinality({p \in Processes : test[p] # NoFile /\ test[p].ino = f.ino})

Free(i) ==
  \A f \in {lock} \union {temp[p] : p \in Processes}
                  \union {test[p] : p \in Processes} : f # NoFile => f.ino # i

Stat(f) == [ino |-> f.ino, nlink |-> nlink(f)]

\* The file a new link to f may refer to: f, or a copy of f if there is room.
Links(f) ==
  IF fs = "posix" THEN {f} ELSE {[f EXCEPT !.ino = i] : i \in {j \in Inodes : Free(j)}}

-----------------------------------------------------------------------------
Init ==
  /\ fs \in FileSystems /\ forcers \in ForcerSets
  /\ lock = NoFile
  /\ temp = [p \in Processes |-> NoFile]
  /\ test = [p \in Processes |-> NoFile]
  /\ pc = [p \in Processes |-> "idle"]
  /\ call = [p \in Processes |-> NoCall]
  /\ d = [p \in Processes |-> NewPrivate]

-----------------------------------------------------------------------------
(* Calls *)

\* lock () on an object that has the lock already returns LockOK at once.
Lock(p, flags) ==
  /\ At(p, "idle") /\ ~d[p].isLocked
  /\ "ForceFlag" \in flags => p \in forcers
  /\ call' = [call EXCEPT ![p].options = flags]
  /\ Goto(p, "lstat")
  /\ UNCHANGED <<world, files, d>>

\* Mutant: the destructor unlocks without asking isLocked.
UnlockAlways(p) ==
  /\ At(p, "idle")
  /\ lock' = NoFile
  /\ d' = [d EXCEPT ![p].isLocked = FALSE]
  /\ UNCHANGED <<world, temp, test, pc, call>>

\* unlock (), and the destructor.
Unlock(p) ==
  /\ At(p, "idle") /\ d[p].isLocked
  /\ lock' = NoFile
  /\ d' = [d EXCEPT ![p].isLocked = FALSE]
  /\ UNCHANGED <<world, temp, test, pc, call>>

\* The process ends anywhere, and its memory with it; its files stay.
Crash(p) ==
  /\ Alive(p)
  /\ Goto(p, "crashed")
  /\ call' = [call EXCEPT ![p] = NoCall]
  /\ d' = [d EXCEPT ![p] = NewPrivate]
  /\ UNCHANGED <<world, files>>

-----------------------------------------------------------------------------
(* The loop of lock () *)

\* lock () returns; its local variables go out of scope.
Return(p) ==
  /\ call' = [call EXCEPT ![p] = NoCall]
  /\ Goto(p, "idle")

\* What remains in the loop when lockFile and deleteStaleLock have returned.
Locals(p, errors) ==
  [NoCall EXCEPT !.options = call[p].options, !.hardErrors = errors]

\* The next round.
Repeat(p, errors) ==
  /\ call' = [call EXCEPT ![p] = Locals(p, errors)]
  /\ Goto(p, "lstat")

\* The end of the loop: NoBlockFlag returns, otherwise select () waits.
Again(p, errors) ==
  IF "NoBlockFlag" \in call[p].options THEN Return(p) ELSE Repeat(p, errors)

\* staleTimer = QTime ().  statBuf and pid are not read again before they
\* are written.
TimerReset(p) ==
  [d[p] EXCEPT !.staleTimer = "null", !.statBuf = NoStat, !.pid = NoPid]

Acquired(p) ==
  /\ d' = [d EXCEPT ![p] = [TimerReset(p) EXCEPT !.isLocked = TRUE]]
  /\ Return(p)

\* Mutant: one error too many is forgiven.
ErrorCountedPastZero(p) ==
  /\ d' = [d EXCEPT ![p] = TimerReset(p)]
  /\ IF call[p].hardErrors = 0 THEN Return(p)
                               ELSE Again(p, call[p].hardErrors - 1)

Error(p) ==
  /\ d' = [d EXCEPT ![p] = TimerReset(p)]
  /\ IF call[p].hardErrors = 1 THEN Return(p)
                               ELSE Again(p, call[p].hardErrors - 1)

\* There is a lock file.  The timer starts with the first sight of it.
Busy(p, st_buf) ==
  /\ \/ /\ d[p].staleTimer # "null" /\ d[p].statBuf = st_buf
        /\ Goto(p, "judge")
        /\ UNCHANGED d
     \/ /\ d[p].staleTimer = "null" \/ d[p].statBuf # st_buf
        /\ d' = [d EXCEPT ![p].statBuf = st_buf,
                          ![p].staleTimer = "running",
                          ![p].pid = NoPid]
        /\ Goto(p, "readPid")
  /\ call' = [call EXCEPT ![p] = Locals(p, call[p].hardErrors)]

-----------------------------------------------------------------------------
(* lockFile *)

\* lockFile has its result and goes on to where.
Result(p, r, where) ==
  /\ call' = [call EXCEPT ![p].result = r]
  /\ Goto(p, where)

\* The lock file is there.
LstatBusy(p) ==
  /\ At(p, "lstat") /\ lock # NoFile
  /\ Busy(p, Stat(lock))
  /\ UNCHANGED <<world, files>>

LstatFree(p) ==
  /\ At(p, "lstat") /\ lock = NoFile
  /\ Goto(p, "create")
  /\ UNCHANGED <<world, files, call, d>>

\* The unique file is created and written.
CreateUnique(p, i) ==
  /\ At(p, "create") /\ Free(i)
  /\ temp' = [temp EXCEPT ![p] = [ino |-> i, pid |-> p]]
  /\ Goto(p, "link")
  /\ UNCHANGED <<world, lock, test, call, d>>

\* uniqueFile.open () fails.
CreateFails(p) ==
  /\ At(p, "create")
  /\ Error(p)
  /\ UNCHANGED <<world, files>>

\* Mutant: rename () instead of link (), which replaces a lock that is there.
RenameSucceeds(p, f) ==
  /\ At(p, "link") /\ f \in Links(temp[p])
  /\ lock' = f
  /\ IF d[p].linkCountSupport
       THEN Goto(p, "lstatUnique") /\ UNCHANGED call
       ELSE Result(p, "LockOK", "removeUnique")
  /\ UNCHANGED <<world, temp, test, d>>

\* The link is the lock.  Without link counts that is all.
LinkSucceeds(p, f) ==
  /\ At(p, "link") /\ lock = NoFile /\ f \in Links(temp[p])
  /\ lock' = f
  /\ IF d[p].linkCountSupport
       THEN Goto(p, "lstatUnique") /\ UNCHANGED call
       ELSE Result(p, "LockOK", "removeUnique")
  /\ UNCHANGED <<world, temp, test, d>>

\* Somebody else has been faster, or there is no room for a copy.
LinkFails(p) ==
  /\ At(p, "link")
  /\ lock # NoFile \/ Links(temp[p]) = {}
  /\ Result(p, "LockError", "removeUnique")
  /\ UNCHANGED <<world, files, d>>

LstatUnique(p) ==
  /\ At(p, "lstatUnique")
  /\ call' = [call EXCEPT ![p].stBuf2 = Stat(temp[p])]
  /\ Goto(p, "lstatLock")
  /\ UNCHANGED <<world, files, d>>

\* The lock file has disappeared again.
LstatLockGone(p) ==
  /\ At(p, "lstatLock") /\ lock = NoFile
  /\ Result(p, "LockError", "removeUnique")
  /\ UNCHANGED <<world, files, d>>

\* The lock file and the unique file should be the same.  If they are not,
\* it may be because links are copies.
LstatLock(p) ==
  /\ At(p, "lstatLock") /\ lock # NoFile
  /\ LET unique == call[p].stBuf2
         st_buf == Stat(lock)
         copied == /\ unique.nlink > 1 \/ (unique.nlink = 1 /\ st_buf.nlink = 1)
                   /\ unique.ino # st_buf.ino
     IN  call' = [call EXCEPT
           ![p].stBuf = st_buf,
           ![p].result = IF st_buf = unique THEN "LockOK" ELSE "LockFail"]
         /\ Goto(p, IF st_buf # unique /\ copied THEN "testLink"
                                                 ELSE "removeUnique")
  /\ UNCHANGED <<world, files, d>>

\* The destructor of uniqueFile removes it, and lock () has its result.
RemoveUnique(p) ==
  /\ At(p, "removeUnique")
  /\ temp' = [temp EXCEPT ![p] = NoFile]
  /\ \/ call[p].result = "LockOK" /\ Acquired(p)
     \/ call[p].result = "LockError" /\ Error(p)
     \/ call[p].result = "LockFail" /\ Busy(p, call[p].stBuf)
  /\ UNCHANGED <<world, lock, test>>

-----------------------------------------------------------------------------
(* testLinkCountSupport, on the temporary file of the caller *)

TestLink(p, f) ==
  /\ At(p, "testLink") /\ f \in Links(temp[p])
  /\ test' = [test EXCEPT ![p] = f]
  /\ Goto(p, "testStat")
  /\ UNCHANGED <<world, lock, temp, call, d>>

\* Without the link, link counts are taken to be supported.
TestLinkFails(p) ==
  /\ At(p, "testLink") /\ Links(temp[p]) = {}
  /\ d' = [d EXCEPT ![p].linkCountSupport = TRUE]
  /\ Goto(p, "testUnlink")
  /\ UNCHANGED <<world, files, call>>

\* The count must be exactly 2.
SupportsLinkCount(f) == nlink(f) = 2

TestStat(p) ==
  /\ At(p, "testStat")
  /\ d' = [d EXCEPT ![p].linkCountSupport = SupportsLinkCount(temp[p])]
  /\ Goto(p, "testUnlink")
  /\ UNCHANGED <<world, files, call>>

\* Back in lockFile, which assumes that the lock is its own where links are
\* not counted, or in deleteStaleLock.
TestUnlink(p) ==
  /\ At(p, "testUnlink")
  /\ test' = [test EXCEPT ![p] = NoFile]
  /\ LET supported == d[p].linkCountSupport
     IN  IF call[p].breaking
           THEN /\ Goto(p, IF supported THEN "giveUp" ELSE "forceTemp")
                /\ UNCHANGED call
           ELSE Result(p, IF supported THEN "LockFail" ELSE "LockOK",
                       "removeUnique")
  /\ UNCHANGED <<world, lock, temp, d>>

-----------------------------------------------------------------------------
(* Is the lock stale? *)

\* Who made the lock file that is there by now.
ReadPid(p) ==
  /\ At(p, "readPid")
  /\ d' = [d EXCEPT ![p].pid = IF lock = NoFile THEN NoPid ELSE lock.pid]
  /\ Goto(p, "judge")
  /\ UNCHANGED <<world, files, call>>

\* staleTime has passed since the timer was started.
TimePasses(p) ==
  /\ p \in Late[fs] /\ d[p].staleTimer = "running"
  /\ d' = [d EXCEPT ![p].staleTimer = "elapsed"]
  /\ UNCHANGED <<world, files, pc, call>>

\* kill ( pid, 0 ) on our own host says that there is no such process.
NoSuchProcess(p) ==
  LET pid == d[p].pid
  IN  pid # NoPid /\ Hosts[pid] = Hosts[p] /\ ~Alive(pid)

\* Mutant: only a process that is known to be gone makes a lock stale.
IsStaleByPid(p) == NoSuchProcess(p)

IsStale(p) == NoSuchProcess(p) \/ d[p].staleTimer = "elapsed"

NotStale(p) ==
  /\ At(p, "judge") /\ ~IsStale(p)
  /\ Again(p, call[p].hardErrors)
  /\ UNCHANGED <<world, files, d>>

\* lock () returns LockStale.
ReportStale(p) ==
  /\ At(p, "judge") /\ IsStale(p) /\ "ForceFlag" \notin call[p].options
  /\ Return(p)
  /\ UNCHANGED <<world, files, d>>

\* Mutant: a stale lock is broken whether or not the caller asked for it.
BreakUnasked(p) ==
  /\ At(p, "judge") /\ IsStale(p)
  /\ call' = [call EXCEPT ![p].breaking = TRUE]
  /\ Goto(p, "break")
  /\ UNCHANGED <<world, files, d>>

BreakStale(p) ==
  /\ At(p, "judge") /\ IsStale(p) /\ "ForceFlag" \in call[p].options
  /\ call' = [call EXCEPT ![p].breaking = TRUE]
  /\ Goto(p, "break")
  /\ UNCHANGED <<world, files, d>>

-----------------------------------------------------------------------------
(* deleteStaleLock *)

\* It has deleted the lock file: lock () tries again at once.
Broken(p) ==
  /\ d' = [d EXCEPT ![p] = TimerReset(p)]
  /\ Repeat(p, call[p].hardErrors)

NotBroken(p) == Again(p, call[p].hardErrors) /\ UNCHANGED d

\* ktmpFile->open () fails: lock () returns LockError at once.
OpenTempFails(p) ==
  /\ At(p, "break")
  /\ Return(p)
  /\ UNCHANGED <<world, files, d>>

\* link ( lckFile, tmpFile ).  The temporary file itself existed only to get
\* a name.
LinkTemp(p, f) ==
  /\ At(p, "break") /\ lock # NoFile /\ f \in Links(lock)
  /\ temp' = [temp EXCEPT ![p] = f]
  /\ Goto(p, "statTemp")
  /\ UNCHANGED <<world, lock, test, call, d>>

LinkTempFails(p) ==
  /\ At(p, "break")
  /\ lock # NoFile => Links(lock) = {}
  /\ NotBroken(p)
  /\ UNCHANGED <<world, files>>

\* f is the file of statBuf with exactly one more link.
OneMore(p, f) == Stat(f) = [d[p].statBuf EXCEPT !.nlink = @ + 1]

\* The link count is not what it should be.
Mismatch(p) ==
  Goto(p, IF d[p].linkCountSupport THEN "testLink" ELSE "forceTemp")

StatTemp(p) ==
  /\ At(p, "statTemp")
  /\ IF OneMore(p, temp[p]) THEN Goto(p, "statLock") ELSE Mismatch(p)
  /\ UNCHANGED <<world, files, call, d>>

StatLock(p) ==
  /\ At(p, "statLock")
  /\ IF lock # NoFile /\ OneMore(p, lock) THEN Goto(p, "unlinkLock")
                                          ELSE Mismatch(p)
  /\ UNCHANGED <<world, files, call, d>>

UnlinkLock(p) ==
  /\ At(p, "unlinkLock")
  /\ lock' = NoFile
  /\ Goto(p, "unlinkTemp")
  /\ UNCHANGED <<world, temp, test, call, d>>

UnlinkTemp(p) ==
  /\ At(p, "unlinkTemp")
  /\ temp' = [temp EXCEPT ![p] = NoFile]
  /\ Broken(p)
  /\ UNCHANGED <<world, lock, test>>

\* Without link counts the lock file is deleted as it is.
ForceTemp(p) ==
  /\ At(p, "forceTemp")
  /\ temp' = [temp EXCEPT ![p] = NoFile]
  /\ Goto(p, "forceLock")
  /\ UNCHANGED <<world, lock, test, call, d>>

ForceLock(p) ==
  /\ At(p, "forceLock")
  /\ lock' = NoFile
  /\ IF lock # NoFile THEN Broken(p) ELSE NotBroken(p)
  /\ UNCHANGED <<world, temp, test>>

GiveUp(p) ==
  /\ At(p, "giveUp")
  /\ temp' = [temp EXCEPT ![p] = NoFile]
  /\ NotBroken(p)
  /\ UNCHANGED <<world, lock, test>>

-----------------------------------------------------------------------------
\* The steps of a call that has begun.
LockFileStep(p) ==
  \/ LstatBusy(p) \/ LstatFree(p)
  \/ (\E i \in Inodes : CreateUnique(p, i)) \/ CreateFails(p)
  \/ (\E f \in Files : LinkSucceeds(p, f)) \/ LinkFails(p)
  \/ LstatUnique(p) \/ LstatLockGone(p) \/ LstatLock(p) \/ RemoveUnique(p)

TestStep(p) ==
  \/ (\E f \in Files : TestLink(p, f)) \/ TestLinkFails(p)
  \/ TestStat(p) \/ TestUnlink(p)

StaleStep(p) ==
  ReadPid(p) \/ NotStale(p) \/ ReportStale(p) \/ BreakStale(p)

BreakStep(p) ==
  \/ OpenTempFails(p) \/ (\E f \in Files : LinkTemp(p, f)) \/ LinkTempFails(p)
  \/ StatTemp(p) \/ StatLock(p) \/ UnlinkLock(p) \/ UnlinkTemp(p)
  \/ ForceTemp(p) \/ ForceLock(p) \/ GiveUp(p)

Step(p) == LockFileStep(p) \/ TestStep(p) \/ StaleStep(p) \/ BreakStep(p)

Next ==
  \E p \in Processes :
    \/ \E flags \in Flags : Lock(p, flags)
    \/ Unlock(p) \/ Crash(p) \/ TimePasses(p) \/ Step(p)

Spec == Init /\ [][Next]_vars

\* The operating system runs every process, and time passes.  Nobody needs
\* to call lock () or unlock (), or to crash.
FairSpec ==
  Spec /\ \A p \in Processes : WF_vars(Step(p)) /\ WF_vars(TimePasses(p))

-----------------------------------------------------------------------------
(* Properties *)

TypeOK ==
  /\ fs \in FileSystems /\ forcers \in ForcerSets
  /\ lock \in Files \union {NoFile}
  /\ temp \in [Processes -> Files \union {NoFile}]
  /\ test \in [Processes -> Files \union {NoFile}]
  /\ pc \in [Processes -> Pcs]
  /\ call \in [Processes -> Calls]
  /\ d \in [Processes -> Privates]

Holds(p) == d[p].isLocked

\* The process that made the lock file.
Holder == IF lock = NoFile THEN NoPid ELSE lock.pid

\* Of processes that do not force, at most one is told that it has the lock,
\* while others crash at any of their steps and inodes are used again.
MutualExclusion ==
  forcers = {} => \A p, q \in Processes : Holds(p) /\ Holds(q) => p = q

\* The lock file of a process that has the lock is there and its own, so that
\* nobody else gets the lock and unlock () deletes no other lock.
HolderOwnsFile == forcers = {} => \A p \in Processes : Holds(p) => Holder = p

\* Where nobody forces; the lock of others is not promised to be one.
Abstract == INSTANCE CrashableLock WITH
  holder <- IF forcers = {} THEN Holder ELSE NoPid,
  granted <- {p \in Processes : forcers = {} /\ Holds(p)},
  crashed <- {p \in Processes : ~Alive(p)}

\* The links, counts and temporary files implement a lock that a process
\* that crashes does not lose.
ImplementsLock == Abstract!LockSpec

InCall(p) == pc[p] \notin {"idle", "crashed"}

\* A process that waits behind a crashed one does not wait forever: it is
\* told LockStale, or somebody has removed the lock, even when inodes that
\* are used again hide from the waiter whose lock it is.  (Without hard links
\* a full disk can prevent it.)
StaleLockIsNoticed ==
  \A p \in Late["posix"] :
    (fs = "posix" /\ InCall(p) /\ \E q \in Processes : ~Alive(q) /\ Holder = q)
      ~> (~InCall(p) \/ Holder = NoPid)

\* klockfile.h, ForceFlag: a lock is removed when it is stale; and the comment
\* in deleteStaleLock: not a new lock instead of the old stale one.
ForcedMutualExclusion ==
  \A p, q \in Processes : Holds(p) /\ Holds(q) => p = q
=============================================================================
