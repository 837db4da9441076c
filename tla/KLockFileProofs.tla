--------------------------- MODULE KLockFileProofs ---------------------------
(***************************************************************************)
(* Proofs about KLockFile, for any number of processes, inodes and hosts:  *)
(* the types, mutual exclusion of processes that do not force, and that    *)
(* KLockFile implements CrashableLock on both kinds of file systems.       *)
(***************************************************************************)
EXTENDS KLockFile, FiniteSetTheorems, TLAPS

\* The places where temp of a process is a file.
TempPcs == {"link", "lstatUnique", "lstatLock", "removeUnique",
            "statTemp", "statLock", "unlinkLock", "unlinkTemp",
            "forceTemp", "giveUp"} \union TestPcs

HasTemp == \A p \in Processes : pc[p] \in TempPcs => temp[p] \in Files

\* The places from which lockFile goes on to LockOK, or has it.
WinnerPcs == {"lstatUnique", "lstatLock"} \union TestPcs

Winner(p) ==
  \/ pc[p] \in WinnerPcs
  \/ pc[p] = "removeUnique" /\ call[p].result = "LockOK"
  \/ d[p].isLocked

\* Nobody is in deleteStaleLock, or will be.
NoBreaking ==
  \A p \in Processes :
    /\ pc[p] \notin BreakPcs
    /\ ~call[p].breaking
    /\ "ForceFlag" \notin call[p].options

\* The unique file is the process's own.
OwnTemp == \A p \in Processes : pc[p] \in TempPcs => temp[p].pid = p

\* Between its link and its unlock () the lock file is that of the winner.
OwnLock ==
  \A p \in Processes : Winner(p) => lock # NoFile /\ lock.pid = p

LockedIsIdle == \A p \in Processes : d[p].isLocked => pc[p] = "idle"

Exclusion == NoBreaking /\ OwnTemp /\ OwnLock /\ LockedIsIdle

IInv == TypeOK /\ HasTemp /\ (forcers = {} => Exclusion)

-----------------------------------------------------------------------------
(* Operators *)

\* A number of names is a natural number.
LEMMA StatType == ASSUME TypeOK, NEW f \in Files PROVE Stat(f) \in Stats
<1>1. ASSUME NEW S \in SUBSET Processes PROVE Cardinality(S) \in Nat
  BY <1>1, ProcessAssumption, FS_Subset, FS_CardinalityType
<1>2. Cardinality({p \in Processes : temp[p] # NoFile /\ temp[p].ino = f.ino})
        \in Nat
  BY <1>1
<1>3. Cardinality({p \in Processes : test[p] # NoFile /\ test[p].ino = f.ino})
        \in Nat
  BY <1>1
<1>4. nlink(f) \in Nat
  BY <1>2, <1>3 DEF nlink
<1> QED
  BY <1>4 DEF Stat, Stats, Files

\* A link to a file is a file of the same process.
LEMMA LinksType ==
  ASSUME NEW f \in Files, NEW g \in Links(f)
  PROVE  g \in Files /\ g.pid = f.pid
BY DEF Links, Files

LEMMA NoFileFact == NoFile \notin Files
BY FileAssumption DEF Files

\* A new call and a new object are well typed.
LEMMA NewTypes == NoCall \in Calls /\ NewPrivate \in Privates
BY HardErrorsAssumption DEF NoCall, NewPrivate, Calls, Privates, Flags, Results

-----------------------------------------------------------------------------
(* Types *)

\* What every step of the loop leaves well typed.
LoopType ==
  /\ pc' \in [Processes -> Pcs]
  /\ call' \in [Processes -> Calls]
  /\ d' \in [Processes -> Privates]

LEMMA LocalsType ==
  ASSUME TypeOK, NEW p \in Processes, NEW e \in 1..HardErrors
  PROVE  Locals(p, e) \in Calls
<1>1. call[p] \in Calls
  BY DEF TypeOK
<1> QED
  BY <1>1, NewTypes DEF Locals, Calls, NoCall

LEMMA ResetType ==
  ASSUME TypeOK, NEW p \in Processes
  PROVE  TimerReset(p) \in Privates
<1>1. d[p] \in Privates
  BY DEF TypeOK
<1> QED
  BY <1>1, NewTypes DEF TimerReset, Privates

LEMMA AgainType ==
  ASSUME TypeOK, NEW p \in Processes, NEW e \in 1..HardErrors, Again(p, e)
  PROVE  pc' \in [Processes -> Pcs] /\ call' \in [Processes -> Calls]
<1>1. CASE Return(p)
  BY <1>1, NewTypes DEF Return, Goto, TypeOK, Pcs, LockFilePcs
<1>2. CASE Repeat(p, e)
  BY <1>2, LocalsType DEF Repeat, Goto, TypeOK, Pcs, LockFilePcs
<1> QED
  BY <1>1, <1>2 DEF Again

LEMMA ErrorType ==
  ASSUME TypeOK, NEW p \in Processes, Error(p)
  PROVE  LoopType
<1>1. d' \in [Processes -> Privates]
  BY ResetType DEF Error, TypeOK
<1>2. call[p].hardErrors \in 1..HardErrors
  BY DEF TypeOK, Calls
<1>3. CASE call[p].hardErrors = 1
  BY <1>1, <1>3, NewTypes DEF Error, Return, Goto, LoopType, TypeOK, Pcs
<1>4. CASE call[p].hardErrors # 1
  <2>1. call[p].hardErrors - 1 \in 1..HardErrors
    BY <1>2, <1>4, HardErrorsAssumption
  <2> QED
    BY <1>1, <1>4, <2>1, AgainType DEF Error, LoopType
<1> QED
  BY <1>3, <1>4

LEMMA AcquiredType ==
  ASSUME TypeOK, NEW p \in Processes, Acquired(p)
  PROVE  LoopType
<1>1. [TimerReset(p) EXCEPT !.isLocked = TRUE] \in Privates
  BY ResetType DEF Privates
<1> QED
  BY <1>1, NewTypes DEF Acquired, Return, Goto, LoopType, TypeOK, Pcs

LEMMA BusyType ==
  ASSUME TypeOK, NEW p \in Processes, NEW st \in Stats \union {NoStat},
         Busy(p, st)
  PROVE  LoopType
<1>1. call[p].hardErrors \in 1..HardErrors
  BY DEF TypeOK, Calls
<1>2. call' \in [Processes -> Calls]
  BY <1>1, LocalsType DEF Busy, TypeOK
<1>3. [d[p] EXCEPT !.statBuf = st, !.staleTimer = "running", !.pid = NoPid]
        \in Privates
  BY DEF TypeOK, Privates
<1>4. /\ pc' \in [Processes -> Pcs]
      /\ d' = d \/ d' = [d EXCEPT ![p] = [d[p] EXCEPT
                     !.statBuf = st, !.staleTimer = "running", !.pid = NoPid]]
  BY DEF Busy, Goto, TypeOK, Pcs
<1> QED
  BY <1>2, <1>3, <1>4 DEF LoopType, TypeOK

LEMMA BrokenType ==
  ASSUME TypeOK, NEW p \in Processes, Broken(p) \/ NotBroken(p)
  PROVE  LoopType
<1>1. call[p].hardErrors \in 1..HardErrors
  BY DEF TypeOK, Calls
<1>2. CASE Broken(p)
  BY <1>1, <1>2, ResetType, LocalsType
     DEF Broken, Repeat, Goto, LoopType, TypeOK, Pcs, LockFilePcs
<1>3. CASE NotBroken(p)
  BY <1>1, <1>3, AgainType DEF NotBroken, LoopType, TypeOK
<1> QED
  BY <1>2, <1>3

\* lock () begins or ends, or the process does.
LEMMA CallTypes ==
  ASSUME TypeOK, NEW p \in Processes,
         \/ \E flags \in Flags : Lock(p, flags)
         \/ Unlock(p) \/ Crash(p) \/ TimePasses(p)
  PROVE  TypeOK'
<1>1. ASSUME NEW flags \in Flags, Lock(p, flags) PROVE TypeOK'
  <2>1. [call[p] EXCEPT !.options = flags] \in Calls
    BY DEF TypeOK, Calls
  <2>2. call' = [call EXCEPT ![p] = [call[p] EXCEPT !.options = flags]]
    BY <1>1 DEF Lock
  <2> QED
    BY <1>1, <2>1, <2>2
       DEF Lock, Goto, TypeOK, files, world, Pcs, LockFilePcs
<1>2. CASE Unlock(p)
  <2>1. [d[p] EXCEPT !.isLocked = FALSE] \in Privates
    BY DEF TypeOK, Privates
  <2>2. d' = [d EXCEPT ![p] = [d[p] EXCEPT !.isLocked = FALSE]]
    BY <1>2 DEF Unlock
  <2> QED
    BY <1>2, <2>1, <2>2 DEF Unlock, TypeOK, world
<1>3. CASE Crash(p)
  BY <1>3, NewTypes DEF Crash, Goto, TypeOK, files, world, Pcs
<1>4. CASE TimePasses(p)
  <2>1. [d[p] EXCEPT !.staleTimer = "elapsed"] \in Privates
    BY DEF TypeOK, Privates
  <2>2. d' = [d EXCEPT ![p] = [d[p] EXCEPT !.staleTimer = "elapsed"]]
    BY <1>4 DEF TimePasses
  <2> QED
    BY <1>4, <2>1, <2>2 DEF TimePasses, TypeOK, files, world
<1> QED
  BY <1>1, <1>2, <1>3, <1>4

LEMMA ResultType ==
  ASSUME TypeOK, NEW p \in Processes, NEW r \in Results, NEW w \in Pcs,
         Result(p, r, w)
  PROVE  pc' \in [Processes -> Pcs] /\ call' \in [Processes -> Calls]
<1>1. [call[p] EXCEPT !.result = r] \in Calls
  BY DEF TypeOK, Calls
<1>2. call' = [call EXCEPT ![p] = [call[p] EXCEPT !.result = r]]
  BY DEF Result
<1> QED
  BY <1>1, <1>2 DEF Result, Goto, TypeOK

LEMMA LockFileTypes ==
  ASSUME TypeOK, HasTemp, NEW p \in Processes, LockFileStep(p)
  PROVE  TypeOK'
<1> USE DEF files, world
<1>1. CASE LstatBusy(p)
  <2>1. Stat(lock) \in Stats
    BY <1>1, StatType DEF LstatBusy, TypeOK
  <2>2. LoopType
    BY <1>1, <2>1, BusyType DEF LstatBusy
  <2> QED
    BY <1>1, <2>2 DEF LstatBusy, LoopType, TypeOK
<1>2. CASE LstatFree(p)
  BY <1>2 DEF LstatFree, Goto, TypeOK, Pcs, LockFilePcs
<1>3. ASSUME NEW i \in Inodes, CreateUnique(p, i) PROVE TypeOK'
  BY <1>3 DEF CreateUnique, Goto, TypeOK, Pcs, LockFilePcs, Files
<1>4. CASE CreateFails(p)
  BY <1>4, ErrorType DEF CreateFails, LoopType, TypeOK
<1>5. ASSUME NEW f \in Files, LinkSucceeds(p, f) PROVE TypeOK'
  <2>1. pc' \in [Processes -> Pcs] /\ call' \in [Processes -> Calls]
    <3>1. CASE d[p].linkCountSupport
      BY <1>5, <3>1 DEF LinkSucceeds, Goto, TypeOK, Pcs, LockFilePcs
    <3>2. CASE ~d[p].linkCountSupport
      BY <1>5, <3>2, ResultType DEF LinkSucceeds, Results, Pcs, LockFilePcs
    <3> QED
      BY <3>1, <3>2
  <2> QED
    BY <1>5, <2>1 DEF LinkSucceeds, TypeOK
<1>6. CASE LinkFails(p)
  BY <1>6, ResultType DEF LinkFails, Results, Pcs, LockFilePcs, TypeOK
<1>7. CASE LstatUnique(p)
  <2>1. Stat(temp[p]) \in Stats
    BY <1>7, StatType DEF LstatUnique, HasTemp, TempPcs, At
  <2>2. [call[p] EXCEPT !.stBuf2 = Stat(temp[p])] \in Calls
    BY <2>1 DEF TypeOK, Calls
  <2>3. call' = [call EXCEPT ![p] = [call[p] EXCEPT !.stBuf2 = Stat(temp[p])]]
    BY <1>7 DEF LstatUnique
  <2> QED
    BY <1>7, <2>2, <2>3 DEF LstatUnique, Goto, TypeOK, Pcs, LockFilePcs
<1>8. CASE LstatLockGone(p)
  BY <1>8, ResultType DEF LstatLockGone, Results, Pcs, LockFilePcs, TypeOK
<1>9. CASE LstatLock(p)
  <2>1. Stat(lock) \in Stats
    BY <1>9, StatType DEF LstatLock, TypeOK
  <2>2. PICK r \in {"LockOK", "LockFail"} :
          call' = [call EXCEPT ![p] = [call[p] EXCEPT !.stBuf = Stat(lock),
                                                      !.result = r]]
    BY <1>9 DEF LstatLock
  <2>3. [call[p] EXCEPT !.stBuf = Stat(lock), !.result = r] \in Calls
    BY <2>1 DEF TypeOK, Calls, Results
  <2>4. pc' \in [Processes -> Pcs]
    BY <1>9 DEF LstatLock, Goto, TypeOK, Pcs, LockFilePcs, TestPcs
  <2> QED
    BY <1>9, <2>2, <2>3, <2>4 DEF LstatLock, TypeOK
<1>10. CASE RemoveUnique(p)
  <2>1. call[p].stBuf \in Stats \union {NoStat}
    BY DEF TypeOK, Calls
  <2>2. LoopType
    BY <1>10, <2>1, AcquiredType, ErrorType, BusyType DEF RemoveUnique
  <2> QED
    BY <1>10, <2>2 DEF RemoveUnique, LoopType, TypeOK
<1> QED
  BY <1>1, <1>2, <1>3, <1>4, <1>5, <1>6, <1>7, <1>8, <1>9, <1>10
     DEF LockFileStep

\* linkCountSupport is a Boolean.
LEMMA SupportType ==
  ASSUME TypeOK, NEW p \in Processes, NEW b \in BOOLEAN,
         d' = [d EXCEPT ![p].linkCountSupport = b]
  PROVE  d' \in [Processes -> Privates]
<1>1. [d[p] EXCEPT !.linkCountSupport = b] \in Privates
  BY DEF TypeOK, Privates
<1>2. d' = [d EXCEPT ![p] = [d[p] EXCEPT !.linkCountSupport = b]]
  OBVIOUS
<1> QED
  BY <1>1, <1>2 DEF TypeOK

LEMMA TestTypes ==
  ASSUME TypeOK, NEW p \in Processes, TestStep(p)
  PROVE  TypeOK'
<1> USE DEF files, world
<1>1. ASSUME NEW f \in Files, TestLink(p, f) PROVE TypeOK'
  BY <1>1 DEF TestLink, Goto, TypeOK, Pcs, TestPcs
<1>2. CASE TestLinkFails(p)
  BY <1>2, SupportType DEF TestLinkFails, Goto, TypeOK, Pcs, TestPcs
<1>3. CASE TestStat(p)
  BY <1>3, SupportType DEF TestStat, SupportsLinkCount, Goto, TypeOK, Pcs, TestPcs
<1>4. CASE TestUnlink(p)
  <2>1. pc' \in [Processes -> Pcs] /\ call' \in [Processes -> Calls]
    <3>1. CASE call[p].breaking
      BY <1>4, <3>1 DEF TestUnlink, Goto, TypeOK, Pcs, BreakPcs
    <3>2. CASE ~call[p].breaking
      BY <1>4, <3>2, ResultType DEF TestUnlink, Results, Pcs, LockFilePcs
    <3> QED
      BY <3>1, <3>2
  <2> QED
    BY <1>4, <2>1 DEF TestUnlink, TypeOK
<1> QED
  BY <1>1, <1>2, <1>3, <1>4 DEF TestStep

LEMMA StaleTypes ==
  ASSUME TypeOK, NEW p \in Processes, StaleStep(p)
  PROVE  TypeOK'
<1> USE DEF files, world
<1>1. CASE ReadPid(p)
  <2>1. PICK q \in Processes \union {NoPid} :
          d' = [d EXCEPT ![p] = [d[p] EXCEPT !.pid = q]]
    BY <1>1 DEF ReadPid, TypeOK, Files
  <2>2. [d[p] EXCEPT !.pid = q] \in Privates
    BY DEF TypeOK, Privates
  <2> QED
    BY <1>1, <2>1, <2>2 DEF ReadPid, Goto, TypeOK, Pcs
<1>2. CASE NotStale(p)
  <2>1. call[p].hardErrors \in 1..HardErrors
    BY DEF TypeOK, Calls
  <2> QED
    BY <1>2, <2>1, AgainType DEF NotStale, TypeOK
<1>3. CASE ReportStale(p)
  BY <1>3, NewTypes DEF ReportStale, Return, Goto, TypeOK, Pcs
<1>4. CASE BreakStale(p)
  <2>1. [call[p] EXCEPT !.breaking = TRUE] \in Calls
    BY DEF TypeOK, Calls
  <2>2. call' = [call EXCEPT ![p] = [call[p] EXCEPT !.breaking = TRUE]]
    BY <1>4 DEF BreakStale
  <2> QED
    BY <1>4, <2>1, <2>2 DEF BreakStale, Goto, TypeOK, Pcs, BreakPcs
<1> QED
  BY <1>1, <1>2, <1>3, <1>4 DEF StaleStep

LEMMA BreakTypes ==
  ASSUME TypeOK, NEW p \in Processes, BreakStep(p)
  PROVE  TypeOK'
<1> USE DEF files, world, LoopType
<1>1. ASSUME NEW f \in Files, LinkTemp(p, f) PROVE TypeOK'
  BY <1>1 DEF LinkTemp, Goto, TypeOK, Pcs, BreakPcs
<1>2. CASE LinkTempFails(p)
  BY <1>2, BrokenType DEF LinkTempFails, TypeOK
<1>3. CASE StatTemp(p) \/ StatLock(p)
  BY <1>3 DEF StatTemp, StatLock, Mismatch, Goto, TypeOK, Pcs, BreakPcs, TestPcs
<1>4. CASE UnlinkLock(p)
  BY <1>4 DEF UnlinkLock, Goto, TypeOK, Pcs, BreakPcs
<1>5. CASE UnlinkTemp(p)
  BY <1>5, BrokenType DEF UnlinkTemp, TypeOK
<1>6. CASE ForceTemp(p)
  BY <1>6 DEF ForceTemp, Goto, TypeOK, Pcs, BreakPcs
<1>7. CASE ForceLock(p)
  BY <1>7, BrokenType DEF ForceLock, TypeOK
<1>8. CASE GiveUp(p)
  BY <1>8, BrokenType DEF GiveUp, TypeOK
<1>9. CASE OpenTempFails(p)
  BY <1>9, NewTypes DEF OpenTempFails, Return, Goto, TypeOK, Pcs
<1> QED
  BY <1>1, <1>2, <1>3, <1>4, <1>5, <1>6, <1>7, <1>8, <1>9 DEF BreakStep

-----------------------------------------------------------------------------
(* The invariant *)

\* What the end of a call of lockFile or deleteStaleLock changes: the process
\* is in the loop again or returns; it does not get a flag or a lock.
LoopEffect(p) ==
  \E w \in {"idle", "lstat", "judge", "readPid"}, c \in Calls, x \in Privates :
    /\ pc' = [pc EXCEPT ![p] = w]
    /\ call' = [call EXCEPT ![p] = c]
    /\ d' = [d EXCEPT ![p] = x]
    /\ ~c.breaking /\ c.options \subseteq call[p].options
    /\ x.isLocked => d[p].isLocked

LEMMA LocalsFacts ==
  ASSUME TypeOK, NEW p \in Processes, NEW e \in 1..HardErrors
  PROVE  /\ ~Locals(p, e).breaking /\ Locals(p, e).options = call[p].options
         /\ ~NoCall.breaking /\ NoCall.options = {}
         /\ TimerReset(p).isLocked = d[p].isLocked
<1>1. call[p] \in Calls /\ d[p] \in Privates
  BY DEF TypeOK
<1> QED
  BY <1>1 DEF Locals, NoCall, Calls, TimerReset, Privates

LEMMA AgainEffect ==
  ASSUME TypeOK, NEW p \in Processes, NEW e \in 1..HardErrors,
         Again(p, e) \/ Return(p)
  PROVE  \E w \in {"idle", "lstat"}, c \in Calls :
           /\ pc' = [pc EXCEPT ![p] = w]
           /\ call' = [call EXCEPT ![p] = c]
           /\ ~c.breaking /\ c.options \subseteq call[p].options
<1>1. CASE Return(p)
  BY <1>1, NewTypes, LocalsFacts DEF Return, Goto
<1>2. CASE Repeat(p, e)
  BY <1>2, LocalsType, LocalsFacts DEF Repeat, Goto
<1> QED
  BY <1>1, <1>2 DEF Again

LEMMA ErrorEffect ==
  ASSUME TypeOK, NEW p \in Processes, Error(p)
  PROVE  LoopEffect(p)
<1>1. call[p].hardErrors \in 1..HardErrors
  BY DEF TypeOK, Calls
<1>2. PICK e \in 1..HardErrors : Again(p, e) \/ Return(p)
  <2>1. CASE call[p].hardErrors = 1
    BY <1>1, <2>1 DEF Error
  <2>2. CASE call[p].hardErrors # 1
    <3>1. call[p].hardErrors - 1 \in 1..HardErrors
      BY <1>1, <2>2, HardErrorsAssumption
    <3> QED
      BY <2>2, <3>1 DEF Error
  <2> QED
    BY <2>1, <2>2
<1>3. /\ TimerReset(p) \in Privates
      /\ TimerReset(p).isLocked = d[p].isLocked
      /\ d' = [d EXCEPT ![p] = TimerReset(p)]
  BY <1>1, ResetType, LocalsFacts DEF Error
<1>4. \E w \in {"idle", "lstat"}, c \in Calls :
        /\ pc' = [pc EXCEPT ![p] = w]
        /\ call' = [call EXCEPT ![p] = c]
        /\ ~c.breaking /\ c.options \subseteq call[p].options
  BY <1>2, AgainEffect
<1> QED
  BY <1>3, <1>4 DEF LoopEffect

LEMMA BusyEffect ==
  ASSUME TypeOK, NEW p \in Processes, NEW st \in Stats \union {NoStat},
         Busy(p, st)
  PROVE  LoopEffect(p)
<1>1. call[p].hardErrors \in 1..HardErrors /\ d[p] \in Privates
  BY DEF TypeOK, Calls
<1> DEFINE c == Locals(p, call[p].hardErrors)
           x == [d[p] EXCEPT !.statBuf = st, !.staleTimer = "running",
                             !.pid = NoPid]
<1>2. c \in Calls /\ ~c.breaking /\ c.options = call[p].options
  BY <1>1, LocalsType, LocalsFacts
<1>3. x \in Privates /\ x.isLocked = d[p].isLocked
  BY <1>1 DEF Privates
<1>4. /\ call' = [call EXCEPT ![p] = c]
      /\ \E w \in {"judge", "readPid"} : pc' = [pc EXCEPT ![p] = w]
      /\ d' = [d EXCEPT ![p] = d[p]] \/ d' = [d EXCEPT ![p] = x]
  BY DEF Busy, Goto, TypeOK
<1> HIDE DEF c, x
<1> QED
  BY <1>1, <1>2, <1>3, <1>4 DEF LoopEffect

LEMMA QuietEffect ==
  ASSUME TypeOK, NEW p \in Processes, NEW e \in 1..HardErrors,
         Again(p, e) \/ Return(p), UNCHANGED d
  PROVE  LoopEffect(p)
<1>1. d' = [d EXCEPT ![p] = d[p]] /\ d[p] \in Privates
  BY DEF TypeOK
<1>2. \E w \in {"idle", "lstat"}, c \in Calls :
        /\ pc' = [pc EXCEPT ![p] = w]
        /\ call' = [call EXCEPT ![p] = c]
        /\ ~c.breaking /\ c.options \subseteq call[p].options
  BY AgainEffect
<1> QED
  BY <1>1, <1>2 DEF LoopEffect

\* The parts of the invariant after such an end.
LEMMA EffectHasTemp ==
  ASSUME TypeOK, HasTemp, NEW p \in Processes, LoopEffect(p),
         temp' = temp \/ temp' = [temp EXCEPT ![p] = NoFile]
  PROVE  HasTemp'
BY DEF LoopEffect, HasTemp, TypeOK, TempPcs, TestPcs

LEMMA EffectExclusion ==
  ASSUME TypeOK, Exclusion, NEW p \in Processes, LoopEffect(p),
         temp' = temp \/ temp' = [temp EXCEPT ![p] = NoFile],
         lock' = lock, pc[p] # "idle"
  PROVE  Exclusion'
<1>1. PICK w \in {"idle", "lstat", "judge", "readPid"}, c \in Calls,
           x \in Privates :
        /\ pc' = [pc EXCEPT ![p] = w]
        /\ call' = [call EXCEPT ![p] = c]
        /\ d' = [d EXCEPT ![p] = x]
        /\ ~c.breaking /\ c.options \subseteq call[p].options
        /\ x.isLocked => d[p].isLocked
  BY DEF LoopEffect
<1>2. ~d[p].isLocked
  BY DEF Exclusion, LockedIsIdle
<1>3. NoBreaking'
  BY <1>1 DEF Exclusion, NoBreaking, TypeOK, BreakPcs
<1>4. OwnTemp'
  BY <1>1 DEF Exclusion, OwnTemp, TypeOK, TempPcs, TestPcs
<1>5. ASSUME NEW q \in Processes, Winner(q)' PROVE Winner(q)
  BY <1>1, <1>2, <1>5 DEF Winner, TypeOK, WinnerPcs, TestPcs
<1>6. OwnLock'
  BY <1>5 DEF Exclusion, OwnLock
<1>7. LockedIsIdle'
  BY <1>1, <1>2 DEF Exclusion, LockedIsIdle, TypeOK
<1> QED
  BY <1>3, <1>4, <1>6, <1>7 DEF Exclusion

\* The steps at the end of which lock () goes on.
LEMMA RemoveEffect ==
  ASSUME TypeOK, NEW p \in Processes, RemoveUnique(p)
  PROVE  \/ LoopEffect(p)
         \/ call[p].result = "LockOK" /\ Acquired(p)
<1>1. call[p].stBuf \in Stats \union {NoStat}
  BY DEF TypeOK, Calls
<1> QED
  BY <1>1, ErrorEffect, BusyEffect DEF RemoveUnique

LEMMA BrokenEffect ==
  ASSUME TypeOK, NEW p \in Processes, Broken(p) \/ NotBroken(p)
  PROVE  LoopEffect(p)
<1>1. call[p].hardErrors \in 1..HardErrors
  BY DEF TypeOK, Calls
<1>2. CASE Broken(p)
  <2>1. /\ TimerReset(p) \in Privates
        /\ TimerReset(p).isLocked = d[p].isLocked
        /\ d' = [d EXCEPT ![p] = TimerReset(p)]
    BY <1>1, <1>2, ResetType, LocalsFacts DEF Broken
  <2>2. /\ pc' = [pc EXCEPT ![p] = "lstat"]
        /\ call' = [call EXCEPT ![p] = Locals(p, call[p].hardErrors)]
        /\ Locals(p, call[p].hardErrors) \in Calls
        /\ ~Locals(p, call[p].hardErrors).breaking
        /\ Locals(p, call[p].hardErrors).options = call[p].options
    BY <1>1, <1>2, LocalsType, LocalsFacts DEF Broken, Repeat, Goto
  <2> QED
    BY <2>1, <2>2 DEF LoopEffect
<1>3. CASE NotBroken(p)
  BY <1>1, <1>3, QuietEffect DEF NotBroken
<1> QED
  BY <1>2, <1>3

LEMMA HasTempStep ==
  ASSUME TypeOK, HasTemp, NEW p \in Processes,
         \/ \E flags \in Flags : Lock(p, flags)
         \/ Unlock(p) \/ Crash(p) \/ TimePasses(p) \/ Step(p)
  PROVE  HasTemp'
<1> USE DEF files, world
<1>1. call[p].hardErrors \in 1..HardErrors
  BY DEF TypeOK, Calls
<1>2. ASSUME NEW flags \in Flags, Lock(p, flags) PROVE HasTemp'
  BY <1>2 DEF Lock, Goto, HasTemp, TypeOK, TempPcs, TestPcs
<1>3. CASE Unlock(p) \/ Crash(p) \/ TimePasses(p)
  BY <1>3 DEF Unlock, Crash, TimePasses, Goto, HasTemp, TypeOK, TempPcs, TestPcs
<1>4. CASE LockFileStep(p)
  <2>1. CASE LstatBusy(p)
    <3>1. Stat(lock) \in Stats
      BY <2>1, StatType DEF LstatBusy, TypeOK
    <3> QED
      BY <2>1, <3>1, BusyEffect, EffectHasTemp DEF LstatBusy
  <2>2. CASE CreateFails(p)
    BY <2>2, ErrorEffect, EffectHasTemp DEF CreateFails
  <2>3. CASE RemoveUnique(p)
    <3>1. CASE LoopEffect(p)
      BY <2>3, <3>1, EffectHasTemp DEF RemoveUnique
    <3>2. CASE Acquired(p)
      BY <2>3, <3>2
         DEF RemoveUnique, Acquired, Return, Goto, HasTemp, TypeOK, TempPcs, TestPcs
    <3> QED
      BY <2>3, <3>1, <3>2, RemoveEffect
  <2>4. ASSUME NEW i \in Inodes, CreateUnique(p, i) PROVE HasTemp'
    BY <2>4 DEF CreateUnique, Goto, HasTemp, TypeOK, Files, TempPcs, TestPcs
  <2>5. ASSUME NEW f \in Files, LinkSucceeds(p, f) PROVE HasTemp'
    BY <2>5 DEF LinkSucceeds, Result, Goto, At, HasTemp, TypeOK, TempPcs, TestPcs
  <2>6. CASE LinkFails(p) \/ LstatFree(p) \/ LstatUnique(p) \/ LstatLockGone(p)
    BY <2>6 DEF LinkFails, LstatFree, LstatUnique, LstatLockGone, Result, Goto,
                At, HasTemp, TypeOK, TempPcs, TestPcs
  <2>7. CASE LstatLock(p)
    BY <2>7 DEF LstatLock, Goto, At, HasTemp, TypeOK, TempPcs, TestPcs
  <2> QED
    BY <1>4, <2>1, <2>2, <2>3, <2>4, <2>5, <2>6, <2>7 DEF LockFileStep
<1>5. CASE TestStep(p)
  BY <1>5 DEF TestStep, TestLink, TestLinkFails, TestStat, TestUnlink, Result,
              Goto, At, HasTemp, TypeOK, TempPcs, TestPcs
<1>6. CASE StaleStep(p)
  <2>1. CASE ReadPid(p) \/ BreakStale(p)
    BY <2>1 DEF ReadPid, BreakStale, Goto, HasTemp, TypeOK, TempPcs, TestPcs
  <2>2. CASE NotStale(p) \/ ReportStale(p)
    BY <1>1, <2>2, QuietEffect, EffectHasTemp DEF NotStale, ReportStale
  <2> QED
    BY <1>6, <2>1, <2>2 DEF StaleStep
<1>7. CASE BreakStep(p)
  <2>1. ASSUME NEW f \in Files, LinkTemp(p, f) PROVE HasTemp'
    BY <2>1 DEF LinkTemp, Goto, HasTemp, TypeOK, TempPcs, TestPcs
  <2>2. CASE LinkTempFails(p) \/ UnlinkTemp(p) \/ ForceLock(p) \/ GiveUp(p)
    <3>1. LoopEffect(p)
      BY <2>2, BrokenEffect DEF LinkTempFails, UnlinkTemp, ForceLock, GiveUp
    <3> QED
      BY <2>2, <3>1, EffectHasTemp
         DEF LinkTempFails, UnlinkTemp, ForceLock, GiveUp
  <2>3. CASE StatTemp(p) \/ StatLock(p)
    BY <2>3 DEF StatTemp, StatLock, Mismatch, Goto, At, HasTemp, TypeOK,
                TempPcs, TestPcs
  <2>4. CASE UnlinkLock(p) \/ ForceTemp(p)
    BY <2>4 DEF UnlinkLock, ForceTemp, Goto, At, HasTemp, TypeOK, TempPcs, TestPcs
  <2>5. CASE OpenTempFails(p)
    BY <1>1, <2>5, QuietEffect, EffectHasTemp DEF OpenTempFails
  <2> QED
    BY <1>7, <2>1, <2>2, <2>3, <2>4, <2>5 DEF BreakStep
<1> QED
  BY <1>2, <1>3, <1>4, <1>5, <1>6, <1>7 DEF Step

\* A step of p between two places where it has won, or has not, and that
\* leaves the lock file and the flags alone.
LEMMA QuietExclusion ==
  ASSUME TypeOK, Exclusion, NEW p \in Processes, NEW w \in Pcs \ BreakPcs,
         pc' = [pc EXCEPT ![p] = w], w # "idle", pc[p] # "idle",
         lock' = lock, UNCHANGED temp,
         \A q \in Processes : d'[q].isLocked = d[q].isLocked,
         \A q \in Processes : /\ call'[q].breaking = call[q].breaking
                              /\ call'[q].options = call[q].options,
         \A q \in Processes \ {p} : call'[q] = call[q],
         w \in TempPcs => pc[p] \in TempPcs,
         \/ w \notin WinnerPcs \union {"removeUnique"}
         \/ w = "removeUnique" /\ call'[p].result # "LockOK"
         \/ pc[p] \in WinnerPcs
  PROVE  Exclusion'
<1>1. ~d[p].isLocked
  BY DEF Exclusion, LockedIsIdle
<1>2. NoBreaking'
  BY DEF Exclusion, NoBreaking, TypeOK
<1>3. OwnTemp'
  BY DEF Exclusion, OwnTemp, TypeOK
<1>4. ASSUME NEW q \in Processes, Winner(q)' PROVE Winner(q)
  <2>1. CASE q = p
    BY <1>1, <1>4, <2>1 DEF Winner, TypeOK, WinnerPcs, TestPcs
  <2>2. CASE q # p
    BY <1>4, <2>2 DEF Winner, TypeOK
  <2> QED
    BY <2>1, <2>2
<1>5. OwnLock'
  BY <1>4 DEF Exclusion, OwnLock
<1>6. LockedIsIdle'
  BY <1>1 DEF Exclusion, LockedIsIdle, TypeOK
<1> QED
  BY <1>2, <1>3, <1>5, <1>6 DEF Exclusion

LEMMA CallExclusion ==
  ASSUME TypeOK, Exclusion, forcers = {}, NEW p \in Processes,
         \/ \E flags \in Flags : Lock(p, flags)
         \/ Unlock(p) \/ Crash(p) \/ TimePasses(p)
  PROVE  Exclusion'
<1>1. ASSUME NEW flags \in Flags, Lock(p, flags) PROVE Exclusion'
  <2>1. NoBreaking'
    BY <1>1 DEF Lock, Goto, Exclusion, NoBreaking, TypeOK, Calls, BreakPcs
  <2>2. OwnTemp' /\ OwnLock' /\ LockedIsIdle'
    BY <1>1 DEF Lock, At, Goto, files, Exclusion, OwnTemp, OwnLock, Winner,
                LockedIsIdle, TypeOK, TempPcs, TestPcs, WinnerPcs
  <2> QED
    BY <2>1, <2>2 DEF Exclusion
<1>2. CASE Unlock(p)
  <2>1. Winner(p) /\ lock.pid = p
    BY <1>2 DEF Unlock, Winner, Exclusion, OwnLock
  <2>2. ASSUME NEW q \in Processes, Winner(q)' PROVE FALSE
    <3>1. q # p
      BY <1>2, <2>2 DEF Unlock, At, Winner, TypeOK, Privates, WinnerPcs, TestPcs
    <3>2. Winner(q)
      BY <1>2, <2>2, <3>1 DEF Unlock, Winner, TypeOK
    <3> QED
      BY <2>1, <3>1, <3>2 DEF Exclusion, OwnLock
  <2>3. OwnLock'
    BY <2>2 DEF OwnLock
  <2>4. NoBreaking' /\ OwnTemp' /\ LockedIsIdle'
    BY <1>2 DEF Unlock, Exclusion, NoBreaking, OwnTemp, LockedIsIdle, TypeOK,
                Privates
  <2> QED
    BY <2>3, <2>4 DEF Exclusion
<1>3. CASE Crash(p)
  <2>1. NoCall.breaking = FALSE /\ NoCall.options = {}
        /\ NewPrivate.isLocked = FALSE
    BY DEF NoCall, NewPrivate
  <2>2. NoBreaking' /\ OwnTemp'
    BY <1>3, <2>1 DEF Crash, Goto, files, Exclusion, NoBreaking, OwnTemp,
                      TypeOK, BreakPcs, TempPcs, TestPcs
  <2>3. ASSUME NEW q \in Processes, Winner(q)' PROVE Winner(q)
    BY <1>3, <2>1, <2>3 DEF Crash, Goto, Winner, TypeOK, WinnerPcs, TestPcs
  <2>4. OwnLock' /\ LockedIsIdle'
    BY <1>3, <2>1, <2>3 DEF Crash, Goto, files, Exclusion, OwnLock,
                            LockedIsIdle, TypeOK
  <2> QED
    BY <2>2, <2>4 DEF Exclusion
<1>4. CASE TimePasses(p)
  <2>1. \A q \in Processes : d'[q].isLocked = d[q].isLocked
    BY <1>4 DEF TimePasses, TypeOK, Privates
  <2> QED
    BY <1>4, <2>1 DEF TimePasses, files, Exclusion, NoBreaking, OwnTemp, OwnLock,
                      Winner, LockedIsIdle
<1> QED
  BY <1>1, <1>2, <1>3, <1>4

LEMMA ResultFacts ==
  ASSUME TypeOK, NEW p \in Processes, NEW r \in Results, NEW w \in Pcs,
         Result(p, r, w)
  PROVE  /\ pc' = [pc EXCEPT ![p] = w]
         /\ call'[p].result = r
         /\ \A q \in Processes : /\ call'[q].breaking = call[q].breaking
                                 /\ call'[q].options = call[q].options
         /\ \A q \in Processes \ {p} : call'[q] = call[q]
BY DEF Result, Goto, TypeOK, Calls

\* The link succeeds only if nobody has the lock.
LEMMA LinkExclusion ==
  ASSUME TypeOK, HasTemp, Exclusion, NEW p \in Processes, NEW f \in Files,
         LinkSucceeds(p, f)
  PROVE  Exclusion'
<1>1. f.pid = p
  BY LinksType DEF LinkSucceeds, At, HasTemp, Exclusion, OwnTemp, TempPcs
<1>2. /\ \A q \in Processes : /\ call'[q].breaking = call[q].breaking
                              /\ call'[q].options = call[q].options
      /\ \A q \in Processes \ {p} : call'[q] = call[q] /\ pc'[q] = pc[q]
      /\ pc'[p] \in {"lstatUnique", "removeUnique"}
  <2>1. CASE d[p].linkCountSupport
    BY <2>1 DEF LinkSucceeds, Goto, TypeOK
  <2>2. CASE ~d[p].linkCountSupport
    <3>1. Result(p, "LockOK", "removeUnique")
      BY <2>2 DEF LinkSucceeds
    <3>2. "LockOK" \in Results /\ "removeUnique" \in Pcs
      BY DEF Results, Pcs, LockFilePcs
    <3> QED
      BY <3>1, <3>2, ResultFacts DEF TypeOK
  <2> QED
    BY <2>1, <2>2
<1>3. NoBreaking'
  BY <1>2 DEF LinkSucceeds, Exclusion, NoBreaking, BreakPcs
<1>4. OwnTemp'
  BY <1>2 DEF LinkSucceeds, At, Exclusion, OwnTemp, TempPcs
<1>5. \A q \in Processes \ {p} : ~Winner(q)'
  BY <1>2 DEF LinkSucceeds, Exclusion, OwnLock, Winner
<1>6. OwnLock'
  BY <1>1, <1>5, NoFileFact DEF LinkSucceeds, OwnLock
<1>7. LockedIsIdle'
  BY <1>2 DEF LinkSucceeds, At, Exclusion, LockedIsIdle
<1> QED
  BY <1>3, <1>4, <1>6, <1>7 DEF Exclusion

LEMMA LockFileExclusion ==
  ASSUME TypeOK, HasTemp, Exclusion, NEW p \in Processes, LockFileStep(p)
  PROVE  Exclusion'
<1> USE DEF files, world
<1>1. CASE LstatBusy(p)
  <2>1. Stat(lock) \in Stats
    BY <1>1, StatType DEF LstatBusy, TypeOK
  <2> QED
    BY <1>1, <2>1, BusyEffect, EffectExclusion DEF LstatBusy, At
<1>2. CASE LstatFree(p)
  BY <1>2, QuietExclusion
     DEF LstatFree, At, Goto, Pcs, LockFilePcs, BreakPcs, WinnerPcs, TempPcs, TestPcs
<1>3. ASSUME NEW i \in Inodes, CreateUnique(p, i) PROVE Exclusion'
  BY <1>3 DEF CreateUnique, At, Goto, Exclusion, NoBreaking, OwnTemp, OwnLock,
              Winner, LockedIsIdle, TypeOK, BreakPcs, WinnerPcs, TempPcs, TestPcs
<1>4. CASE CreateFails(p)
  BY <1>4, ErrorEffect, EffectExclusion DEF CreateFails, At
<1>5. ASSUME NEW f \in Files, LinkSucceeds(p, f) PROVE Exclusion'
  BY <1>5, LinkExclusion
<1>6. CASE LinkFails(p) \/ LstatLockGone(p)
  <2>1. /\ Result(p, "LockError", "removeUnique")
        /\ pc[p] \in {"link", "lstatLock"}
    BY <1>6 DEF LinkFails, LstatLockGone, At
  <2>2. "LockError" \in Results /\ "removeUnique" \in Pcs \ BreakPcs
    BY DEF Results, Pcs, LockFilePcs, BreakPcs
  <2>3. /\ pc' = [pc EXCEPT ![p] = "removeUnique"]
        /\ call'[p].result = "LockError"
        /\ \A q \in Processes : /\ call'[q].breaking = call[q].breaking
                                /\ call'[q].options = call[q].options
        /\ \A q \in Processes \ {p} : call'[q] = call[q]
    BY <2>1, <2>2, ResultFacts
  <2>4. lock' = lock /\ temp' = temp /\ d' = d
    BY <1>6 DEF LinkFails, LstatLockGone
  <2> QED
    BY <2>1, <2>2, <2>3, <2>4, QuietExclusion DEF TempPcs
<1>7. CASE LstatUnique(p)
  <2>1. /\ \A q \in Processes : /\ call'[q].breaking = call[q].breaking
                                /\ call'[q].options = call[q].options
        /\ \A q \in Processes \ {p} : call'[q] = call[q]
    BY <1>7 DEF LstatUnique, TypeOK, Calls
  <2> QED
    BY <1>7, <2>1, QuietExclusion
       DEF LstatUnique, At, Goto, Pcs, LockFilePcs, BreakPcs, WinnerPcs, TempPcs
<1>8. CASE LstatLock(p)
  <2>1. /\ \A q \in Processes : /\ call'[q].breaking = call[q].breaking
                                /\ call'[q].options = call[q].options
        /\ \A q \in Processes \ {p} : call'[q] = call[q]
    BY <1>8 DEF LstatLock, TypeOK, Calls
  <2>2. PICK w \in {"testLink", "removeUnique"} : pc' = [pc EXCEPT ![p] = w]
    BY <1>8 DEF LstatLock, Goto
  <2> QED
    BY <1>8, <2>1, <2>2, QuietExclusion
       DEF LstatLock, At, Pcs, LockFilePcs, BreakPcs, WinnerPcs, TempPcs, TestPcs
<1>9. CASE RemoveUnique(p)
  <2>1. CASE LoopEffect(p)
    BY <1>9, <2>1, EffectExclusion DEF RemoveUnique, At
  <2>2. CASE call[p].result = "LockOK" /\ Acquired(p)
    <3>1. NoCall.breaking = FALSE /\ NoCall.options = {}
      BY DEF NoCall
    <3>2. /\ pc' = [pc EXCEPT ![p] = "idle"]
          /\ call' = [call EXCEPT ![p] = NoCall]
          /\ \A q \in Processes \ {p} : d'[q] = d[q]
          /\ temp' = [temp EXCEPT ![p] = NoFile]
          /\ lock' = lock
      BY <1>9, <2>2 DEF RemoveUnique, Acquired, Return, Goto, TypeOK
    <3>3. NoBreaking' /\ OwnTemp' /\ LockedIsIdle'
      BY <3>1, <3>2 DEF Exclusion, NoBreaking, OwnTemp, LockedIsIdle, TypeOK,
                        BreakPcs, TempPcs, TestPcs
    <3>4. Winner(p)
      BY <1>9, <2>2 DEF RemoveUnique, At, Winner
    <3>5. ASSUME NEW q \in Processes, Winner(q)' PROVE Winner(q)
      BY <3>2, <3>4, <3>5 DEF Winner, TypeOK
    <3>6. OwnLock'
      BY <3>2, <3>5 DEF Exclusion, OwnLock
    <3> QED
      BY <3>3, <3>6 DEF Exclusion
  <2> QED
    BY <1>9, <2>1, <2>2, RemoveEffect
<1> QED
  BY <1>1, <1>2, <1>3, <1>4, <1>5, <1>6, <1>7, <1>8, <1>9 DEF LockFileStep

LEMMA TestExclusion ==
  ASSUME TypeOK, Exclusion, NEW p \in Processes, TestStep(p)
  PROVE  Exclusion'
<1> USE DEF files, world
<1>1. pc[p] \in TestPcs /\ ~call[p].breaking /\ temp' = temp /\ lock' = lock
  BY DEF TestStep, TestLink, TestLinkFails, TestStat, TestUnlink, At, TestPcs,
         Exclusion, NoBreaking
<1>2. pc[p] \in WinnerPcs /\ pc[p] \in TempPcs /\ pc[p] # "idle"
  BY <1>1 DEF WinnerPcs, TempPcs, TestPcs
<1>3. CASE TestUnlink(p)
  <2>1. PICK r \in Results : Result(p, r, "removeUnique")
    BY <1>1, <1>3 DEF TestUnlink, Results
  <2>2. "removeUnique" \in Pcs \ BreakPcs
    BY DEF Pcs, LockFilePcs, BreakPcs
  <2>3. /\ pc' = [pc EXCEPT ![p] = "removeUnique"]
        /\ \A q \in Processes : /\ call'[q].breaking = call[q].breaking
                                /\ call'[q].options = call[q].options
        /\ \A q \in Processes \ {p} : call'[q] = call[q]
    BY <2>1, <2>2, ResultFacts
  <2> QED
    BY <1>1, <1>2, <1>3, <2>2, <2>3, QuietExclusion DEF TestUnlink
<1>4. CASE ~TestUnlink(p)
  <2>1. PICK w \in TestPcs : pc' = [pc EXCEPT ![p] = w] /\ call' = call
    BY <1>4 DEF TestStep, TestLink, TestLinkFails, TestStat, Goto, TestPcs
  <2>2. \A q \in Processes : d'[q].isLocked = d[q].isLocked
    BY <1>4 DEF TestStep, TestLink, TestLinkFails, TestStat, TypeOK, Privates
  <2>3. w \in Pcs \ BreakPcs /\ w # "idle"
    BY <2>1 DEF Pcs, BreakPcs, TestPcs
  <2> QED
    BY <1>1, <1>2, <2>1, <2>2, <2>3, QuietExclusion
<1> QED
  BY <1>3, <1>4

LEMMA StaleExclusion ==
  ASSUME TypeOK, Exclusion, NEW p \in Processes, StaleStep(p)
  PROVE  Exclusion'
<1> USE DEF files, world
<1>1. CASE ReadPid(p)
  <2>1. \A q \in Processes : d'[q].isLocked = d[q].isLocked
    BY <1>1 DEF ReadPid, TypeOK, Privates
  <2> QED
    BY <1>1, <2>1, QuietExclusion
       DEF ReadPid, At, Goto, Pcs, BreakPcs, WinnerPcs, TempPcs, TestPcs
<1>2. CASE NotStale(p) \/ ReportStale(p)
  <2>1. call[p].hardErrors \in 1..HardErrors
    BY DEF TypeOK, Calls
  <2> QED
    BY <1>2, <2>1, QuietEffect, EffectExclusion DEF NotStale, ReportStale, At
<1>3. CASE BreakStale(p)
  BY <1>3 DEF BreakStale, Exclusion, NoBreaking
<1> QED
  BY <1>1, <1>2, <1>3 DEF StaleStep

LEMMA BreakExclusion ==
  ASSUME Exclusion, NEW p \in Processes
  PROVE  ~BreakStep(p)
BY DEF Exclusion, NoBreaking, BreakStep, OpenTempFails, LinkTemp, LinkTempFails,
       StatTemp, StatLock, UnlinkLock, UnlinkTemp, ForceTemp, ForceLock, GiveUp, At, BreakPcs

-----------------------------------------------------------------------------
(* Theorems *)

LEMMA InitIInv == Init => IInv
<1> SUFFICES ASSUME Init PROVE IInv
  OBVIOUS
<1>1. TypeOK
  BY NewTypes DEF Init, TypeOK, Pcs
<1>2. HasTemp
  BY DEF Init, HasTemp, TempPcs, TestPcs
<1>3. ~NoCall.breaking /\ NoCall.options = {} /\ ~NewPrivate.isLocked
  BY DEF NoCall, NewPrivate
<1>4. Exclusion
  BY <1>3 DEF Init, Exclusion, NoBreaking, OwnTemp, OwnLock, Winner,
              LockedIsIdle, BreakPcs, WinnerPcs, TempPcs, TestPcs
<1> QED
  BY <1>1, <1>2, <1>4 DEF IInv

LEMMA NextIInv == IInv /\ [Next]_vars => IInv'
<1> SUFFICES ASSUME IInv, [Next]_vars PROVE IInv'
  OBVIOUS
<1> USE DEF IInv
<1>1. CASE UNCHANGED vars
  BY <1>1 DEF vars, world, files, TypeOK, HasTemp, Exclusion, NoBreaking, OwnTemp,
              OwnLock, Winner, LockedIsIdle
<1>2. ASSUME NEW p \in Processes,
             \/ \E flags \in Flags : Lock(p, flags)
             \/ Unlock(p) \/ Crash(p) \/ TimePasses(p) \/ Step(p)
      PROVE  IInv'
  <2>1. TypeOK'
    BY <1>2, CallTypes, LockFileTypes, TestTypes, StaleTypes, BreakTypes DEF Step
  <2>2. HasTemp'
    BY <1>2, HasTempStep
  <2>3. forcers' = forcers
    BY <1>2 DEF world, Lock, Unlock, Crash, TimePasses, Step, LockFileStep,
       LstatBusy, LstatFree, CreateUnique, CreateFails, LinkSucceeds, LinkFails,
       LstatUnique, LstatLockGone, LstatLock, RemoveUnique, TestStep, TestLink,
       TestLinkFails, TestStat, TestUnlink, StaleStep, ReadPid, NotStale,
       ReportStale, BreakStale, BreakStep, OpenTempFails, LinkTemp, LinkTempFails,
       StatTemp, StatLock, UnlinkLock, UnlinkTemp, ForceTemp, ForceLock, GiveUp
  <2>4. ASSUME forcers = {} PROVE Exclusion'
    BY <1>2, <2>4, CallExclusion, LockFileExclusion, TestExclusion,
       StaleExclusion, BreakExclusion DEF Step
  <2> QED
    BY <2>1, <2>2, <2>3, <2>4
<1> QED
  BY <1>1, <1>2 DEF Next

LEMMA Invariance == Spec => []IInv
BY InitIInv, NextIInv, PTL DEF Spec

\* The variables keep their types, with and without forcing processes.
THEOREM Typing == Spec => []TypeOK
BY Invariance, PTL DEF IInv

LEMMA ExclusionImplies == IInv => HolderOwnsFile /\ MutualExclusion
BY DEF IInv, Exclusion, OwnLock, Winner, HolderOwnsFile, MutualExclusion, Holds,
       Holder

\* The lock file of a process that has the lock is there and its own, whoever
\* crashes where, for any number of processes that do not force.
THEOREM LockFileIsOwn == Spec => []HolderOwnsFile
BY Invariance, ExclusionImplies, PTL

\* Two such processes never have the lock at the same time.
THEOREM LockExcludes == Spec => []MutualExclusion
BY Invariance, ExclusionImplies, PTL

-----------------------------------------------------------------------------
(* The refinement: the link is Acquire, the return of LockOK is Grant,     *)
(* unlock () is Release, and every other system call is a stutter.         *)

SameLives == \A q \in Processes : At(q, "crashed")' <=> At(q, "crashed")

SameLocks ==
  lock' = lock /\ \A q \in Processes : d'[q].isLocked <=> d[q].isLocked

\* What the abstract lock does not see.
LEMMA Stutters ==
  ASSUME SameLives, forcers' = forcers, forcers = {} => SameLocks
  PROVE  UNCHANGED Abstract!lockVars
<1>1. {q \in Processes : ~Alive(q)}' = {q \in Processes : ~Alive(q)}
  BY DEF SameLives, Alive
<1>2. {q \in Processes : forcers = {} /\ Holds(q)}'
        = {q \in Processes : forcers = {} /\ Holds(q)}
  BY DEF SameLocks, Holds
<1>3. (IF forcers = {} THEN Holder ELSE NoPid)'
        = (IF forcers = {} THEN Holder ELSE NoPid)
  BY DEF SameLocks, Holder
<1> QED
  BY <1>1, <1>2, <1>3 DEF Abstract!lockVars

LEMMA WorldStays ==
  ASSUME NEW p \in Processes,
         \/ \E flags \in Flags : Lock(p, flags)
         \/ Unlock(p) \/ Crash(p) \/ TimePasses(p) \/ Step(p)
  PROVE  forcers' = forcers
BY DEF world, Lock, Unlock, Crash, TimePasses, Step, LockFileStep,
   LstatBusy, LstatFree, CreateUnique, CreateFails, LinkSucceeds, LinkFails,
   LstatUnique, LstatLockGone, LstatLock, RemoveUnique, TestStep, TestLink,
   TestLinkFails, TestStat, TestUnlink, StaleStep, ReadPid, NotStale,
   ReportStale, BreakStale, BreakStep, OpenTempFails, LinkTemp, LinkTempFails,
   StatTemp, StatLock, UnlinkLock, UnlinkTemp, ForceTemp, ForceLock, GiveUp

-----------------------------------------------------------------------------
(* Who lives *)

\* A process that goes from one place where it lives to another.
LEMMA LivesOn ==
  ASSUME TypeOK, NEW p \in Processes, pc[p] # "crashed",
         NEW w \in Pcs, w # "crashed", pc' = [pc EXCEPT ![p] = w]
  PROVE  SameLives
BY DEF SameLives, At, TypeOK

LEMMA EffectLives ==
  ASSUME TypeOK, NEW p \in Processes, pc[p] # "crashed", LoopEffect(p)
  PROVE  SameLives
<1>1. PICK w \in {"idle", "lstat", "judge", "readPid"} : pc' = [pc EXCEPT ![p] = w]
  BY DEF LoopEffect
<1> QED
  BY <1>1, LivesOn DEF Pcs, LockFilePcs

LEMMA StepLives ==
  ASSUME TypeOK, NEW p \in Processes,
         \/ \E flags \in Flags : Lock(p, flags)
         \/ Unlock(p) \/ TimePasses(p) \/ Step(p)
  PROVE  SameLives
<1> USE DEF At, Goto, Pcs, LockFilePcs, BreakPcs, TestPcs
<1>1. call[p].hardErrors \in 1..HardErrors
  BY DEF TypeOK, Calls
<1>2. CASE \E flags \in Flags : Lock(p, flags)
  BY <1>2, LivesOn DEF Lock
<1>3. CASE Unlock(p) \/ TimePasses(p)
  BY <1>3 DEF Unlock, TimePasses, SameLives
<1>4. CASE LockFileStep(p)
  <2>1. CASE LstatBusy(p)
    <3>1. Stat(lock) \in Stats
      BY <2>1, StatType DEF LstatBusy, TypeOK
    <3> QED
      BY <2>1, <3>1, BusyEffect, EffectLives DEF LstatBusy
  <2>2. CASE CreateFails(p)
    BY <2>2, ErrorEffect, EffectLives DEF CreateFails
  <2>3. CASE RemoveUnique(p)
    <3>1. CASE LoopEffect(p)
      BY <2>3, <3>1, EffectLives DEF RemoveUnique
    <3>2. CASE Acquired(p)
      BY <2>3, <3>2, LivesOn DEF RemoveUnique, Acquired, Return
    <3> QED
      BY <2>3, <3>1, <3>2, RemoveEffect
  <2>4. CASE \/ LstatFree(p) \/ (\E i \in Inodes : CreateUnique(p, i))
             \/ (\E f \in Files : LinkSucceeds(p, f)) \/ LinkFails(p)
             \/ LstatUnique(p) \/ LstatLockGone(p) \/ LstatLock(p)
    <3>1. /\ pc[p] \in {"lstat", "create", "link", "lstatUnique", "lstatLock"}
          /\ \E w \in {"create", "link", "lstatUnique", "lstatLock", "testLink",
                       "removeUnique"} : pc' = [pc EXCEPT ![p] = w]
      BY <2>4 DEF LstatFree, CreateUnique, LinkSucceeds, LinkFails, LstatUnique,
                  LstatLockGone, LstatLock, Result
    <3> QED
      BY <3>1, LivesOn
  <2> QED
    BY <1>4, <2>1, <2>2, <2>3, <2>4 DEF LockFileStep
<1>5. CASE TestStep(p)
  <2>1. /\ pc[p] \in TestPcs
        /\ \E w \in {"testStat", "testUnlink", "giveUp", "forceTemp",
                     "removeUnique"} : pc' = [pc EXCEPT ![p] = w]
    BY <1>5 DEF TestStep, TestLink, TestLinkFails, TestStat, TestUnlink, Result
  <2> QED
    BY <2>1, LivesOn
<1>6. CASE StaleStep(p)
  <2>1. CASE ReadPid(p) \/ BreakStale(p)
    BY <2>1, LivesOn DEF ReadPid, BreakStale
  <2>2. CASE NotStale(p) \/ ReportStale(p)
    BY <1>1, <2>2, QuietEffect, EffectLives DEF NotStale, ReportStale
  <2> QED
    BY <1>6, <2>1, <2>2 DEF StaleStep
<1>7. CASE BreakStep(p)
  <2>1. CASE LinkTempFails(p) \/ UnlinkTemp(p) \/ ForceLock(p) \/ GiveUp(p)
    BY <2>1, BrokenEffect, EffectLives
       DEF LinkTempFails, UnlinkTemp, ForceLock, GiveUp
  <2>2. CASE \/ (\E f \in Files : LinkTemp(p, f)) \/ StatTemp(p) \/ StatLock(p)
             \/ UnlinkLock(p) \/ ForceTemp(p)
    <3>1. /\ pc[p] \in BreakPcs
          /\ \E w \in BreakPcs \union {"testLink"} : pc' = [pc EXCEPT ![p] = w]
      BY <2>2 DEF LinkTemp, StatTemp, StatLock, UnlinkLock, ForceTemp, Mismatch
    <3> QED
      BY <3>1, LivesOn
  <2>3. CASE OpenTempFails(p)
    BY <1>1, <2>3, QuietEffect, EffectLives DEF OpenTempFails
  <2> QED
    BY <1>7, <2>1, <2>2, <2>3 DEF BreakStep
<1> QED
  BY <1>2, <1>3, <1>4, <1>5, <1>6, <1>7 DEF Step

-----------------------------------------------------------------------------
(* Who has the lock, where nobody forces *)

\* A process that is in a call does not have the lock.
LEMMA EffectLocks ==
  ASSUME TypeOK, Exclusion, NEW p \in Processes, LoopEffect(p), lock' = lock,
         pc[p] # "idle"
  PROVE  SameLocks
<1>1. ~d[p].isLocked
  BY DEF Exclusion, LockedIsIdle
<1>2. PICK x \in Privates : d' = [d EXCEPT ![p] = x] /\ ~x.isLocked
  BY <1>1 DEF LoopEffect
<1> QED
  BY <1>1, <1>2 DEF SameLocks, TypeOK

LEMMA CallLocks ==
  ASSUME TypeOK, NEW p \in Processes,
         (\E flags \in Flags : Lock(p, flags)) \/ TimePasses(p)
  PROVE  SameLocks
BY DEF Lock, TimePasses, files, SameLocks, TypeOK, Privates

\* Of the steps of a call only two matter: the link, and the return of LockOK.
LEMMA StepLocks ==
  ASSUME TypeOK, Exclusion, NEW p \in Processes, Step(p)
  PROVE  \/ SameLocks
         \/ \E f \in Files : LinkSucceeds(p, f)
         \/ RemoveUnique(p) /\ call[p].result = "LockOK" /\ Acquired(p)
<1> USE DEF files, At
<1>1. call[p].hardErrors \in 1..HardErrors
  BY DEF TypeOK, Calls
<1>2. CASE LockFileStep(p)
  <2>1. CASE LstatBusy(p)
    <3>1. Stat(lock) \in Stats
      BY <2>1, StatType DEF LstatBusy, TypeOK
    <3> QED
      BY <2>1, <3>1, BusyEffect, EffectLocks DEF LstatBusy
  <2>2. CASE CreateFails(p)
    BY <2>2, ErrorEffect, EffectLocks DEF CreateFails
  <2>3. CASE RemoveUnique(p)
    BY <2>3, RemoveEffect, EffectLocks DEF RemoveUnique
  <2>4. CASE \/ LstatFree(p) \/ (\E i \in Inodes : CreateUnique(p, i))
             \/ LinkFails(p) \/ LstatUnique(p) \/ LstatLockGone(p) \/ LstatLock(p)
    BY <2>4 DEF LstatFree, CreateUnique, LinkFails, LstatUnique, LstatLockGone,
                LstatLock, SameLocks
  <2> QED
    BY <1>2, <2>1, <2>2, <2>3, <2>4 DEF LockFileStep
<1>3. CASE TestStep(p)
  BY <1>3 DEF TestStep, TestLink, TestLinkFails, TestStat, TestUnlink,
              SameLocks, TypeOK, Privates
<1>4. CASE StaleStep(p)
  <2>1. CASE ReadPid(p) \/ BreakStale(p)
    BY <2>1 DEF ReadPid, BreakStale, SameLocks, TypeOK, Privates
  <2>2. CASE NotStale(p) \/ ReportStale(p)
    BY <1>1, <2>2, QuietEffect, EffectLocks DEF NotStale, ReportStale
  <2> QED
    BY <1>4, <2>1, <2>2 DEF StaleStep
<1> QED
  BY <1>2, <1>3, <1>4, BreakExclusion DEF Step

-----------------------------------------------------------------------------
(* The steps of the abstract lock *)

\* The link is made where there is no lock file.
LEMMA LinkAcquires ==
  ASSUME TypeOK, HasTemp, Exclusion, forcers = {}, forcers' = forcers, SameLives,
         NEW p \in Processes, NEW f \in Files, LinkSucceeds(p, f)
  PROVE  Abstract!Acquire(p)
<1>1. f.pid = p /\ f # NoFile
  BY LinksType, NoFileFact
     DEF LinkSucceeds, At, HasTemp, Exclusion, OwnTemp, TempPcs
<1>2. lock = NoFile /\ lock' = f /\ d' = d /\ Alive(p)
  BY DEF LinkSucceeds, At, Alive
<1>3. Holder = NoPid /\ Holder' = p
  BY <1>1, <1>2 DEF Holder
<1>4. {q \in Processes : ~Alive(q)}' = {q \in Processes : ~Alive(q)}
  BY DEF SameLives, Alive
<1>5. {q \in Processes : forcers = {} /\ Holds(q)}'
        = {q \in Processes : forcers = {} /\ Holds(q)}
  BY <1>2 DEF Holds
<1> QED
  BY <1>2, <1>3, <1>4, <1>5 DEF Abstract!Acquire

\* lock () returns LockOK to the process that made the lock file.
LEMMA ReturnGrants ==
  ASSUME TypeOK, Exclusion, forcers = {}, forcers' = forcers, SameLives,
         NEW p \in Processes,
         RemoveUnique(p), call[p].result = "LockOK", Acquired(p)
  PROVE  Abstract!Grant(p)
<1>1. Holder = p /\ Holder' = Holder /\ Alive(p)
  BY DEF RemoveUnique, At, Alive, Exclusion, OwnLock, Winner, Holder
<1>2. /\ d'[p].isLocked
      /\ \A q \in Processes \ {p} : d'[q] = d[q]
  BY DEF Acquired, TypeOK, TimerReset, Privates
<1>3. {q \in Processes : ~Alive(q)}' = {q \in Processes : ~Alive(q)}
  BY DEF SameLives, Alive
<1>4. {q \in Processes : forcers = {} /\ Holds(q)}'
        = {q \in Processes : forcers = {} /\ Holds(q)} \union {p}
  BY <1>2 DEF Holds
<1> QED
  BY <1>1, <1>3, <1>4 DEF Abstract!Grant

\* unlock () removes the process's own lock file.
LEMMA UnlockReleases ==
  ASSUME TypeOK, Exclusion, forcers = {}, forcers' = forcers, SameLives,
         NEW p \in Processes, Unlock(p)
  PROVE  Abstract!Release(p)
<1>1. Holder' = NoPid /\ Holds(p) /\ Alive(p)
  BY DEF Unlock, At, Alive, Holder, Holds
<1>2. /\ ~d'[p].isLocked
      /\ \A q \in Processes \ {p} : d'[q] = d[q]
  BY DEF Unlock, TypeOK, Privates
<1>3. {q \in Processes : ~Alive(q)}' = {q \in Processes : ~Alive(q)}
  BY DEF SameLives, Alive
<1>4. {q \in Processes : forcers = {} /\ Holds(q)}'
        = {q \in Processes : forcers = {} /\ Holds(q)} \ {p}
  BY <1>2 DEF Holds
<1> QED
  BY <1>1, <1>3, <1>4 DEF Abstract!Release

\* A crash leaves the lock file where it is.
LEMMA CrashCrashes ==
  ASSUME TypeOK, NEW p \in Processes, Crash(p)
  PROVE  Abstract!Crash(p)
<1>1. Holder' = Holder /\ forcers' = forcers /\ Alive(p)
  BY DEF Crash, files, world, Holder
<1>2. /\ ~d'[p].isLocked
      /\ \A q \in Processes \ {p} : d'[q] = d[q]
  BY DEF Crash, TypeOK, NewPrivate
<1>3. {q \in Processes : ~Alive(q)}' = {q \in Processes : ~Alive(q)} \union {p}
  BY DEF Crash, Goto, Alive, At, TypeOK, Pcs
<1>4. {q \in Processes : forcers = {} /\ Holds(q)}'
        = {q \in Processes : forcers = {} /\ Holds(q)} \ {p}
  BY <1>1, <1>2 DEF Holds
<1> QED
  BY <1>1, <1>3, <1>4 DEF Abstract!Crash

-----------------------------------------------------------------------------
(* The refinement *)

LEMMA InitMaps == Init => Abstract!LockInit
BY DEF Init, Abstract!LockInit, Holder, Holds, Alive, At, NewPrivate

LEMMA StepMaps ==
  ASSUME IInv, NEW p \in Processes,
         \/ \E flags \in Flags : Lock(p, flags)
         \/ Unlock(p) \/ Crash(p) \/ TimePasses(p) \/ Step(p)
  PROVE  Abstract!LockNext \/ UNCHANGED Abstract!lockVars
<1>1. TypeOK /\ HasTemp /\ (forcers = {} => Exclusion) /\ forcers' = forcers
  BY WorldStays DEF IInv
<1>2. CASE Crash(p)
  BY <1>1, <1>2, CrashCrashes DEF Abstract!LockNext
<1>3. CASE ~Crash(p) /\ forcers # {}
  BY <1>1, <1>3, StepLives, Stutters
<1>4. CASE ~Crash(p) /\ forcers = {}
  <2>1. SameLives
    BY <1>1, <1>4, StepLives
  <2>2. CASE SameLocks
    BY <1>1, <2>1, <2>2, Stutters
  <2>3. CASE Unlock(p)
    BY <1>1, <1>4, <2>1, <2>3, UnlockReleases DEF Abstract!LockNext
  <2>4. CASE \E f \in Files : LinkSucceeds(p, f)
    BY <1>1, <1>4, <2>1, <2>4, LinkAcquires DEF Abstract!LockNext
  <2>5. CASE RemoveUnique(p) /\ call[p].result = "LockOK" /\ Acquired(p)
    BY <1>1, <1>4, <2>1, <2>5, ReturnGrants DEF Abstract!LockNext
  <2> QED
    BY <1>1, <1>4, <2>2, <2>3, <2>4, <2>5, CallLocks, StepLocks
<1> QED
  BY <1>2, <1>3, <1>4

LEMMA NextMaps ==
  IInv /\ [Next]_vars => [Abstract!LockNext]_(Abstract!lockVars)
<1> SUFFICES ASSUME IInv, [Next]_vars
             PROVE  [Abstract!LockNext]_(Abstract!lockVars)
  OBVIOUS
<1>1. CASE UNCHANGED vars
  <2>1. SameLives /\ SameLocks /\ forcers' = forcers
    BY <1>1 DEF vars, files, world, SameLives, SameLocks, At
  <2> QED
    BY <2>1, Stutters
<1>2. CASE Next
  BY <1>2, StepMaps DEF Next
<1> QED
  BY <1>1, <1>2

\* klockfile_unix.cpp makes a lock of links, link counts and temporary files:
\* whatever processes run, crash and reuse inodes, it behaves like the abstract
\* lock, which a crashed process does not lose.
THEOREM LockIsImplemented == Spec => ImplementsLock
BY InitMaps, NextMaps, Invariance, PTL
   DEF Spec, ImplementsLock, Abstract!LockSpec
=============================================================================
