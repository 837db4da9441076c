--------------------------- MODULE DirListerCache ---------------------------
(***************************************************************************)
(* KDirListerCache (kio/kio/kdirlister.cpp): the directories a process has *)
(* listed, shared by its KDirListers, with the list jobs, the watches and  *)
(* the notifications that keep them up-to-date.                            *)
(*                                                                         *)
(* Everything happens in one thread: a call of the application, a slot or  *)
(* an event that was posted is one step.  In between come the io-slaves,   *)
(* which read the disk, and other processes, which change it.              *)
(***************************************************************************)
EXTENDS Naturals, FiniteSetsExt

CONSTANTS
  Listers,          \* the KDirListers
  Dirs,             \* the directories; a directory is also an item
  Contents,         \* Contents[dir]: the items that dir may have
  Top,              \* the directory that is always there
  ManuallyMounted,  \* directories that may be unmounted ("mounted")
  MaxChanges,       \* so many times the disk changes
  UsageSets,        \* what the application and the world do: the choices
  NoItem, NoJob, NoDir,
  Ended             \* in jobData: a job that no longer exists

ASSUME DirsAssumption ==
  /\ Top \in Dirs /\ NoDir \notin Dirs /\ Ended \notin Dirs
  /\ DOMAIN Contents = Dirs /\ ManuallyMounted \subseteq Dirs
ASSUME FiniteAssumption == IsFiniteSet(Dirs) /\ IsFiniteSet(Listers)
\* A directory is in one other, and not below itself.
ASSUME DirsAreTree ==
  /\ \A dir \in Dirs \ {Top} : \E parent \in Dirs : dir \in Contents[parent]
  /\ \A p, q \in Dirs : p # q => Contents[p] \cap Contents[q] = {}
  /\ \A D \in SUBSET Dirs : D # {} => \E dir \in D : Contents[dir] \cap D = {}
ASSUME BoundAssumption == MaxChanges \in Nat \ {0}

VARIABLES
  usage,            \* what the application and the world do
  disk,             \* disk[dir]: the items of dir
  changes,          \* how often the disk has changed
  signals,          \* KDirNotify's on their way
  c                 \* the cache, its jobs and watches, and all listers

vars == <<usage, disk, changes, signals, c>>

\* Beyond openUrl () of an idle lister, with Keep for its first directory and
\* for those that its view shows and it does not have, there are
\*   "early"        openUrl () of a lister that is not finished
\*   "abandon"      openUrl () or ~KDirLister, and a directory to which nobody
\*                  but the lister held on is being updated
\*   "keepEarly"    openUrl ( Keep ) of a lister that is not finished
\*   "keepAgain"    openUrl ( Keep ) of a directory it has
\*   "keepRoot"     openUrl ( Keep ) of a lister whose first directory has been
\*                  deleted and is its url () still
\*   "reload"       openUrl ( Reload )
\*   "close"        ~KDirLister
\*   "stop"         stop () and stop ( url ), but not of a list job
\*   "stopJob"      also of a list job
\*   "update"       updateDirectory ()
\*   "manual"       setAutoUpdate ()
\*   "notify"       FilesAdded of KDirNotify for every change
\*   "removed"      FilesRemoved of KDirNotify for items that are removed
\*   "removedEarly" a removal reported while its directory is listed
\*   "fails"        jobs that fail for a new directory
\*   "updateFails"  jobs that fail for an update
\*   "overtaken"    a result of a job before a CachedItemsJob posted earlier
\*   "racing"       directories that are opened before KDirWatch has reported
\*                  a change of them
\*   "again"        MaxChanges changes of the disk instead of one
\*   "evict"        other directories that fill itemsCached
\*   "mounted"      ManuallyMounted
Usages == {"early", "abandon", "keepEarly", "keepAgain", "keepRoot", "reload",
           "close", "stop", "stopJob", "update", "manual", "notify", "removed",
           "removedEarly", "fails", "updateFails", "overtaken", "racing",
           "again", "evict", "mounted"}

ASSUME UsageAssumption == \A chosen \in UsageSets : chosen \subseteq Usages

Does(u) == u \in usage

Items == UNION {Contents[dir] : dir \in Dirs}

DirItems == [autoUpdates : 0..(Cardinality(Listers) + 1), complete : BOOLEAN,
             items : SUBSET Items]

ASSUME NoItemAssumption ==
  NoItem \notin [autoUpdates : Nat, complete : BOOLEAN, items : SUBSET Items]

NewDirItem == [autoUpdates |-> 0, complete |-> FALSE, items |-> {}]

\* A KIO::ListJob that slotEntries ("list") or slotUpdateEntries ("update")
\* listens to.  left is what the slave has read and not sent, buffer the value
\* in runningListJobs.
ListJobs == [kind : {"list", "update"}, read : BOOLEAN, left : SUBSET Items,
             buffer : SUBSET Items]

CachedItemsJobs == [url : Dirs, items : SUBSET Items, reload : BOOLEAN]

ASSUME NoJobAssumption == NoJob \notin ListJobs \union CachedItemsJobs

\* dir itself and the directories in it; KUrl::isParentOf.
Below[dir \in Dirs] ==
  {dir} \union UNION {Below[sub] : sub \in Contents[dir] \cap Dirs}

Exists(dir) == dir = Top \/ \E parent \in Dirs : dir \in disk[parent]

-----------------------------------------------------------------------------
(* Items and watches.  where is "itemsInUse" or "itemsCached". *)

HasDirItem(s, where, dir) == s[where][dir] # NoItem

\* Who has dir: directoryData has an entry for it if there is anyone.
Users(s, dir) ==
  s.listersCurrentlyListing[dir] \union s.listersCurrentlyHolding[dir]

\* incAutoUpdate, with KDirWatch::addDir () for the first.
IncAutoUpdate(s, where, dir) ==
  [s EXCEPT ![where][dir].autoUpdates = @ + 1]

\* KDirWatch::removeDir () forgets a change that it has not reported.
Unwatched(s, dir) == [s EXCEPT !.dirty[dir] = FALSE]

\* Mutant: the count only grows.
NeverLess(s, where, dir) == s

\* decAutoUpdate
DecAutoUpdate(s, where, dir) ==
  LET n == s[where][dir].autoUpdates
      t == [s EXCEPT ![where][dir].autoUpdates = IF n = 0 THEN 0 ELSE n - 1]
  IN  IF n = 1 THEN Unwatched(t, dir) ELSE t

\* The destructor of DirItem.
Deleted(s, where, dir) ==
  LET t == [s EXCEPT ![where][dir] = NoItem]
  IN  IF HasDirItem(s, where, dir) /\ s[where][dir].autoUpdates > 0
        THEN Unwatched(t, dir) ELSE t

\* Mutant: the item is taken from itemsCached and keeps the watch it had there.
TakenWithWatch(s, dir) ==
  [s EXCEPT !.itemsInUse[dir] = s.itemsCached[dir], !.itemsCached[dir] = NoItem]

TakenFromCache(s, dir) ==
  LET t == DecAutoUpdate(s, "itemsCached", dir)
  IN  [t EXCEPT !.itemsInUse[dir] = t.itemsCached[dir],
                !.itemsCached[dir] = NoItem]

Watched(s, dir) ==
  \E where \in {"itemsInUse", "itemsCached"} :
    HasDirItem(s, where, dir) /\ s[where][dir].autoUpdates > 0

-----------------------------------------------------------------------------
(* Jobs *)

JobDone(s, listers, dir) ==
  [s EXCEPT !.jobData = [l \in Listers |-> IF l \in listers THEN @[l] \ {dir}
                                                            ELSE @[l]]]

JobStarted(s, listers, dir) ==
  [s EXCEPT !.jobData = [l \in Listers |-> IF l \in listers THEN @[l] \union {dir}
                                                            ELSE @[l]],
            !.complete = [l \in Listers |-> @[l] /\ l \notin listers]]

\* The job of dir is gone, killed or with its result; whoever still has it in
\* jobData has a dangling pointer there.
JobGone(s, dir) ==
  [s EXCEPT !.job[dir] = NoJob,
            !.jobData = [l \in Listers |-> IF dir \in @[l]
                                             THEN (@[l] \ {dir}) \union {Ended}
                                             ELSE @[l]]]

NewJob(s, dir, kind) ==
  [s EXCEPT !.job[dir] = [kind |-> kind, read |-> FALSE, left |-> {}, buffer |-> {}]]

\* Listers without a job are finished.
Finished(s, listers) ==
  [s EXCEPT !.complete = [l \in Listers |->
     @[l] \/ (l \in listers /\ s.jobData[l] = {})]]

\* The CachedItemsJob of l has run or is deleted.
NoCachedItemsJob(s, l) == [s EXCEPT !.cachedItemsJob[l] = NoJob]

-----------------------------------------------------------------------------
(* Signals to the views.  shown is what they show, doubled those that have    *)
(* been told of an item they showed already.                               *)

Announce(s, listers, dir, items) ==
  [s EXCEPT !.shown = [l \in Listers |-> [d \in Dirs |->
              IF l \in listers /\ d = dir THEN @[l][d] \union items ELSE @[l][d]]],
            !.doubled = @ \union {l \in listers : s.shown[l][dir] \cap items # {}}]

\* A view drops with a directory what it shows of it.
Retract(s, listers, dir, items) ==
  LET below == UNION {Below[sub] : sub \in items \cap Dirs}
  IN  [s EXCEPT !.shown = [l \in Listers |-> [d \in Dirs |->
         IF l \notin listers THEN @[l][d]
         ELSE IF d \in below THEN {}
         ELSE IF d = dir THEN @[l][d] \ items ELSE @[l][d]]]]

ClearAll(s, l) == [s EXCEPT !.shown[l] = [dir \in Dirs |-> {}]]

-----------------------------------------------------------------------------
(* stop *)

\* stopLister: the lister becomes a holder; the job goes on.
StopLister(s, l, dirs) ==
  [s EXCEPT
     !.listersCurrentlyListing = [d \in Dirs |-> IF d \in dirs THEN @[d] \ {l}
                                                               ELSE @[d]],
     !.listersCurrentlyHolding = [d \in Dirs |-> IF d \in dirs THEN @[d] \union {l}
                                                               ELSE @[d]]]

ListedBy(s, l) == {dir \in Dirs : l \in s.listersCurrentlyListing[dir]}

\* stop ( lister )
StopAll(s, l) ==
  LET stopped == ListedBy(s, l) # {} \/ s.cachedItemsJob[l] # NoJob
      t == NoCachedItemsJob(StopLister(s, l, ListedBy(s, l)), l)
  IN  [t EXCEPT !.complete[l] = @ \/ stopped]

\* stop ( lister, url )
StopOne(s, l, dir) ==
  LET t == IF s.cachedItemsJob[l] # NoJob /\ s.cachedItemsJob[l].url = dir
             THEN NoCachedItemsJob(s, l) ELSE s
  IN  IF dir \in ListedBy(t, l) THEN Finished(StopLister(t, l, {dir}), {l}) ELSE t

-----------------------------------------------------------------------------
(* forgetDirs *)

\* Mutant: an incomplete item stays in use.
StillInUse(s, dir) ==
  IF s.itemsInUse[dir].complete
    THEN IncAutoUpdate([s EXCEPT !.itemsInUse[dir] = NoItem,
                                 !.itemsCached[dir] = s.itemsInUse[dir]],
                       "itemsCached", dir)
    ELSE s

\* The item that nobody uses any more goes to itemsCached when it is complete.
\* There it is watched, unless that would keep a directory from being unmounted.
Unused(s, dir) ==
  LET item == s.itemsInUse[dir]
      cached == [s EXCEPT !.itemsInUse[dir] = NoItem, !.itemsCached[dir] = item]
  IN  IF ~item.complete THEN Deleted(s, "itemsInUse", dir)
      ELSE IF Does("mounted") /\ ({dir} \union item.items) \cap ManuallyMounted # {}
        THEN [cached EXCEPT !.itemsCached[dir].complete = FALSE]
        ELSE IncAutoUpdate(cached, "itemsCached", dir)

\* What the last user of dir leaves behind.
LastForgets(s, l, dir, notify) ==
  LET killed == IF s.job[dir] = NoJob THEN s ELSE Finished(JobGone(s, dir), {l})
      cleared == IF notify
        THEN [killed EXCEPT !.lstDirs[l] = @ \ {dir}, !.shown[l][dir] = {}]
        ELSE killed
  IN  Unused(cleared, dir)

\* forgetDirs ( lister, url, notify )
ForgetDir(s, l, dir, notify) ==
  LET t == [s EXCEPT !.listersCurrentlyHolding[dir] = @ \ {l},
                     !.jobData[l] = IF s.job[dir] = NoJob THEN @ ELSE @ \ {dir}]
      u == IF Users(t, dir) = {} THEN LastForgets(t, l, dir, notify) ELSE t
      where == IF HasDirItem(u, "itemsInUse", dir) THEN "itemsInUse"
                                                   ELSE "itemsCached"
  IN  IF Users(s, dir) = {} THEN s
      ELSE IF u.autoUpdate[l] /\ HasDirItem(u, where, dir)
        THEN DecAutoUpdate(u, where, dir)
        ELSE u

\* forgetDirs ( lister )
ForgetAll(s, l) ==
  FoldSet(LAMBDA dir, t : ForgetDir(t, l, dir, FALSE),
          ClearAll([s EXCEPT !.lstDirs[l] = {}], l), s.lstDirs[l])

-----------------------------------------------------------------------------
(* updateDirectory *)

\* checkUpdate for a directory that is not in use: it is not up-to-date.
MarkDirty(s, dir) ==
  IF HasDirItem(s, "itemsCached", dir) /\ s.itemsCached[dir].complete
    THEN DecAutoUpdate([s EXCEPT !.itemsCached[dir].complete = FALSE],
                       "itemsCached", dir)
    ELSE s

\* The items of a CachedItemsJob, which has run then.
EmitCachedItems(s, l) ==
  LET cached == s.cachedItemsJob[l]
      t == [NoCachedItemsJob(s, l) EXCEPT !.complete[l] = FALSE]
  IN  Announce(t, {l}, cached.url, cached.items)

\* A job that runs is replaced.  If there is none the listers get their cached
\* items now, and are listing until the update is there.
Restart(s, dir) ==
  IF s.job[dir] # NoJob THEN JobGone(JobDone(s, Users(s, dir), dir), dir)
  ELSE FoldSet(LAMBDA l, t : EmitCachedItems(t, l), s,
               {l \in s.listersCurrentlyListing[dir] : s.cachedItemsJob[l] # NoJob})

UpdateDirectory(s, dir) ==
  IF ~HasDirItem(s, "itemsInUse", dir) THEN MarkDirty(s, dir)
  ELSE JobStarted(NewJob(Restart(s, dir), dir, "update"), Users(s, dir), dir)

-----------------------------------------------------------------------------
(* deleteDir *)

\* What becomes of a holder of a directory that has been deleted.
LoseDir(s, l, dir) ==
  LET treeview == Cardinality(s.lstDirs[l]) > 1
      t == IF treeview THEN [s EXCEPT !.lstDirs[l] = @ \ {dir}]
                       ELSE ClearAll([s EXCEPT !.lstDirs[l] = {}], l)
  IN  IF s.url[l] = dir THEN ForgetAll(s, l) ELSE ForgetDir(t, l, dir, treeview)

\* Everybody stops to list dir and forgets it.
LoseUsers(s, dir) ==
  LET stopped == FoldSet(LAMBDA l, t : StopOne(t, l, dir), s,
                         s.listersCurrentlyListing[dir])
  IN  FoldSet(LAMBDA l, t : LoseDir(t, l, dir), stopped,
              stopped.listersCurrentlyHolding[dir])

\* dir and everything below it is forgotten, also by the cache.
DeleteDir(s, dir) ==
  FoldSet(LAMBDA d, t : Deleted([t EXCEPT !.itemsInUse[d] = NoItem], "itemsCached", d),
          FoldSet(LAMBDA d, t : LoseUsers(t, d), s, Below[dir]),
          Below[dir])

\* itemsDeleted: the views first, then the directories among them.
ItemsDeleted(s, listers, dir, items) ==
  FoldSet(LAMBDA d, t : DeleteDir(t, d), Retract(s, listers, dir, items),
          items \cap Dirs)

\* slotFilesRemoved for one item of dir.  Only holders are told.
FilesRemoved(s, dir, item) ==
  LET where == IF HasDirItem(s, "itemsInUse", dir) THEN "itemsInUse"
                                                   ELSE "itemsCached"
      known == HasDirItem(s, where, dir) /\ item \in s[where][dir].items
      t == IF ~known THEN s
           ELSE Retract([s EXCEPT ![where][dir].items = @ \ {item}],
                        s.listersCurrentlyHolding[dir], dir, {item})
  IN  IF item \in Dirs /\ (known \/ Users(s, item) # {}
                              \/ HasDirItem(s, "itemsCached", item))
        THEN DeleteDir(t, item) ELSE t

-----------------------------------------------------------------------------
(* listDir *)

\* What the lister has to do with earlier directories ends.
LeaveDirs(s, l, dir, keep) ==
  IF ~keep THEN ForgetAll(StopAll(s, l), l)
  ELSE IF dir \notin s.lstDirs[l] THEN s
  ELSE LET t == StopOne(s, l, dir)
       IN  ForgetDir([t EXCEPT !.lstDirs[l] = @ \ {dir}], l, dir, TRUE)

\* The items are emitted from the event loop, just like those of a job.
PostCachedItems(s, l, dir, reload) ==
  [s EXCEPT !.cachedItemsJob[l] =
     [url |-> dir, items |-> s.itemsInUse[dir].items, reload |-> reload]]

\* Nobody lists dir, but it is in use or in the cache.
ListFromCache(s, l, dir, reload) ==
  PostCachedItems(IF HasDirItem(s, "itemsInUse", dir) THEN s
                                                      ELSE TakenFromCache(s, dir),
                  l, dir, reload)

\* dir is new, or it is forgotten and read again.
ListFromDisk(s, l, dir) ==
  LET t == Deleted(s, "itemsCached", dir)
  IN  JobStarted(NewJob([t EXCEPT !.itemsInUse[dir] = NewDirItem], dir, "list"),
                 {l}, dir)

\* Mutant: the items that have been announced to the others are not posted.
JoinedOnly(s, l, dir, reload) ==
  IF s.job[dir] = NoJob THEN s ELSE JobStarted(s, {l}, dir)

\* Somebody else lists dir already; there may be a job for it.
JoinListing(s, l, dir, reload) ==
  LET t == IF s.job[dir] = NoJob THEN s ELSE JobStarted(s, {l}, dir)
  IN  PostCachedItems(t, l, dir, reload)

ListDir(s, l, dir, keep, reload) ==
  LET left == LeaveDirs(s, l, dir, keep)
      t == [left EXCEPT !.complete[l] = FALSE,
                        !.lstDirs[l] = @ \union {dir},
                        !.url[l] = IF @ = NoDir \/ ~keep THEN dir ELSE @,
                        !.listersCurrentlyListing[dir] = @ \union {l}]
      u == IF left.listersCurrentlyListing[dir] # {} THEN JoinListing(t, l, dir, reload)
           ELSE IF \/ HasDirItem(t, "itemsInUse", dir)
                   \/ HasDirItem(t, "itemsCached", dir) /\ ~reload
             THEN ListFromCache(t, l, dir, reload)
             ELSE ListFromDisk(t, l, dir)
  IN  IF u.autoUpdate[l] THEN IncAutoUpdate(u, "itemsInUse", dir) ELSE u

-----------------------------------------------------------------------------
(* The application *)

Idle(l) == c.complete[l] /\ c.jobData[l] = {} /\ c.cachedItemsJob[l] = NoJob

\* What it leaves may be about to be updated, which nobody does then.
MayLeave(l) ==
  (\E dir \in c.lstDirs[l] : /\ Users(c, dir) = {l} /\ c.itemsInUse[dir].complete
                             /\ c.job[dir] # NoJob) => Does("abandon")

\* The constructor of CachedItemsJob asserts that the lister has no other.  An
\* item that is taken from the cache is not watched for a moment.
MayEnter(s, l, dir) ==
  /\ s.cachedItemsJob[l] = NoJob
  /\ HasDirItem(s, "itemsCached", dir) /\ s.dirty[dir] => Does("racing")

OpenUrl(l, dir, keep, reload) ==
  /\ ~Idle(l) => Does(IF keep THEN "keepEarly" ELSE "early")
  /\ keep => CASE c.lstDirs[l] = {} -> c.url[l] \in {NoDir, dir} \/ Does("keepRoot")
               [] dir \in c.lstDirs[l] -> Does("keepAgain")
               [] OTHER -> \E parent \in c.lstDirs[l] : dir \in c.shown[l][parent]
  /\ reload => Does("reload")
  /\ MayLeave(l)
  /\ MayEnter(LeaveDirs(c, l, dir, keep), l, dir)
  /\ c' = ListDir(c, l, dir, keep, reload)
  /\ UNCHANGED <<usage, disk, changes, signals>>

\* A list job of the lister may be stopped.
MayStop(l, dirs) ==
  /\ Does("stop")
  /\ (\E dir \in dirs : c.job[dir] # NoJob /\ c.job[dir].kind = "list") =>
       Does("stopJob")

Stop(l) ==
  /\ MayStop(l, ListedBy(c, l))
  /\ c' = StopAll(c, l)
  /\ UNCHANGED <<usage, disk, changes, signals>>

StopUrl(l, dir) ==
  /\ MayStop(l, ListedBy(c, l) \cap {dir})
  /\ c' = StopOne(c, l, dir)
  /\ UNCHANGED <<usage, disk, changes, signals>>

\* ~KDirLister, and another lister with the same name.
Close(l) ==
  /\ Does("close") /\ c.lstDirs[l] # {} /\ MayLeave(l)
  /\ c' = [ForgetAll(StopAll(c, l), l) EXCEPT
             !.url[l] = NoDir, !.complete[l] = TRUE, !.jobData[l] = {},
             !.autoUpdate[l] = TRUE]
  /\ UNCHANGED <<usage, disk, changes, signals>>

SetAutoUpdate(l, enable) ==
  /\ Does("manual") /\ c.autoUpdate[l] # enable
  /\ c' = FoldSet(LAMBDA dir, s : IF enable THEN IncAutoUpdate(s, "itemsInUse", dir)
                                            ELSE DecAutoUpdate(s, "itemsInUse", dir),
                  [c EXCEPT !.autoUpdate[l] = enable], c.lstDirs[l])
  /\ UNCHANGED <<usage, disk, changes, signals>>

Update(dir) ==
  /\ Does("update")
  /\ c' = UpdateDirectory(c, dir)
  /\ UNCHANGED <<usage, disk, changes, signals>>

-----------------------------------------------------------------------------
(* The event loop *)

\* Who has waited for dir becomes a holder.
Hold(s, listers, dir) ==
  [s EXCEPT !.listersCurrentlyListing[dir] = @ \ listers,
            !.listersCurrentlyHolding[dir] = @ \union listers]

\* CachedItemsJob::done.  While a list job runs for the directory its result
\* will complete the listing.
CachedItemsDone(l) ==
  /\ c.cachedItemsJob[l] # NoJob
  /\ LET dir == c.cachedItemsJob[l].url
         t == EmitCachedItems(c, l)
         held == [Hold(t, {l}, dir) EXCEPT !.complete[l] = TRUE]
     IN  c' = IF t.job[dir] # NoJob THEN t
              ELSE IF c.cachedItemsJob[l].reload \/ ~held.itemsInUse[dir].complete
                THEN UpdateDirectory(held, dir)
                ELSE held
  /\ UNCHANGED <<usage, disk, changes, signals>>

\* A job has read its directory and sends items, which are added to those of
\* the directory (slotEntries) or kept (slotUpdateEntries).
Receive(dir, items) ==
  IF c.job[dir].kind = "list"
    THEN Announce([c EXCEPT !.itemsInUse[dir].items = @ \union items],
                  c.listersCurrentlyListing[dir], dir, items)
    ELSE [c EXCEPT !.job[dir].buffer = @ \union items]

Entries(dir, items) ==
  /\ c.job[dir] # NoJob
  /\ IF c.job[dir].read THEN items # {} /\ items \subseteq c.job[dir].left
                        ELSE Exists(dir) /\ items \subseteq disk[dir]
  /\ LET unread == IF c.job[dir].read THEN c.job[dir].left ELSE disk[dir]
     IN  c' = [Receive(dir, items) EXCEPT !.job[dir].read = TRUE,
                                          !.job[dir].left = unread \ items]
  /\ UNCHANGED <<usage, disk, changes, signals>>

\* The slave has sent everything or, with an error, some of it.  What was
\* posted before is done before.
MayEnd(dir, error) ==
  /\ IF error THEN \/ (~Exists(dir) /\ ~c.job[dir].read)
                    \/ Does(IF c.job[dir].kind = "list" THEN "fails" ELSE "updateFails")
              ELSE c.job[dir].read /\ c.job[dir].left = {}
  /\ \A l \in c.listersCurrentlyListing[dir] :
       c.cachedItemsJob[l] = NoJob \/ Does("overtaken")

\* Mutant: they stay in listersCurrentlyListing.
NotMoved(s, dir) == s

\* moveListersWithoutCachedItemsJob
MoveListers(s, dir) ==
  Hold(s, {l \in s.listersCurrentlyListing[dir] : s.cachedItemsJob[l] = NoJob}, dir)

\* Mutant: the listers still count the job.
EndsUncounted(s, listers, dir) == Finished(JobGone(s, dir), listers)

\* The listers that are told of the end of a job, which is gone.
JobEnds(s, listers, dir) ==
  Finished(JobGone(JobDone(s, listers, dir), dir), listers)

\* slotResult, with or without an error
SlotResult(dir, error) ==
  /\ c.job[dir] # NoJob /\ c.job[dir].kind = "list"
  /\ MayEnd(dir, error)
  /\ LET moved == [MoveListers(c, dir) EXCEPT !.itemsInUse[dir].complete = @ \/ ~error]
     IN  c' = JobEnds(moved, c.listersCurrentlyListing[dir], dir)
  /\ UNCHANGED <<usage, disk, changes, signals>>

\* Mutant: items that are gone stay.
AddOnly(s, listers, dir, new) ==
  Announce([s EXCEPT !.itemsInUse[dir].items = @ \union new,
                     !.itemsInUse[dir].complete = TRUE],
           listers, dir, new)

\* What is new and what is gone.
Merge(s, listers, dir, new) ==
  LET old == s.itemsInUse[dir].items
      kept == ItemsDeleted([s EXCEPT !.itemsInUse[dir].items = new,
                                     !.itemsInUse[dir].complete = TRUE],
                           listers, dir, old \ new)
  IN  Announce(kept, listers, dir, new \ old)

\* slotUpdateResult
SlotUpdateResult(dir, error) ==
  /\ c.job[dir] # NoJob /\ c.job[dir].kind = "update"
  /\ MayEnd(dir, error)
  /\ LET moved == MoveListers(c, dir)
         listers == Users(moved, dir)
         merged == Merge([moved EXCEPT !.job[dir] = NoJob], listers, dir,
                         c.job[dir].buffer)
     IN  c' = JobEnds(IF error THEN moved ELSE merged, listers, dir)
  /\ UNCHANGED <<usage, disk, changes, signals>>

Parent(dir) == CHOOSE parent \in Dirs : dir \in Contents[parent]

\* slotFilesRemoved finds nobody who lists dir.
MayRemove(dir) == c.listersCurrentlyListing[dir] # {} => Does("removedEarly")

MayReport(dir) == c.dirty[dir] /\ (~Exists(dir) => MayRemove(Parent(dir)))

\* slotFileDirty or slotFileDeleted: KDirWatch reports that dir has changed or
\* is gone.
WatchReports(dir) ==
  /\ MayReport(dir)
  /\ LET s == [c EXCEPT !.dirty[dir] = FALSE]
     IN  c' = IF Exists(dir) THEN UpdateDirectory(s, dir)
                             ELSE FilesRemoved(s, Parent(dir), dir)
  /\ UNCHANGED <<usage, disk, changes, signals>>

MayArrive(signal) == signal.type = "removed" => MayRemove(signal.dir)

\* A signal of KDirNotify arrives: slotFilesAdded or slotFilesRemoved.
Notified(signal) ==
  /\ MayArrive(signal)
  /\ signals' = signals \ {signal}
  /\ c' = IF signal.type = "added" THEN UpdateDirectory(c, signal.dir)
                                   ELSE FilesRemoved(c, signal.dir, signal.item)
  /\ UNCHANGED <<usage, disk, changes>>

\* Other directories of the process take the place of dir in itemsCached.
Evict(dir) ==
  /\ Does("evict") /\ HasDirItem(c, "itemsCached", dir)
  /\ c' = Deleted(c, "itemsCached", dir)
  /\ UNCHANGED <<usage, disk, changes, signals>>

-----------------------------------------------------------------------------
(* The disk *)

MayChange == changes < (IF Does("again") THEN MaxChanges ELSE 1)

\* Those who watch dirs have something to report later.
Touched(s, dirs) ==
  [s EXCEPT !.dirty = [d \in Dirs |-> @[d] \/ (d \in dirs /\ Watched(s, d))]]

Create(dir, item) ==
  /\ MayChange /\ Exists(dir)
  /\ item \in Contents[dir] \ disk[dir]
  /\ disk' = [disk EXCEPT ![dir] = @ \union {item}]
  /\ changes' = changes + 1
  /\ signals' = signals \union
       (IF Does("notify") THEN {[type |-> "added", dir |-> dir, item |-> item]} ELSE {})
  /\ c' = Touched(c, {dir})
  /\ UNCHANGED usage

Remove(dir, item) ==
  /\ MayChange
  /\ item \in disk[dir]
  /\ LET gone == IF item \in Dirs THEN Below[item] ELSE {}
     IN  /\ disk' = [d \in Dirs |-> IF d \in gone THEN {}
                                    ELSE IF d = dir THEN disk[d] \ {item} ELSE disk[d]]
         /\ c' = Touched(c, {dir} \union gone)
  /\ changes' = changes + 1
  /\ signals' = signals \union
       (IF Does("removed") THEN {[type |-> "removed", dir |-> dir, item |-> item]} ELSE {})
  /\ UNCHANGED usage

-----------------------------------------------------------------------------
Signals == [type : {"added", "removed"}, dir : Dirs, item : Items]

Caches ==
  [itemsInUse : [Dirs -> DirItems \union {NoItem}],
   itemsCached : [Dirs -> DirItems \union {NoItem}],
   listersCurrentlyListing : [Dirs -> SUBSET Listers],
   listersCurrentlyHolding : [Dirs -> SUBSET Listers],
   job : [Dirs -> ListJobs \union {NoJob}],
   dirty : [Dirs -> BOOLEAN],
   lstDirs : [Listers -> SUBSET Dirs],
   url : [Listers -> Dirs \union {NoDir}],
   complete : [Listers -> BOOLEAN],
   autoUpdate : [Listers -> BOOLEAN],
   cachedItemsJob : [Listers -> CachedItemsJobs \union {NoJob}],
   jobData : [Listers -> SUBSET (Dirs \union {Ended})],
   shown : [Listers -> [Dirs -> SUBSET Items]],
   doubled : SUBSET Listers]

Init ==
  /\ usage \in UsageSets
  /\ disk \in {content \in [Dirs -> SUBSET Items] :
       \A dir \in Dirs : /\ content[dir] \subseteq Contents[dir]
                         /\ \/ dir = Top \/ content[dir] = {}
                            \/ \E parent \in Dirs : dir \in content[parent]}
  /\ changes = 0 /\ signals = {}
  /\ c = [itemsInUse |-> [dir \in Dirs |-> NoItem],
          itemsCached |-> [dir \in Dirs |-> NoItem],
          listersCurrentlyListing |-> [dir \in Dirs |-> {}],
          listersCurrentlyHolding |-> [dir \in Dirs |-> {}],
          job |-> [dir \in Dirs |-> NoJob],
          dirty |-> [dir \in Dirs |-> FALSE],
          lstDirs |-> [l \in Listers |-> {}],
          url |-> [l \in Listers |-> NoDir],
          complete |-> [l \in Listers |-> TRUE],
          autoUpdate |-> [l \in Listers |-> TRUE],
          cachedItemsJob |-> [l \in Listers |-> NoJob],
          jobData |-> [l \in Listers |-> {}],
          shown |-> [l \in Listers |-> [dir \in Dirs |-> {}]],
          doubled |-> {}]

Calls(l) ==
  \/ \E dir \in Dirs, keep, reload \in BOOLEAN : OpenUrl(l, dir, keep, reload)
  \/ Stop(l) \/ (\E dir \in Dirs : StopUrl(l, dir)) \/ Close(l)
  \/ \E enable \in BOOLEAN : SetAutoUpdate(l, enable)

JobStep(dir) ==
  \/ \E items \in SUBSET Contents[dir] : Entries(dir, items)
  \/ \E error \in BOOLEAN : SlotResult(dir, error) \/ SlotUpdateResult(dir, error)

World(dir) ==
  \/ Evict(dir)
  \/ \E item \in Contents[dir] : Create(dir, item) \/ Remove(dir, item)

Next ==
  \/ \E l \in Listers : Calls(l) \/ CachedItemsDone(l)
  \/ \E dir \in Dirs : Update(dir) \/ JobStep(dir) \/ WatchReports(dir) \/ World(dir)
  \/ \E signal \in signals : Notified(signal)

Spec == Init /\ [][Next]_vars

JobMayStep(dir) ==
  /\ c.job[dir] # NoJob
  /\ \/ c.job[dir].left # {} \/ (~c.job[dir].read /\ Exists(dir))
     \/ \E error \in BOOLEAN : MayEnd(dir, error)

\* The event loop turns: what has been posted is delivered, watches and signals
\* arrive, io-slaves answer.  What is posted delays a job (MayEnd) only within a
\* turn, so that fairness is strong for jobs and weak for the rest.  It is
\* written out, with the guards of the handlers for ENABLED and what they change
\* for their steps, since TLC takes too long over whole handlers in WF_vars.
FairSpec ==
  /\ Spec
  /\ \A l \in Listers :
       \/ []<>(c.cachedItemsJob[l] = NoJob)
       \/ []<><<c'.cachedItemsJob[l] # c.cachedItemsJob[l]>>_vars
  /\ \A dir \in Dirs :
       /\ <>[]~JobMayStep(dir) \/ []<><<c'.job[dir] # c.job[dir]>>_vars
       /\ []<>~MayReport(dir) \/ []<><<c.dirty[dir] /\ ~c'.dirty[dir]>>_vars
  /\ \/ []<>(\A signal \in signals : ~MayArrive(signal))
     \/ []<><<signals \ signals' # {}>>_vars

-----------------------------------------------------------------------------
(* Properties *)

TypeOK ==
  /\ usage \in UsageSets /\ usage \subseteq Usages
  /\ disk \in [Dirs -> SUBSET Items]
  /\ changes \in 0..MaxChanges
  /\ signals \subseteq Signals
  /\ c \in Caches

\* The lists of the cache and of the listers agree: who uses a directory is in
\* one of its two lists and has it in lstDirs (kdirlister.cpp:447, "lstDirs must
\* not contain anything that itemsInUse does not contain"), an item is in use as
\* long as somebody uses it and never at the same time in itemsCached, and a job
\* runs for somebody.
UsersRegistered ==
  \A dir \in Dirs :
    /\ c.listersCurrentlyListing[dir] \cap c.listersCurrentlyHolding[dir] = {}
    /\ Users(c, dir) = {l \in Listers : dir \in c.lstDirs[l]}
    /\ HasDirItem(c, "itemsInUse", dir) <=> Users(c, dir) # {}
    /\ ~(HasDirItem(c, "itemsInUse", dir) /\ HasDirItem(c, "itemsCached", dir))
    /\ c.job[dir] # NoJob => Users(c, dir) # {}

ListingHasJob(dir) ==
  \A l \in c.listersCurrentlyListing[dir] :
    \/ c.job[dir] # NoJob
    \/ c.cachedItemsJob[l] # NoJob /\ c.cachedItemsJob[l].url = dir

ListJobHasListers(dir) ==
  c.job[dir] # NoJob /\ c.job[dir].kind = "list" =>
    c.listersCurrentlyListing[dir] # {} /\ c.listersCurrentlyHolding[dir] = {}

\* A lister that lists a directory waits for a job that is there (printDebug is
\* fatal about one that does not); the job of a new directory has listers and
\* no holders (the assertions of slotEntries and slotResult); and no lister
\* counts a job that is gone or that is none of its own, which would keep
\* completed () from it for ever.
JobsServeListers ==
  /\ \A dir \in Dirs : ListingHasJob(dir) /\ ListJobHasListers(dir)
  /\ \A l \in Listers : \A dir \in c.jobData[l] :
       dir # Ended /\ c.job[dir] # NoJob /\ l \in Users(c, dir)

\* A directory is watched for each of its users that updates automatically, and
\* once when it is in the cache and up-to-date: the counts of DirItem survive
\* every way in which listers come, stop, go and lose a directory.
WatchCountExact ==
  \A dir \in Dirs :
    /\ HasDirItem(c, "itemsInUse", dir) =>
         c.itemsInUse[dir].autoUpdates = Cardinality({l \in Users(c, dir) : c.autoUpdate[l]})
    /\ HasDirItem(c, "itemsCached", dir) =>
         c.itemsCached[dir].autoUpdates = IF c.itemsCached[dir].complete THEN 1 ELSE 0

\* Who holds a directory has been told of all its items and of no other, unless
\* it was stopped before: nothing is announced twice, withdrawn from some views
\* only, or lost between a job and the items that were posted.
ViewIsCache ==
  /\ c.doubled = {}
  /\ \A dir \in Dirs : \A l \in c.listersCurrentlyHolding[dir] :
       /\ c.shown[l][dir] \subseteq c.itemsInUse[dir].items
       /\ c.shown[l][dir] = c.itemsInUse[dir].items \/ Does("stop")

\* A complete item is up-to-date (kdirlister_p.h:381), or something is under way
\* that will make it so: a report of KDirWatch, a notification or a job.
CompleteIsUpToDate ==
  \A dir \in Dirs : \A where \in {"itemsInUse", "itemsCached"} :
    HasDirItem(c, where, dir) /\ c[where][dir].complete =>
      \/ c[where][dir].items = disk[dir] /\ Exists(dir)
      \/ c.dirty[dir] \/ \E signal \in signals : signal.dir = dir
      \/ c.job[dir] # NoJob
      \/ Does("manual")

\* An application that opens, closes or updates directories again and again before
\* they are listed can keep them from that for ever.
Patient == usage \cap {"early", "close", "update"} = {}

\* What a lister lists it will hold, or has to forget: every listing ends
\* (kdirlister.h:106), whatever joins it, restarts or stops it, or deletes the
\* directory meanwhile.
ListingEnds ==
  \A l \in Listers, dir \in Dirs :
    Patient /\ l \in c.listersCurrentlyListing[dir]
      ~> l \notin c.listersCurrentlyListing[dir]
=============================================================================
