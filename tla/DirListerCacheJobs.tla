------------------------- MODULE DirListerCacheJobs -------------------------
(***************************************************************************)
(* The jobs of KDirListerCache and the listers that wait for them, for any *)
(* tree of directories and any number of listers.                          *)
(*                                                                         *)
(* JobsServeListers is inductive with what DirListerCacheProofs shows of   *)
(* the lists and with the usages that are excluded: a list job that is     *)
(* stopped goes on with nobody who lists its directory, and a job that     *)
(* overtakes what was posted ends for a lister that has not its items yet. *)
(* While deleteDir empties directories the parts hold for some of them     *)
(* only, which is why they are stated for one directory each.              *)
(***************************************************************************)
EXTENDS DirListerCacheProofs

-----------------------------------------------------------------------------
(* Who counts which jobs: jobData of the listers                            *)

HasData(s) == {"job", "jobData"} \subseteq DOMAIN s

\* The same jobs run, and the listers count those that they counted before.
SameData(s, t) == DOMAIN t = DOMAIN s /\ t.jobData = s.jobData /\ t.job = s.job

LEMMA SameDataWith ==
  ASSUME NEW s, HasData(s), NEW field, field \notin {"job", "jobData"}, NEW value
  PROVE  HasData([s EXCEPT ![field] = value]) /\ SameData(s, [s EXCEPT ![field] = value])
BY DEF HasData, SameData

LEMMA SameDataTwice ==
  ASSUME NEW s, NEW t, NEW u, SameData(s, t), SameData(t, u)
  PROVE  SameData(s, u) /\ (HasData(s) => HasData(t) /\ HasData(u))
BY DEF HasData, SameData

LEMMA StatesHaveData ==
  ASSUME NEW s \in States
  PROVE  HasData(s) /\ s.jobData \in [Listers -> SUBSET (Dirs \union {Ended})]
BY DEF HasData, States

LEMMA ItemsData ==
  ASSUME NEW s, HasData(s), NEW where \in Places, NEW dir
  PROVE  /\ SameData(s, IncAutoUpdate(s, where, dir))
         /\ SameData(s, Unwatched(s, dir))
         /\ SameData(s, DecAutoUpdate(s, where, dir))
         /\ SameData(s, Deleted(s, where, dir))
<1>1. where \notin {"job", "jobData"}
  BY DEF Places
<1>2. SameData(s, IncAutoUpdate(s, where, dir))
  BY <1>1, SameDataWith DEF IncAutoUpdate
<1>3. ASSUME NEW e, SameData(s, e) PROVE SameData(s, Unwatched(e, dir))
  <2>1. HasData(e)
    BY <1>3 DEF SameData, HasData
  <2>2. SameData(e, Unwatched(e, dir))
    BY <2>1, SameDataWith DEF Unwatched
  <2> QED BY <1>3, <2>2, SameDataTwice
<1>4. SameData(s, s)
  BY DEF SameData
<1>5. SameData(s, DecAutoUpdate(s, where, dir))
  <2> DEFINE e == [s EXCEPT ![where][dir].autoUpdates =
                     IF s[where][dir].autoUpdates = 0 THEN 0
                     ELSE s[where][dir].autoUpdates - 1]
  <2>1. SameData(s, e)
    BY <1>1, SameDataWith
  <2>2. SameData(s, Unwatched(e, dir))
    BY <1>3, <2>1
  <2>3. DecAutoUpdate(s, where, dir) \in {e, Unwatched(e, dir)}
    BY DEF DecAutoUpdate
  <2> HIDE DEF e
  <2> QED BY <2>1, <2>2, <2>3
<1>6. SameData(s, Deleted(s, where, dir))
  <2> DEFINE e == [s EXCEPT ![where][dir] = NoItem]
  <2>1. SameData(s, e)
    BY <1>1, SameDataWith
  <2>2. SameData(s, Unwatched(e, dir))
    BY <1>3, <2>1
  <2>3. Deleted(s, where, dir) \in {e, Unwatched(e, dir)}
    BY DEF Deleted
  <2> HIDE DEF e
  <2> QED BY <2>1, <2>2, <2>3
<1> QED BY <1>2, <1>3, <1>4, <1>5, <1>6

LEMMA ViewsData ==
  ASSUME NEW s, HasData(s)
  PROVE  /\ \A listers : SameData(s, Finished(s, listers))
         /\ \A listers, dir, items : SameData(s, Announce(s, listers, dir, items))
         /\ \A listers, dir, items : SameData(s, Retract(s, listers, dir, items))
         /\ \A l : SameData(s, ClearAll(s, l)) /\ SameData(s, NoCachedItemsJob(s, l))
<1>1. ASSUME NEW listers PROVE SameData(s, Finished(s, listers))
  BY SameDataWith DEF Finished
<1>2. ASSUME NEW listers, NEW dir, NEW items
      PROVE  SameData(s, Announce(s, listers, dir, items))
  BY SameDataWith, SameDataTwice DEF Announce, HasData, SameData
<1>3. ASSUME NEW listers, NEW dir, NEW items
      PROVE  SameData(s, Retract(s, listers, dir, items))
  BY SameDataWith DEF Retract
<1>4. ASSUME NEW l
      PROVE  SameData(s, ClearAll(s, l)) /\ SameData(s, NoCachedItemsJob(s, l))
  BY SameDataWith DEF ClearAll, NoCachedItemsJob
<1> QED BY <1>1, <1>2, <1>3, <1>4

LEMMA TakenData ==
  ASSUME NEW s, HasData(s), NEW dir
  PROVE  /\ SameData(s, TakenFromCache(s, dir))
         /\ SameData(s, Unused(s, dir))
         /\ SameData(s, MarkDirty(s, dir))
<1>1. "itemsInUse" \in Places /\ "itemsCached" \in Places
  BY DEF Places
<1>2. \A e, v : SameData(s, e) => /\ SameData(s, [e EXCEPT !.itemsInUse = v])
                                  /\ SameData(s, [e EXCEPT !.itemsCached = v])
  BY SameDataWith, SameDataTwice DEF SameData, HasData
<1>3. SameData(s, s)
  BY DEF SameData
<1>4. SameData(s, TakenFromCache(s, dir))
  <2> DEFINE e == DecAutoUpdate(s, "itemsCached", dir)
  <2>1. SameData(s, e)
    BY <1>1, ItemsData
  <2> HIDE DEF e
  <2>2. TakenFromCache(s, dir) =
          [e EXCEPT !.itemsInUse[dir] = e.itemsCached[dir], !.itemsCached[dir] = NoItem]
    BY DEF TakenFromCache, e
  <2> QED BY <2>1, <2>2 DEF SameData, HasData
<1>5. SameData(s, Unused(s, dir))
  <2> DEFINE e == [s EXCEPT !.itemsInUse[dir] = NoItem, !.itemsCached[dir] = s.itemsInUse[dir]]
             f == [e EXCEPT !.itemsCached[dir].complete = FALSE]
  <2>1. SameData(s, e)
    BY DEF SameData, HasData
  <2>2. SameData(s, f)
    BY <1>2, <2>1
  <2>3. SameData(s, IncAutoUpdate(e, "itemsCached", dir))
    <3>1. HasData(e)
      BY <2>1 DEF SameData, HasData
    <3>2. SameData(e, IncAutoUpdate(e, "itemsCached", dir))
      BY <1>1, <3>1, ItemsData
    <3> QED BY <2>1, <3>2, SameDataTwice
  <2>4. SameData(s, Deleted(s, "itemsInUse", dir))
    BY <1>1, ItemsData
  <2>5. Unused(s, dir) \in
          {f, IncAutoUpdate(e, "itemsCached", dir), Deleted(s, "itemsInUse", dir)}
    BY DEF Unused
  <2> HIDE DEF e, f
  <2> QED BY <2>2, <2>3, <2>4, <2>5
<1>6. SameData(s, MarkDirty(s, dir))
  <2> DEFINE e == [s EXCEPT !.itemsCached[dir].complete = FALSE]
  <2>1. SameData(s, e)
    BY <1>2, <1>3
  <2>2. SameData(s, DecAutoUpdate(e, "itemsCached", dir))
    <3>1. HasData(e)
      BY <2>1 DEF SameData, HasData
    <3>2. SameData(e, DecAutoUpdate(e, "itemsCached", dir))
      BY <1>1, <3>1, ItemsData
    <3> QED BY <2>1, <3>2, SameDataTwice
  <2>3. MarkDirty(s, dir) \in {s, DecAutoUpdate(e, "itemsCached", dir)}
    BY DEF MarkDirty
  <2> HIDE DEF e
  <2> QED BY <1>3, <2>2, <2>3
<1> QED BY <1>4, <1>5, <1>6

\* Who counts the job of dir uses dir, and the job runs.
CountedAt(s, dir) ==
  \A l \in Listers : dir \in s.jobData[l] => l \in Users(s, dir) /\ s.job[dir] # NoJob

\* Nobody counts the job that the last user of dir kills.
LEMMA LastForgetsData ==
  ASSUME NEW s, HasData(s), s.jobData = [k \in Listers |-> s.jobData[k]],
         NEW l, NEW dir, NEW notify, \A k \in Listers : dir \notin s.jobData[k]
  PROVE  LET t == LastForgets(s, l, dir, notify) IN
         HasData(t) /\ t.jobData = s.jobData
<1> DEFINE gone == JobGone(s, dir)
           killed == IF s.job[dir] = NoJob THEN s ELSE Finished(gone, {l})
           quiet == [killed EXCEPT !.lstDirs[l] = @ \ {dir}, !.shown[l][dir] = {}]
           cleared == IF notify THEN quiet ELSE killed
           t == LastForgets(s, l, dir, notify)
<1>1. HasData(gone) /\ gone.jobData = s.jobData
  <2> DEFINE data == [k \in Listers |-> IF dir \in s.jobData[k]
                                         THEN (s.jobData[k] \ {dir}) \union {Ended}
                                         ELSE s.jobData[k]]
  <2>1. data = [k \in Listers |-> s.jobData[k]]
    OBVIOUS
  <2>2. gone = [s EXCEPT !.job[dir] = NoJob, !.jobData = data]
    BY DEF JobGone, HasData
  <2> HIDE DEF gone, data
  <2> QED BY <2>1, <2>2 DEF HasData
<1> HIDE DEF gone
<1>2. HasData(killed) /\ killed.jobData = s.jobData
  <2>1. SameData(gone, Finished(gone, {l}))
    BY <1>1, ViewsData
  <2> QED BY <1>1, <2>1 DEF SameData, HasData
<1> HIDE DEF killed
<1>3. HasData(cleared) /\ cleared.jobData = s.jobData
  BY <1>2 DEF HasData
<1>4. t = Unused(cleared, dir)
  BY DEF LastForgets, killed, gone
<1> HIDE DEF cleared, t
<1>5. SameData(cleared, t)
  BY <1>3, <1>4, TakenData
<1> QED BY <1>3, <1>5 DEF SameData, HasData, t

LEMMA ForgetDirData ==
  ASSUME NEW s \in States, NEW l \in Listers, NEW dir \in Dirs, NEW notify,
         CountedAt(s, dir)
  PROVE  LET t == ForgetDir(s, l, dir, notify) IN
         /\ t.jobData = [s.jobData EXCEPT ![l] = @ \ {dir}]
         /\ \/ t.job = s.job
            \/ s.listersCurrentlyListing[dir] = {} /\ s.listersCurrentlyHolding[dir] = {l}
<1> DEFINE data == [s.jobData EXCEPT ![l] = @ \ {dir}]
           v == [s EXCEPT !.listersCurrentlyHolding[dir] = @ \ {l},
                          !.jobData[l] = IF s.job[dir] = NoJob THEN @ ELSE @ \ {dir}]
           w == LastForgets(v, l, dir, notify)
           u == IF Users(v, dir) = {} THEN w ELSE v
           where == IF HasDirItem(u, "itemsInUse", dir) THEN "itemsInUse"
                                                        ELSE "itemsCached"
           t == ForgetDir(s, l, dir, notify)
<1>1. t = IF Users(s, dir) = {} THEN s
          ELSE IF u.autoUpdate[l] /\ HasDirItem(u, where, dir)
            THEN DecAutoUpdate(u, where, dir) ELSE u
  BY DEF ForgetDir
<1>2. /\ s.jobData \in [Listers -> SUBSET (Dirs \union {Ended})]
      /\ dir \notin s.jobData[l] => data = s.jobData
  BY DEF States
<1>3. CASE Users(s, dir) = {}
  <2>1. t = s /\ dir \notin s.jobData[l]
    BY <1>1, <1>3 DEF CountedAt
  <2> HIDE DEF t, data
  <2> QED BY <1>2, <2>1 DEF t, data
<1>4. CASE Users(s, dir) # {}
  <2>1. v.jobData = data
    <3>1. CASE s.job[dir] = NoJob
      <4>1. dir \notin s.jobData[l]
        BY <3>1 DEF CountedAt
      <4>2. v.jobData = s.jobData
        BY <3>1 DEF States
      <4> HIDE DEF v, data
      <4> QED BY <1>2, <4>1, <4>2
    <3>2. CASE s.job[dir] # NoJob
      BY <3>2 DEF States
    <3> QED BY <3>1, <3>2
  <2>2. /\ HasData(v) /\ v.job = s.job
        /\ Users(v, dir) = s.listersCurrentlyListing[dir] \union
                             (s.listersCurrentlyHolding[dir] \ {l})
    BY DEF HasData, States, Users
  <2>3. data = [k \in Listers |-> data[k]] /\ data[l] = s.jobData[l] \ {dir}
        /\ \A k \in Listers \ {l} : data[k] = s.jobData[k]
    BY <1>2
  <2> HIDE DEF v, data
  <2>4. /\ HasData(u) /\ u.jobData = data
        /\ u.job = s.job \/ Users(v, dir) = {}
    <3>1. CASE Users(v, dir) = {}
      <4>1. ASSUME NEW k \in Listers PROVE dir \notin data[k]
        <5>1. CASE k = l
          BY <2>3, <5>1
        <5>2. CASE k # l
          BY <2>2, <2>3, <3>1, <5>2 DEF CountedAt, Users
        <5> QED BY <5>1, <5>2
      <4>2. HasData(w) /\ w.jobData = v.jobData
        <5>1. v.jobData = [k \in Listers |-> v.jobData[k]]
          BY <2>1, <2>3
        <5> QED BY <2>1, <2>2, <4>1, <5>1, LastForgetsData
      <4> HIDE DEF w
      <4> QED BY <2>1, <3>1, <4>2
    <3>2. CASE Users(v, dir) # {}
      BY <2>1, <2>2, <3>2
    <3> QED BY <3>1, <3>2
  <2> HIDE DEF u
  <2>5. SameData(u, t)
    <3>1. where \in Places
      BY DEF Places
    <3> HIDE DEF where
    <3>2. SameData(u, DecAutoUpdate(u, where, dir))
      BY <2>4, <3>1, ItemsData
    <3> HIDE DEF t
    <3> QED BY <1>1, <1>4, <3>2 DEF SameData
  <2>6. Users(v, dir) = {} =>
          s.listersCurrentlyListing[dir] = {} /\ s.listersCurrentlyHolding[dir] = {l}
    BY <1>4, <2>2 DEF Users
  <2> HIDE DEF t
  <2> QED BY <2>4, <2>5, <2>6 DEF SameData, t, data
<1> QED BY <1>3, <1>4

\* l has forgotten the directories D and their jobs; q is the state before and l.
ForgottenData(q, D, t) ==
  /\ Forgotten(q, D, t)
  /\ t.jobData = [q[1].jobData EXCEPT ![q[2]] = @ \ D]
  /\ \A d \in Dirs : t.job[d] = q[1].job[d] \/ Users(t, d) = {}

ForgetData == INSTANCE FoldLemmas WITH Op <- ForgetOp, Inv <- ForgottenData

LEMMA ForgetAllIsToo ==
  ASSUME NEW s, NEW l
  PROVE  ForgetAll(s, l) =
           ForgetData!Fold(l, ClearAll([s EXCEPT !.lstDirs[l] = {}], l), s.lstDirs[l])
BY DEF ForgetAll, ForgetOp, ForgetData!Fold,
       ForgetData!MapThenFoldSet, FoldSet, MapThenFoldSet

LEMMA ForgetOneData ==
  ASSUME NEW b \in States, NEW l \in Listers, NEW S \in SUBSET Dirs,
         b.lstDirs[l] = {}, \A d \in S : CountedAt(b, d),
         NEW D \in SUBSET S, NEW x \in S \ D, NEW t, ForgottenData(<<b, l>>, D, t)
  PROVE  ForgottenData(<<b, l>>, D \union {x}, ForgetOp(l, x, t))
<1> DEFINE u == ForgetDir(t, l, x, FALSE)
           data == [b.jobData EXCEPT ![l] = @ \ D]
           more == [b.jobData EXCEPT ![l] = @ \ (D \union {x})]
<1>1. /\ Forgotten(<<b, l>>, D, t) /\ t.jobData = data
      /\ \A d \in Dirs : t.job[d] = b.job[d] \/ Users(t, d) = {}
  BY DEF ForgottenData
<1>2. /\ t \in States /\ SameButHolding(b, t) /\ DirOK(t, x) /\ SameDir(b, t, x)
  BY <1>1 DEF Forgotten
<1>3. Forgotten(<<b, l>>, D \union {x}, u)
  BY <1>1, ForgetOne DEF ForgetOp
<1>4. CountedAt(t, x)
  <2>1. CountedAt(b, x) /\ \A k \in Listers : x \in data[k] => x \in b.jobData[k]
    BY DEF States
  <2> HIDE DEF data
  <2> QED BY <1>1, <1>2, <2>1 DEF CountedAt, SameDir, Users
<1>5. /\ u.jobData = [t.jobData EXCEPT ![l] = @ \ {x}]
      /\ \/ u.job = t.job
         \/ t.listersCurrentlyListing[x] = {} /\ t.listersCurrentlyHolding[x] = {l}
  <2>1. t \in States /\ x \in Dirs
    BY <1>2
  <2>2. \A notify \in BOOLEAN :
          /\ ForgetDir(t, l, x, notify).jobData = [t.jobData EXCEPT ![l] = @ \ {x}]
          /\ \/ ForgetDir(t, l, x, notify).job = t.job
             \/ t.listersCurrentlyListing[x] = {} /\ t.listersCurrentlyHolding[x] = {l}
    BY <1>4, <2>1, ForgetDirData
  <2> QED BY <2>2
<1>6. /\ SameButHolding(t, u)
      /\ u.listersCurrentlyHolding[x] = t.listersCurrentlyHolding[x] \ {l}
      /\ \A d \in Dirs \ {x} : SameDir(t, u, d)
  <2>1. x \notin t.lstDirs[l] /\ DirOK(t, x)
    BY <1>2 DEF SameButHolding
  <2>2. t \in States /\ x \in Dirs
    BY <1>2
  <2>3. /\ u \in States /\ SameButHolding(t, u)
        /\ u.listersCurrentlyHolding[x] = t.listersCurrentlyHolding[x] \ {l}
        /\ \A d \in Dirs \ {x} : SameDir(t, u, d)
        /\ DirOK(u, x)
        /\ CountOK(t, x) /\ l \in t.listersCurrentlyHolding[x] => CountOK(u, x)
    BY <2>1, <2>2, ForgetDirFacts
  <2> QED BY <2>3
<1> HIDE DEF u
<1>7. u.jobData = more
  <2>1. [data EXCEPT ![l] = @ \ {x}] = more
    <3>1. b.jobData \in [Listers -> SUBSET (Dirs \union {Ended})]
      BY DEF States
    <3> QED BY <3>1
  <2> HIDE DEF data, more
  <2> QED BY <1>1, <1>5, <2>1
<1>8. ASSUME NEW d \in Dirs PROVE u.job[d] = b.job[d] \/ Users(u, d) = {}
  <2>1. Users(u, d) \subseteq Users(t, d)
    BY <1>6 DEF SameButHolding, SameDir, Users
  <2>2. CASE d # x
    BY <1>1, <1>6, <2>1, <2>2 DEF SameDir
  <2>3. CASE d = x
    <3>1. u.job[d] = t.job[d] \/ Users(u, d) = {}
      BY <1>5, <1>6, <2>3 DEF SameButHolding, Users
    <3> QED BY <1>1, <2>1, <3>1
  <2> QED BY <2>2, <2>3
<1> HIDE DEF more
<1>9. ForgottenData(<<b, l>>, D \union {x}, u)
  BY <1>3, <1>7, <1>8 DEF ForgottenData, more
<1> QED BY <1>9 DEF u, ForgetOp

LEMMA ForgetAllData ==
  ASSUME NEW s \in States, NEW l \in Listers, \A d \in Dirs : DirOK(s, d),
         \A d \in s.lstDirs[l] : CountedAt(s, d)
  PROVE  LET t == ForgetAll(s, l) IN
         /\ t.jobData = [s.jobData EXCEPT ![l] = @ \ s.lstDirs[l]]
         /\ \A d \in Dirs : t.job[d] = s.job[d] \/ Users(t, d) = {}
<1> DEFINE e == [s EXCEPT !.lstDirs[l] = {}]
           b == ClearAll(e, l)
           t == ForgetAll(s, l)
           S == s.lstDirs[l]
<1>1. /\ e \in States /\ SameItems(s, e) /\ e.job = s.job /\ e.jobData = s.jobData
      /\ e.listersCurrentlyListing = s.listersCurrentlyListing
      /\ e.listersCurrentlyHolding = s.listersCurrentlyHolding
      /\ e.autoUpdate = s.autoUpdate /\ e.lstDirs[l] = {}
  BY DEF States, SameItems
<1> HIDE DEF e
<1>2. Quiet(e, b) /\ SameData(e, b)
  BY <1>1, ClearAllQuiet, StatesHaveData, ViewsData
<1> HIDE DEF b
<1>3. /\ b \in States /\ SameItems(s, b) /\ b.job = s.job /\ b.jobData = s.jobData
      /\ b.listersCurrentlyListing = s.listersCurrentlyListing
      /\ b.listersCurrentlyHolding = s.listersCurrentlyHolding
      /\ b.autoUpdate = s.autoUpdate /\ b.lstDirs[l] = {}
  BY <1>1, <1>2 DEF Quiet, SameUsers, SameItems, SameData
<1>4. \A d \in Dirs : DirOK(b, d)
  <2>1. \A d \in Dirs : SameDir(s, b, d)
    BY <1>3 DEF SameDir, SameItems
  <2> QED BY <1>3, <2>1, SameDirOK
<1>5. S \in SUBSET Dirs /\ IsFiniteSet(S)
  BY FiniteAssumption, FS_Subset DEF States
<1>6. \A d \in S : CountedAt(b, d)
  BY <1>3 DEF CountedAt, Users
<1> HIDE DEF S
<1>7. ForgottenData(<<b, l>>, {}, b)
  <2>1. b.jobData = [b.jobData EXCEPT ![l] = @ \ {}]
    BY <1>3, StatesHaveData
  <2>2. Forgotten(<<b, l>>, {}, b)
    BY <1>3, <1>4 DEF Forgotten, SameButHolding, SameDir
  <2> QED BY <2>1, <2>2 DEF ForgottenData
<1>8. ForgottenData(<<b, l>>, S, ForgetData!Fold(l, b, S))
  <2>1. \A D \in SUBSET S : \A x \in S \ D : \A v :
          ForgottenData(<<b, l>>, D, v)
            => ForgottenData(<<b, l>>, D \union {x}, ForgetOp(l, x, v))
    BY <1>3, <1>5, <1>6, ForgetOneData
  <2> QED BY <1>5, <1>7, <2>1, ForgetData!FoldKeeps, FiniteGrounded, Zenon
          DEF ForgetData!Grounded
<1>9. t = ForgetData!Fold(l, b, S)
  BY ForgetAllIsToo DEF b, e, S
<1> HIDE DEF t
<1>10. ForgottenData(<<b, l>>, S, t)
  BY <1>8, <1>9
<1> QED BY <1>3, <1>10 DEF ForgottenData, t, S

-----------------------------------------------------------------------------
(* Jobs serve listers *)

IsList(s, dir) == s.job[dir] # NoJob /\ s.job[dir].kind = "list"

\* The parts of JobsServeListers for one directory.
AwaitedAt(s, dir) ==
  \A l \in s.listersCurrentlyListing[dir] :
    \/ s.job[dir] # NoJob
    \/ s.cachedItemsJob[l] # NoJob /\ s.cachedItemsJob[l].url = dir

FreshAt(s, dir) == IsList(s, dir) => s.listersCurrentlyHolding[dir] = {}

Served(s, dir) == AwaitedAt(s, dir) /\ CountedAt(s, dir) /\ FreshAt(s, dir)

NoneEnded(s) == \A l \in Listers : Ended \notin s.jobData[l]

AllServed(s) == NoneEnded(s) /\ \A dir \in Dirs : Served(s, dir)

\* No lister and no job of dir comes or goes, and nobody counts one more.
SameService(s, t, dir) ==
  /\ t.listersCurrentlyListing[dir] = s.listersCurrentlyListing[dir]
  /\ t.listersCurrentlyHolding[dir] = s.listersCurrentlyHolding[dir]
  /\ t.job[dir] # NoJob <=> s.job[dir] # NoJob
  /\ IsList(t, dir) => IsList(s, dir)
  /\ \A l \in Listers :
       /\ dir \in t.jobData[l] => dir \in s.jobData[l]
       /\ s.cachedItemsJob[l] # NoJob /\ s.cachedItemsJob[l].url = dir
            => t.cachedItemsJob[l] = s.cachedItemsJob[l]

LEMMA SameServed ==
  ASSUME NEW s \in States, NEW t, NEW dir \in Dirs, SameService(s, t, dir)
  PROVE  /\ CountedAt(s, dir) => CountedAt(t, dir)
         /\ Served(s, dir) => Served(t, dir)
<1>1. Users(t, dir) = Users(s, dir)
  BY DEF SameService, Users
<1>2. CountedAt(s, dir) => CountedAt(t, dir)
  BY <1>1 DEF SameService, CountedAt
<1>3. AwaitedAt(s, dir) => AwaitedAt(t, dir)
  BY DEF SameService, AwaitedAt, States
<1>4. FreshAt(s, dir) => FreshAt(t, dir)
  BY DEF SameService, FreshAt
<1> QED BY <1>2, <1>3, <1>4 DEF Served

LEMMA SameServiceTwice ==
  ASSUME NEW s, NEW t, NEW u, NEW dir, SameService(s, t, dir), SameService(t, u, dir)
  PROVE  SameService(s, u, dir)
BY DEF SameService

\* l does not list, hold or count dir any more.
Leaves(s, t, l, dir) ==
  /\ t.listersCurrentlyListing[dir] = s.listersCurrentlyListing[dir] \ {l}
  /\ t.listersCurrentlyHolding[dir] = s.listersCurrentlyHolding[dir] \ {l}
  /\ t.job[dir] # NoJob => Users(t, dir) # {}
  /\ t.job[dir] = s.job[dir] \/ Users(t, dir) = {}
  /\ \A k \in Listers :
       /\ dir \in t.jobData[k] => dir \in s.jobData[k] /\ k # l
       /\ k # l => t.cachedItemsJob[k] = s.cachedItemsJob[k]

LEMMA LeavesServed ==
  ASSUME NEW s \in States, NEW t, NEW l, NEW dir \in Dirs, Leaves(s, t, l, dir),
         Served(s, dir)
  PROVE  Served(t, dir)
<1>1. Users(t, dir) = Users(s, dir) \ {l}
  BY DEF Leaves, Users
<1>2. CountedAt(t, dir)
  BY <1>1 DEF Leaves, Served, CountedAt
<1>3. AwaitedAt(t, dir)
  <2>1. SUFFICES ASSUME NEW k \in t.listersCurrentlyListing[dir]
                 PROVE  \/ t.job[dir] # NoJob
                        \/ t.cachedItemsJob[k] # NoJob /\ t.cachedItemsJob[k].url = dir
    BY DEF AwaitedAt
  <2>2. k \in Listers /\ k # l /\ k \in s.listersCurrentlyListing[dir] /\ Users(t, dir) # {}
    BY DEF Leaves, States, Users
  <2> QED BY <2>2 DEF Leaves, Served, AwaitedAt
<1>4. FreshAt(t, dir)
  BY DEF Leaves, Served, FreshAt, IsList
<1> QED BY <1>2, <1>3, <1>4 DEF Served

LEMMA StopData ==
  ASSUME NEW s \in States, NEW l \in Listers
  PROVE  /\ SameData(s, StopAll(s, l))
         /\ \A dir \in Dirs : SameData(s, StopOne(s, l, dir))
<1>1. ASSUME NEW e, SameData(s, e), NEW dirs PROVE SameData(s, StopLister(e, l, dirs))
  BY <1>1, StatesHaveData DEF SameData, HasData, StopLister
<1>2. ASSUME NEW e, SameData(s, e) PROVE SameData(s, NoCachedItemsJob(e, l))
  BY <1>2, StatesHaveData DEF SameData, HasData, NoCachedItemsJob
<1>3. SameData(s, s)
  BY DEF SameData
<1>4. SameData(s, StopAll(s, l))
  <2> DEFINE e == NoCachedItemsJob(StopLister(s, l, ListedBy(s, l)), l)
  <2>1. SameData(s, e)
    BY <1>1, <1>2, <1>3
  <2> HIDE DEF e
  <2>2. \A v : SameData(s, [e EXCEPT !.complete = v])
    BY <2>1, StatesHaveData DEF SameData, HasData
  <2> QED BY <2>2 DEF StopAll, e
<1>5. ASSUME NEW dir \in Dirs PROVE SameData(s, StopOne(s, l, dir))
  <2> DEFINE a == IF s.cachedItemsJob[l] # NoJob /\ s.cachedItemsJob[l].url = dir
                    THEN NoCachedItemsJob(s, l) ELSE s
             b == StopLister(a, l, {dir})
  <2>1. SameData(s, a)
    <3>1. SameData(s, NoCachedItemsJob(s, l))
      BY <1>2, <1>3
    <3> QED BY <1>3, <3>1
  <2> HIDE DEF a
  <2>2. SameData(s, b)
    BY <1>1, <2>1
  <2> HIDE DEF b
  <2>3. SameData(s, Finished(b, {l}))
    <3>1. HasData(b)
      BY <2>2, StatesHaveData DEF SameData, HasData
    <3>2. SameData(b, Finished(b, {l}))
      BY <3>1, ViewsData
    <3> QED BY <2>2, <3>2, SameDataTwice
  <2>4. StopOne(s, l, dir) \in {a, Finished(b, {l})}
    BY DEF StopOne, a, b
  <2> QED BY <2>1, <2>3, <2>4
<1> QED BY <1>4, <1>5

\* What is posted for other directories stays.
LEMMA StopOnePosted ==
  ASSUME NEW s \in States, NEW l \in Listers, NEW dir \in Dirs
  PROVE  \/ StopOne(s, l, dir).cachedItemsJob = s.cachedItemsJob
         \/ s.cachedItemsJob[l].url = dir
<1> DEFINE a == IF s.cachedItemsJob[l] # NoJob /\ s.cachedItemsJob[l].url = dir
                  THEN NoCachedItemsJob(s, l) ELSE s
           b == StopLister(a, l, {dir})
<1>1. SUFFICES ASSUME s.cachedItemsJob[l].url # dir
               PROVE  StopOne(s, l, dir).cachedItemsJob = s.cachedItemsJob
  OBVIOUS
<1>2. a = s
  BY <1>1
<1> HIDE DEF a
<1>3. b \in States /\ b.cachedItemsJob = s.cachedItemsJob
  BY <1>2, StopListerFacts
<1> HIDE DEF b
<1>4. Finished(b, {l}).cachedItemsJob = b.cachedItemsJob
  BY <1>3, FinishedQuiet DEF Quiet, SameUsers
<1>5. StopOne(s, l, dir) \in {a, Finished(b, {l})}
  BY DEF StopOne, a, b
<1> QED BY <1>2, <1>3, <1>4, <1>5

\* l leaves all its directories.
LEMMA LeaveAllServed ==
  ASSUME NEW s, Consistent(s), AllServed(s), NEW l \in Listers
  PROVE  AllServed(ForgetAll(StopAll(s, l), l))
<1> DEFINE a == StopAll(s, l)
           t == ForgetAll(a, l)
<1>1. s \in States /\ \A d \in Dirs : RegistryOK(s, d) /\ Served(s, d)
  BY DEF Consistent, Agreed, AllServed
<1>2. /\ a \in States /\ a.job = s.job /\ a.lstDirs = s.lstDirs
      /\ \A k \in Listers \ {l} : a.cachedItemsJob[k] = s.cachedItemsJob[k]
      /\ \A d \in Dirs :
           /\ a.listersCurrentlyListing[d] = s.listersCurrentlyListing[d] \ {l}
           /\ a.listersCurrentlyHolding[d] =
                s.listersCurrentlyHolding[d] \union ({l} \cap s.listersCurrentlyListing[d])
  BY <1>1, StopAllFacts
<1>3. a.jobData = s.jobData
  BY <1>1, StopData DEF SameData
<1>4. \A d \in Dirs : DirOK(a, d)
  <2>1. Harmless(s, a)
    BY <1>1, StopAllHarmless
  <2> HIDE DEF a
  <2> QED BY <2>1, HarmlessKeeps DEF Consistent, Agreed
<1> HIDE DEF a
<1>5. \A d \in Dirs : Users(a, d) = Users(s, d)
  BY <1>2 DEF Users
<1>6. \A d \in Dirs : CountedAt(a, d)
  BY <1>1, <1>2, <1>3, <1>5 DEF Served, CountedAt
<1>7. /\ t \in States
      /\ t.listersCurrentlyListing = a.listersCurrentlyListing
      /\ t.cachedItemsJob = a.cachedItemsJob
      /\ \A d \in Dirs :
           /\ DirOK(t, d)
           /\ d \notin a.lstDirs[l] => SameDir(a, t, d)
           /\ d \in a.lstDirs[l] =>
                t.listersCurrentlyHolding[d] = a.listersCurrentlyHolding[d] \ {l}
  BY <1>2, <1>4, ForgetAllFacts
<1>8. /\ t.jobData = [a.jobData EXCEPT ![l] = @ \ a.lstDirs[l]]
      /\ \A d \in Dirs : t.job[d] = a.job[d] \/ Users(t, d) = {}
  <2>1. \A d \in a.lstDirs[l] : CountedAt(a, d)
    BY <1>2, <1>6 DEF States
  <2> QED BY <1>2, <1>4, <2>1, ForgetAllData
<1> HIDE DEF t
<1>9. /\ a.jobData \in [Listers -> SUBSET (Dirs \union {Ended})]
      /\ a.lstDirs[l] \subseteq Dirs
  BY <1>2 DEF States
<1>10. /\ t.jobData[l] = s.jobData[l] \ s.lstDirs[l]
       /\ \A k \in Listers \ {l} : t.jobData[k] = s.jobData[k]
  BY <1>2, <1>3, <1>8, <1>9
<1>11. ASSUME NEW d \in Dirs PROVE Served(t, d)
  <2>1. l \in Users(s, d) <=> d \in s.lstDirs[l]
    BY <1>1 DEF RegistryOK
  <2>2. /\ t.listersCurrentlyListing[d] = s.listersCurrentlyListing[d] \ {l}
        /\ t.listersCurrentlyHolding[d] = s.listersCurrentlyHolding[d] \ {l}
    BY <1>2, <1>7, <2>1 DEF SameDir, Users
  <2>3. t.job[d] # NoJob => Users(t, d) # {}
    BY <1>7 DEF DirOK
  <2>4. ASSUME NEW k \in Listers, d \in t.jobData[k]
        PROVE  d \in s.jobData[k] /\ k # l
    <3>1. CASE k # l
      BY <1>10, <2>4, <3>1
    <3>2. CASE k = l
      <4>1. d \in s.jobData[l] /\ d \notin s.lstDirs[l]
        BY <1>10, <2>4, <3>2
      <4>2. l \in Users(s, d)
        BY <1>1, <4>1 DEF Served, CountedAt
      <4> QED BY <2>1, <4>1, <4>2
    <3> QED BY <3>1, <3>2
  <2>5. Leaves(s, t, l, d)
    BY <1>2, <1>7, <1>8, <2>2, <2>3, <2>4 DEF Leaves
  <2> QED BY <1>1, <2>5, LeavesServed
<1>12. NoneEnded(t)
  BY <1>10 DEF NoneEnded, AllServed
<1> QED BY <1>11, <1>12 DEF AllServed, t, a

\* l leaves dir, and keeps the others.
LEMMA LeaveOneServed ==
  ASSUME NEW s, Consistent(s), AllServed(s), NEW l \in Listers, NEW dir \in s.lstDirs[l]
  PROVE  AllServed(LeaveOne(s, l, dir))
<1> DEFINE a == StopOne(s, l, dir)
           b == [a EXCEPT !.lstDirs[l] = @ \ {dir}]
           t == ForgetDir(b, l, dir, TRUE)
<1>1. /\ s \in States /\ dir \in Dirs
      /\ \A d \in Dirs : RegistryOK(s, d) /\ Served(s, d)
  BY DEF Consistent, Agreed, AllServed, States
<1>2. /\ a \in States /\ a.job = s.job /\ a.lstDirs = s.lstDirs
      /\ \A k \in Listers \ {l} : a.cachedItemsJob[k] = s.cachedItemsJob[k]
      /\ a.listersCurrentlyListing[dir] = s.listersCurrentlyListing[dir] \ {l}
      /\ a.listersCurrentlyHolding[dir] =
           s.listersCurrentlyHolding[dir] \union ({l} \cap s.listersCurrentlyListing[dir])
      /\ \A d \in Dirs \ {dir} :
           /\ a.listersCurrentlyListing[d] = s.listersCurrentlyListing[d]
           /\ a.listersCurrentlyHolding[d] = s.listersCurrentlyHolding[d]
  BY <1>1, StopOneFacts
<1>3. a.jobData = s.jobData
  BY <1>1, StopData DEF SameData
<1>4. \A d \in Dirs : DirOK(a, d)
  <2>1. Harmless(s, a)
    BY <1>1, StopOneHarmless
  <2> HIDE DEF a
  <2> QED BY <2>1, HarmlessKeeps DEF Consistent, Agreed
<1>5. a.cachedItemsJob = s.cachedItemsJob \/ s.cachedItemsJob[l].url = dir
  BY <1>1, StopOnePosted
<1> HIDE DEF a
<1>6. /\ b \in States /\ b.job = a.job /\ b.jobData = a.jobData
      /\ \A d \in Dirs : SameDir(a, b, d)
      /\ b.listersCurrentlyListing = a.listersCurrentlyListing
      /\ b.listersCurrentlyHolding = a.listersCurrentlyHolding
      /\ b.cachedItemsJob = a.cachedItemsJob
      /\ dir \notin b.lstDirs[l]
  <2> DEFINE dirs == [a.lstDirs EXCEPT ![l] = @ \ {dir}]
  <2>1. dirs \in [Listers -> SUBSET Dirs] /\ dir \notin dirs[l]
    BY <1>2 DEF States
  <2>2. b = [a EXCEPT !.lstDirs = dirs]
    BY <1>2 DEF States
  <2> HIDE DEF dirs, b
  <2>3. b \in States /\ b.lstDirs = dirs
    BY <1>2, <2>1, <2>2 DEF States
  <2>4. /\ \A d \in Dirs : SameDir(a, b, d)
        /\ b.listersCurrentlyListing = a.listersCurrentlyListing
        /\ b.listersCurrentlyHolding = a.listersCurrentlyHolding
        /\ b.cachedItemsJob = a.cachedItemsJob
        /\ b.job = a.job /\ b.jobData = a.jobData
    BY <1>2, <2>2 DEF States, SameDir
  <2> QED BY <2>1, <2>3, <2>4
<1> HIDE DEF b
<1>7. DirOK(b, dir) /\ CountedAt(b, dir)
  <2>1. Users(b, dir) = Users(s, dir)
    BY <1>2, <1>6 DEF Users
  <2>2. DirOK(b, dir)
    BY <1>1, <1>2, <1>4, <1>6, SameDirOK
  <2> QED BY <1>1, <1>2, <1>3, <1>6, <2>1, <2>2 DEF Served, CountedAt
<1>8. /\ t \in States /\ SameButHolding(b, t)
      /\ t.listersCurrentlyHolding[dir] = b.listersCurrentlyHolding[dir] \ {l}
      /\ \A d \in Dirs \ {dir} : SameDir(b, t, d)
      /\ DirOK(t, dir)
      /\ t.jobData = [b.jobData EXCEPT ![l] = @ \ {dir}]
      /\ \/ t.job = b.job
         \/ b.listersCurrentlyListing[dir] = {} /\ b.listersCurrentlyHolding[dir] = {l}
  <2>1. \A notify :
          /\ ForgetDir(b, l, dir, notify) \in States
          /\ SameButHolding(b, ForgetDir(b, l, dir, notify))
          /\ ForgetDir(b, l, dir, notify).listersCurrentlyHolding[dir] =
               b.listersCurrentlyHolding[dir] \ {l}
          /\ \A d \in Dirs \ {dir} : SameDir(b, ForgetDir(b, l, dir, notify), d)
          /\ DirOK(ForgetDir(b, l, dir, notify), dir)
    BY <1>1, <1>6, <1>7, ForgetDirFacts
  <2>2. \A notify :
          /\ ForgetDir(b, l, dir, notify).jobData = [b.jobData EXCEPT ![l] = @ \ {dir}]
          /\ \/ ForgetDir(b, l, dir, notify).job = b.job
             \/ b.listersCurrentlyListing[dir] = {} /\ b.listersCurrentlyHolding[dir] = {l}
    BY <1>1, <1>6, <1>7, ForgetDirData
  <2> QED BY <2>1, <2>2, Zenon
<1> HIDE DEF t
<1>9. /\ t.jobData[l] = s.jobData[l] \ {dir}
      /\ \A k \in Listers \ {l} : t.jobData[k] = s.jobData[k]
  BY <1>1, <1>3, <1>6, <1>8, StatesHaveData
<1>10. t.cachedItemsJob = a.cachedItemsJob
       /\ t.listersCurrentlyListing = a.listersCurrentlyListing
  BY <1>6, <1>8 DEF SameButHolding
<1>11. Served(t, dir)
  <2>1. /\ t.listersCurrentlyListing[dir] = s.listersCurrentlyListing[dir] \ {l}
        /\ t.listersCurrentlyHolding[dir] = s.listersCurrentlyHolding[dir] \ {l}
    BY <1>2, <1>6, <1>8, <1>10
  <2>2. t.job[dir] # NoJob => Users(t, dir) # {}
    BY <1>8 DEF DirOK
  <2>3. t.job[dir] = s.job[dir] \/ Users(t, dir) = {}
    BY <1>2, <1>6, <1>8, <2>1 DEF Users
  <2>4. Leaves(s, t, l, dir)
    BY <1>2, <1>9, <1>10, <2>1, <2>2, <2>3 DEF Leaves
  <2> QED BY <1>1, <2>4, LeavesServed
<1>12. ASSUME NEW d \in Dirs \ {dir} PROVE Served(t, d)
  <2>1. /\ t.listersCurrentlyListing[d] = s.listersCurrentlyListing[d]
        /\ t.listersCurrentlyHolding[d] = s.listersCurrentlyHolding[d]
        /\ t.job[d] = s.job[d]
    BY <1>2, <1>6, <1>8 DEF SameDir
  <2>2. \A k \in Listers : s.cachedItemsJob[k] # NoJob /\ s.cachedItemsJob[k].url = d
          => t.cachedItemsJob[k] = s.cachedItemsJob[k]
    BY <1>2, <1>5, <1>10
  <2>3. \A k \in Listers : d \in t.jobData[k] => d \in s.jobData[k]
    BY <1>9
  <2>4. SameService(s, t, d)
    BY <2>1, <2>2, <2>3 DEF SameService, IsList
  <2> QED BY <1>1, <2>4, SameServed
<1>13. NoneEnded(t)
  BY <1>9 DEF NoneEnded, AllServed
<1> QED BY <1>11, <1>12, <1>13 DEF AllServed, LeaveOne, t, b, a

LEMMA LeaveDirsServed ==
  ASSUME NEW s, Consistent(s), AllServed(s), NEW l \in Listers, NEW dir \in Dirs,
         NEW keep \in BOOLEAN
  PROVE  AllServed(LeaveDirs(s, l, dir, keep))
<1>1. CASE ~keep
  <2>1. LeaveDirs(s, l, dir, keep) = ForgetAll(StopAll(s, l), l)
    BY <1>1 DEF LeaveDirs
  <2> QED BY <2>1, LeaveAllServed
<1>2. CASE keep /\ dir \notin s.lstDirs[l]
  BY <1>2 DEF LeaveDirs
<1>3. CASE keep /\ dir \in s.lstDirs[l]
  <2>1. LeaveDirs(s, l, dir, keep) = LeaveOne(s, l, dir)
    BY <1>3 DEF LeaveDirs, LeaveOne
  <2> QED BY <1>3, <2>1, LeaveOneServed
<1> QED BY <1>1, <1>2, <1>3

-----------------------------------------------------------------------------
(* deleteDir and the jobs that are counted                                  *)

\* While the directories B are deleted: who counts the job of one of them uses
\* it; the service of the others goes on.
Serving(s, B, t) ==
  /\ NoneEnded(t)
  /\ \A d \in B : CountedAt(t, d)
  /\ \A d \in Dirs \ B : SameService(s, t, d)

LEMMA ServingTwice ==
  ASSUME NEW s, NEW t, NEW u, NEW B, Serving(s, B, t), Serving(t, B, u)
  PROVE  Serving(s, B, u)
BY SameServiceTwice DEF Serving

LEMMA ServingStays ==
  ASSUME NEW s, NEW B, NoneEnded(s), \A d \in B : CountedAt(s, d)
  PROVE  Serving(s, B, s)
BY DEF Serving, SameService

\* The listers D have stopped to list dir; q is the state before and dir.
StoppedData(q, D, t) ==
  /\ Stopped(q, D, t) /\ SameData(q[1], t)
  /\ \A l \in Listers : \/ t.cachedItemsJob[l] = q[1].cachedItemsJob[l]
                        \/ q[1].cachedItemsJob[l].url = q[2]

StoppingData == INSTANCE FoldLemmas WITH Op <- StopOp, Inv <- StoppedData

LEMMA StoppingIsToo ==
  ASSUME NEW s, NEW dir, NEW S
  PROVE  Stopping!Fold(dir, s, S) = StoppingData!Fold(dir, s, S)
BY DEF Stopping!Fold, Stopping!MapThenFoldSet,
       StoppingData!Fold, StoppingData!MapThenFoldSet

LEMMA StopStepData ==
  ASSUME NEW s \in States, NEW dir \in Dirs,
         NEW D \in SUBSET s.listersCurrentlyListing[dir],
         NEW l \in s.listersCurrentlyListing[dir] \ D, NEW t,
         StoppedData(<<s, dir>>, D, t)
  PROVE  StoppedData(<<s, dir>>, D \union {l}, StopOp(dir, l, t))
<1> DEFINE u == StopOne(t, l, dir)
<1>1. /\ Stopped(<<s, dir>>, D, t) /\ SameData(s, t)
      /\ \A k \in Listers : \/ t.cachedItemsJob[k] = s.cachedItemsJob[k]
                            \/ s.cachedItemsJob[k].url = dir
  BY DEF StoppedData
<1>2. Stopped(<<s, dir>>, D \union {l}, u)
  BY <1>1, StopStep DEF StopOp
<1>3. l \in Listers /\ t \in States
  BY <1>1 DEF Stopped, States
<1>4. /\ SameData(t, u)
      /\ u.cachedItemsJob = t.cachedItemsJob \/ t.cachedItemsJob[l].url = dir
      /\ \A k \in Listers \ {l} : u.cachedItemsJob[k] = t.cachedItemsJob[k]
  BY <1>3, StopData, StopOnePosted, StopOneFacts
<1> HIDE DEF u
<1>5. SameData(s, u)
  BY <1>1, <1>4, SameDataTwice
<1>6. ASSUME NEW k \in Listers
      PROVE  \/ u.cachedItemsJob[k] = s.cachedItemsJob[k]
             \/ s.cachedItemsJob[k].url = dir
  <2>1. CASE k = l
    BY <1>1, <1>4, <2>1
  <2>2. CASE k # l
    BY <1>1, <1>4, <2>2
  <2> QED BY <2>1, <2>2
<1>7. StoppedData(<<s, dir>>, D \union {l}, u)
  BY <1>2, <1>5, <1>6 DEF StoppedData
<1> QED BY <1>7 DEF u, StopOp

LEMMA EverybodyStopsServing ==
  ASSUME NEW s, NEW B \in SUBSET Dirs, Deleting(s, B), NEW dir \in B,
         NoneEnded(s), \A d \in B : CountedAt(s, d)
  PROVE  Serving(s, B, Stopping!Fold(dir, s, s.listersCurrentlyListing[dir]))
<1> DEFINE S == s.listersCurrentlyListing[dir]
           t == Stopping!Fold(dir, s, S)
<1>1. s \in States /\ dir \in Dirs
  BY DEF Deleting
<1>2. S \subseteq Listers /\ IsFiniteSet(S)
  BY <1>1, FiniteAssumption, FS_Subset DEF States
<1>3. StoppedData(<<s, dir>>, {}, s)
  BY <1>1 DEF StoppedData, Stopped, SameItems, SameData
<1>4. StoppedData(<<s, dir>>, S, t)
  <2>1. \A D \in SUBSET S : \A l \in S \ D : \A v :
          StoppedData(<<s, dir>>, D, v)
            => StoppedData(<<s, dir>>, D \union {l}, StopOp(dir, l, v))
    BY <1>1, StopStepData
  <2>2. t = StoppingData!Fold(dir, s, S)
    BY StoppingIsToo
  <2> HIDE DEF S, t
  <2>3. StoppedData(<<s, dir>>, S, StoppingData!Fold(dir, s, S))
    BY <1>2, <1>3, <2>1, StoppingData!FoldKeeps, FiniteGrounded, Zenon
       DEF StoppingData!Grounded
  <2> QED BY <2>2, <2>3
<1>5. \A d \in Dirs : Users(t, d) = Users(s, d)
  BY EverybodyStops
<1> HIDE DEF t
<1>6. /\ t.job = s.job /\ t.jobData = s.jobData
      /\ \A d \in Dirs \ {dir} :
           /\ t.listersCurrentlyListing[d] = s.listersCurrentlyListing[d]
           /\ t.listersCurrentlyHolding[d] = s.listersCurrentlyHolding[d]
      /\ \A l \in Listers : \/ t.cachedItemsJob[l] = s.cachedItemsJob[l]
                            \/ s.cachedItemsJob[l].url = dir
  BY <1>4 DEF StoppedData, Stopped, SameData
<1>7. NoneEnded(t) /\ \A d \in B : CountedAt(t, d)
  BY <1>5, <1>6 DEF NoneEnded, CountedAt
<1>8. \A d \in Dirs \ B : SameService(s, t, d)
  BY <1>6 DEF SameService, IsList
<1> QED BY <1>7, <1>8 DEF Serving, t

LEMMA LoseDirServing ==
  ASSUME NEW s, NEW B \in SUBSET Dirs, Deleting(s, B), NEW dir \in B,
         Below[dir] \subseteq B, s.listersCurrentlyListing[dir] = {},
         NEW l \in s.listersCurrentlyHolding[dir],
         NoneEnded(s), \A d \in B : CountedAt(s, d)
  PROVE  Serving(s, B, LoseDir(s, l, dir))
<1> DEFINE t == LoseDir(s, l, dir)
           treeview == Cardinality(s.lstDirs[l]) > 1
           one == [s EXCEPT !.lstDirs[l] = @ \ {dir}]
           none == [s EXCEPT !.lstDirs[l] = {}]
           e == IF treeview THEN one ELSE ClearAll(none, l)
           u == ForgetDir(e, l, dir, treeview)
<1>1. t = IF s.url[l] = dir THEN ForgetAll(s, l) ELSE u
  BY DEF LoseDir
<1>2. s \in States /\ dir \in Dirs /\ l \in Listers /\ l \in Users(s, dir)
  BY DEF Deleting, States, Users
<1>3. /\ \A d \in Dirs : DirOK(s, d)
      /\ \A k \in Listers : RootOK(s, k)
      /\ \A k \in Listers : k \in Users(s, dir) => dir \in s.lstDirs[k] \/ Stray(s, k, B)
  BY DEF Deleting
<1>4. s.lstDirs[l] \subseteq Dirs /\ IsFiniteSet(s.lstDirs[l])
  BY <1>2, FiniteAssumption, FS_Subset DEF States
<1>5. s.jobData \in [Listers -> SUBSET (Dirs \union {Ended})]
  BY <1>2 DEF States
\* l leaves directories of B.
<1>6. ASSUME NEW v, NEW D \in SUBSET B,
             v.listersCurrentlyListing = s.listersCurrentlyListing,
             v.cachedItemsJob = s.cachedItemsJob,
             v.jobData = [s.jobData EXCEPT ![l] = @ \ D],
             \A d \in D :
               /\ v.listersCurrentlyHolding[d] = s.listersCurrentlyHolding[d] \ {l}
               /\ v.job[d] = s.job[d] \/ Users(v, d) = {},
             \A d \in Dirs \ D : SameDir(s, v, d)
      PROVE  Serving(s, B, v)
  <2>1. /\ v.jobData[l] = s.jobData[l] \ D
        /\ \A k \in Listers \ {l} : v.jobData[k] = s.jobData[k]
    BY <1>2, <1>5, <1>6
  <2>2. NoneEnded(v)
    BY <2>1 DEF NoneEnded
  <2>3. ASSUME NEW d \in B PROVE CountedAt(v, d)
    <3>1. CountedAt(s, d)
      OBVIOUS
    <3>2. CASE d \in D
      <4>1. ASSUME NEW k \in Listers, d \in v.jobData[k]
            PROVE  k \in Users(v, d) /\ v.job[d] # NoJob
        <5>1. k # l /\ d \in s.jobData[k]
          BY <2>1, <3>2, <4>1
        <5>2. k \in Users(s, d) /\ s.job[d] # NoJob
          BY <3>1, <5>1 DEF CountedAt
        <5>3. k \in Users(v, d)
          BY <1>6, <3>2, <5>1, <5>2 DEF Users
        <5> QED BY <1>6, <3>2, <5>2, <5>3
      <4> QED BY <4>1 DEF CountedAt
    <3>3. CASE d \notin D
      <4>1. SameDir(s, v, d)
        BY <1>6, <3>3
      <4>2. \A k \in Listers : d \in v.jobData[k] => d \in s.jobData[k]
        BY <2>1
      <4> QED BY <3>1, <4>1, <4>2 DEF CountedAt, SameDir, Users
    <3> QED BY <3>2, <3>3
  <2>4. ASSUME NEW d \in Dirs \ B PROVE SameService(s, v, d)
    <3>1. SameDir(s, v, d)
      BY <1>6
    <3>2. \A k \in Listers : d \in v.jobData[k] => d \in s.jobData[k]
      BY <2>1
    <3> QED BY <1>6, <3>1, <3>2 DEF SameService, SameDir, IsList
  <2> QED BY <2>2, <2>3, <2>4 DEF Serving
<1>7. CASE s.url[l] = dir
  <2>1. t = ForgetAll(s, l)
    BY <1>1, <1>7
  <2>2. dir \in s.lstDirs[l]
    BY <1>2, <1>3, <1>7 DEF Stray
  <2>3. s.lstDirs[l] \subseteq B
    BY <1>2, <1>3, <1>7, <2>2 DEF RootOK
  <2> HIDE DEF t
  <2>4. /\ t.listersCurrentlyListing = s.listersCurrentlyListing
        /\ t.cachedItemsJob = s.cachedItemsJob
        /\ \A d \in Dirs :
             /\ d \notin s.lstDirs[l] => SameDir(s, t, d)
             /\ d \in s.lstDirs[l] =>
                  t.listersCurrentlyHolding[d] = s.listersCurrentlyHolding[d] \ {l}
    BY <1>2, <1>3, <2>1, ForgetAllFacts
  <2>5. /\ t.jobData = [s.jobData EXCEPT ![l] = @ \ s.lstDirs[l]]
        /\ \A d \in Dirs : t.job[d] = s.job[d] \/ Users(t, d) = {}
    <3>1. \A d \in s.lstDirs[l] : CountedAt(s, d)
      BY <2>3
    <3> QED BY <1>2, <1>3, <2>1, <3>1, ForgetAllData
  <2>6. Serving(s, B, t)
    BY <1>4, <1>6, <2>3, <2>4, <2>5
  <2> QED BY <2>6 DEF t
<1>8. CASE s.url[l] # dir
  <2>1. t = u
    BY <1>1, <1>8
  <2>2. /\ e \in States /\ SameItems(s, e) /\ e.job = s.job
        /\ e.listersCurrentlyListing = s.listersCurrentlyListing
        /\ e.listersCurrentlyHolding = s.listersCurrentlyHolding
        /\ e.autoUpdate = s.autoUpdate
        /\ e.cachedItemsJob = s.cachedItemsJob
        /\ e.lstDirs[l] = IF treeview THEN s.lstDirs[l] \ {dir} ELSE {}
        /\ e.jobData = s.jobData
    <3>1. CASE treeview
      <4>1. e = one
        BY <3>1
      <4> HIDE DEF e, treeview
      <4> QED BY <1>2, <3>1, <4>1 DEF States, SameItems
    <3>2. CASE ~treeview
      <4>1. e = ClearAll(none, l)
        BY <3>2
      <4>2. /\ none \in States /\ SameItems(s, none) /\ none.job = s.job
            /\ none.listersCurrentlyListing = s.listersCurrentlyListing
            /\ none.listersCurrentlyHolding = s.listersCurrentlyHolding
            /\ none.autoUpdate = s.autoUpdate
            /\ none.cachedItemsJob = s.cachedItemsJob
            /\ none.lstDirs[l] = {}
            /\ none.jobData = s.jobData
        BY <1>2 DEF States, SameItems
      <4> HIDE DEF e, treeview, none
      <4>3. Quiet(none, e)
        BY <1>2, <4>1, <4>2, ClearAllQuiet
      <4>4. SameData(none, e)
        BY <4>1, <4>2, StatesHaveData, ViewsData
      <4> QED BY <3>2, <4>2, <4>3, <4>4 DEF Quiet, SameUsers, SameItems, SameData
    <3> QED BY <3>1, <3>2
  <2>3. dir \notin e.lstDirs[l]
    BY <2>2
  <2> HIDE DEF e, treeview
  <2>4. \A d \in Dirs : SameDir(s, e, d) /\ DirOK(e, d)
    <3>1. \A d \in Dirs : SameDir(s, e, d)
      BY <2>2 DEF SameDir, SameItems
    <3> QED BY <1>2, <1>3, <2>2, <3>1, SameDirOK
  <2>5. CountedAt(e, dir)
    BY <2>2 DEF CountedAt, Users
  <2>6. /\ SameButHolding(e, u)
        /\ u.listersCurrentlyHolding[dir] = e.listersCurrentlyHolding[dir] \ {l}
        /\ \A d \in Dirs \ {dir} : SameDir(e, u, d)
        /\ u.jobData = [e.jobData EXCEPT ![l] = @ \ {dir}]
        /\ \/ u.job = e.job
           \/ e.listersCurrentlyListing[dir] = {} /\ e.listersCurrentlyHolding[dir] = {l}
    <3>1. e \in States /\ dir \in Dirs /\ dir \notin e.lstDirs[l] /\ DirOK(e, dir)
      BY <1>2, <2>2, <2>3, <2>4
    <3> QED BY <1>2, <2>5, <3>1, ForgetDirFacts, ForgetDirData
  <2> HIDE DEF u, t
  <2>7. /\ u.listersCurrentlyListing = s.listersCurrentlyListing
        /\ u.cachedItemsJob = s.cachedItemsJob
        /\ u.listersCurrentlyHolding[dir] = s.listersCurrentlyHolding[dir] \ {l}
        /\ u.jobData = [s.jobData EXCEPT ![l] = @ \ {dir}]
    BY <2>2, <2>6 DEF SameButHolding
  <2>8. \A d \in Dirs \ {dir} : SameDir(s, u, d)
    BY <2>4, <2>6 DEF SameDir
  <2>9. u.job[dir] = s.job[dir] \/ Users(u, dir) = {}
    BY <2>2, <2>6, <2>7 DEF Users
  <2>10. Serving(s, B, u)
    <3>1. {dir} \in SUBSET B
      OBVIOUS
    <3> QED BY <1>6, <2>7, <2>8, <2>9, <3>1
  <2> QED BY <2>1, <2>10 DEF t
<1> QED BY <1>7, <1>8

\* The holders D have lost dir; q is the state before, dir and the directories
\* that are being deleted.
LostServing(q, D, t) == Lost(q, D, t) /\ Serving(q[1], q[3], t)

LosingServing == INSTANCE FoldLemmas WITH Op <- LoseOp, Inv <- LostServing

LEMMA LosingIsToo ==
  ASSUME NEW s, NEW dir, NEW S
  PROVE  Losing!Fold(dir, s, S) = LosingServing!Fold(dir, s, S)
BY DEF Losing!Fold, Losing!MapThenFoldSet,
       LosingServing!Fold, LosingServing!MapThenFoldSet

LEMMA LoseUsersServing ==
  ASSUME NEW s, NEW B \in SUBSET Dirs, Deleting(s, B), NEW dir \in B,
         Below[dir] \subseteq B, NoneEnded(s), \A d \in B : CountedAt(s, d)
  PROVE  Serving(s, B, LoseUsers(s, dir))
<1> DEFINE e == Stopping!Fold(dir, s, s.listersCurrentlyListing[dir])
           S == e.listersCurrentlyHolding[dir]
           t == Losing!Fold(dir, e, S)
<1>1. /\ Deleting(e, B) /\ e.listersCurrentlyListing[dir] = {}
      /\ Serving(s, B, e)
  BY EverybodyStops, EverybodyStopsServing
<1>2. LoseUsers(s, dir) = t
  BY LoseUsersIs
<1> HIDE DEF e
<1>3. e \in States /\ dir \in Dirs
  BY <1>1 DEF Deleting
<1>4. S \subseteq Listers /\ IsFiniteSet(S)
  BY <1>3, FiniteAssumption, FS_Subset DEF States
<1>5. LostServing(<<e, dir, B>>, {}, e)
  <2>1. Serving(e, B, e)
    BY <1>1, ServingStays DEF Serving
  <2> QED BY <1>1, <2>1 DEF LostServing, Lost
<1>6. ASSUME NEW D \in SUBSET S, NEW l \in S \ D, NEW v,
             LostServing(<<e, dir, B>>, D, v)
      PROVE  LostServing(<<e, dir, B>>, D \union {l}, LoseOp(dir, l, v))
  <2> DEFINE w == LoseDir(v, l, dir)
  <2>1. /\ Deleting(v, B)
        /\ v.listersCurrentlyListing = e.listersCurrentlyListing
        /\ \A d \in Dirs : v.listersCurrentlyHolding[d] \subseteq e.listersCurrentlyHolding[d]
        /\ v.listersCurrentlyHolding[dir] = e.listersCurrentlyHolding[dir] \ D
        /\ Serving(e, B, v)
    BY <1>6 DEF LostServing, Lost
  <2>2. l \in v.listersCurrentlyHolding[dir] /\ v.listersCurrentlyListing[dir] = {}
    BY <1>1, <2>1
  <2>3. /\ Deleting(w, B)
        /\ w.listersCurrentlyListing = v.listersCurrentlyListing
        /\ \A d \in Dirs : w.listersCurrentlyHolding[d] \subseteq v.listersCurrentlyHolding[d]
        /\ w.listersCurrentlyHolding[dir] = v.listersCurrentlyHolding[dir] \ {l}
    BY <2>1, <2>2, LoseDirFacts
  <2>4. Serving(v, B, w)
    <3>1. NoneEnded(v) /\ \A d \in B : CountedAt(v, d)
      BY <2>1 DEF Serving
    <3> QED BY <2>1, <2>2, <3>1, LoseDirServing
  <2> HIDE DEF w
  <2>5. w.listersCurrentlyHolding[dir] = e.listersCurrentlyHolding[dir] \ (D \union {l})
    BY <2>1, <2>3
  <2>6. Serving(e, B, w)
    BY <2>1, <2>4, ServingTwice
  <2>7. LostServing(<<e, dir, B>>, D \union {l}, w)
    BY <2>1, <2>3, <2>5, <2>6 DEF LostServing, Lost
  <2> QED BY <2>7 DEF w, LoseOp
<1>7. LostServing(<<e, dir, B>>, S, t)
  <2>1. \A D \in SUBSET S : \A l \in S \ D : \A v :
          LostServing(<<e, dir, B>>, D, v)
            => LostServing(<<e, dir, B>>, D \union {l}, LoseOp(dir, l, v))
    BY <1>6
  <2>2. t = LosingServing!Fold(dir, e, S)
    BY LosingIsToo
  <2> HIDE DEF S, t
  <2>3. LostServing(<<e, dir, B>>, S, LosingServing!Fold(dir, e, S))
    BY <1>4, <1>5, <2>1, LosingServing!FoldKeeps, FiniteGrounded, Zenon
       DEF LosingServing!Grounded
  <2> QED BY <2>2, <2>3
<1> HIDE DEF t
<1>8. Serving(e, B, t)
  BY <1>7 DEF LostServing
<1> QED BY <1>1, <1>2, <1>8, ServingTwice

\* Nobody uses the directories D any more; q is the state before and the
\* directories that are being deleted.
UnregisteredServing(q, D, t) == Unregistered(q[2], D, t) /\ Serving(q[1], q[2], t)

EveryServing == INSTANCE FoldLemmas WITH Op <- EveryOp, Inv <- UnregisteredServing

RemovedData(q, D, t) == Removed(q, D, t) /\ SameData(q, t)

RemovingData == INSTANCE FoldLemmas WITH Op <- RemoveOp, Inv <- RemovedData

LEMMA DeleteDirIsToo ==
  ASSUME NEW s, NEW dir
  PROVE  DeleteDir(s, dir) =
           RemovingData!Fold(0, EveryServing!Fold(0, s, Below[dir]), Below[dir])
BY DEF DeleteDir, EveryOp, RemoveOp, EveryServing!Fold,
       EveryServing!MapThenFoldSet, RemovingData!Fold,
       RemovingData!MapThenFoldSet, FoldSet, MapThenFoldSet

LEMMA RemoveStepData ==
  ASSUME NEW s \in States, NEW D \in SUBSET Dirs, NEW dir \in Dirs \ D, NEW t,
         RemovedData(s, D, t)
  PROVE  RemovedData(s, D \union {dir}, RemoveOp(0, dir, t))
<1> DEFINE e == [t EXCEPT !.itemsInUse[dir] = NoItem]
           u == Deleted(e, "itemsCached", dir)
<1>1. Removed(s, D, t) /\ SameData(s, t)
  BY DEF RemovedData
<1>2. Removed(s, D \union {dir}, u)
  BY <1>1, RemoveStep DEF RemoveOp
<1>3. SameData(s, e) /\ HasData(e)
  BY <1>1, StatesHaveData DEF SameData, HasData
<1> HIDE DEF e
<1>4. SameData(e, u)
  <2>1. "itemsCached" \in Places
    BY DEF Places
  <2> QED BY <1>3, <2>1, ItemsData
<1> HIDE DEF u
<1>5. RemovedData(s, D \union {dir}, u)
  BY <1>2, <1>3, <1>4, SameDataTwice DEF RemovedData
<1> QED BY <1>5 DEF u, e, RemoveOp

\* What is below dir serves nobody; the service of the others goes on.
LEMMA DeleteDirServing ==
  ASSUME NEW s, Consistent(s), NEW dir \in Dirs, NoneEnded(s),
         \A d \in Below[dir] : CountedAt(s, d)
  PROVE  LET t == DeleteDir(s, dir) IN
         /\ NoneEnded(t)
         /\ \A d \in Below[dir] : Served(t, d)
         /\ \A d \in Dirs \ Below[dir] : SameService(s, t, d)
<1> DEFINE B == Below[dir]
           e == EveryServing!Fold(0, s, B)
           t == RemovingData!Fold(0, e, B)
<1>1. /\ B \in SUBSET Dirs /\ IsFiniteSet(B) /\ \A d \in B : Below[d] \subseteq B
  BY BelowFacts, FiniteAssumption, FS_Subset
<1>2. DeleteDir(s, dir) = t
  BY DeleteDirIsToo
<1>3. \A d \in B : CountedAt(s, d)
  OBVIOUS
<1> HIDE DEF B
<1>4. UnregisteredServing(<<s, B>>, B, e)
  <2>1. UnregisteredServing(<<s, B>>, {}, s)
    BY <1>1, <1>3, ConsistentDeleting, ServingStays DEF UnregisteredServing, Unregistered
  <2>2. ASSUME NEW D \in SUBSET B, NEW x \in B \ D, NEW v,
               UnregisteredServing(<<s, B>>, D, v)
        PROVE  UnregisteredServing(<<s, B>>, D \union {x}, EveryOp(0, x, v))
    <3> DEFINE w == LoseUsers(v, x)
    <3>1. /\ Deleting(v, B) /\ \A d \in D : Users(v, d) = {}
          /\ Serving(s, B, v)
      BY <2>2 DEF UnregisteredServing, Unregistered
    <3>2. /\ Deleting(w, B) /\ Users(w, x) = {}
          /\ \A d \in Dirs : Users(w, d) \subseteq Users(v, d)
      BY <1>1, <3>1, LoseUsersFacts
    <3>3. Serving(v, B, w)
      <4>1. NoneEnded(v) /\ \A d \in B : CountedAt(v, d)
        BY <3>1 DEF Serving
      <4> QED BY <1>1, <3>1, <4>1, LoseUsersServing
    <3> HIDE DEF w
    <3>4. \A d \in D \union {x} : Users(w, d) = {}
      BY <1>1, <3>1, <3>2
    <3>5. Serving(s, B, w)
      BY <3>1, <3>3, ServingTwice
    <3> QED BY <3>2, <3>4, <3>5 DEF UnregisteredServing, Unregistered, EveryOp, w
  <2>3. \A D \in SUBSET B : \A x \in B \ D : \A v :
          UnregisteredServing(<<s, B>>, D, v)
            => UnregisteredServing(<<s, B>>, D \union {x}, EveryOp(0, x, v))
    BY <2>2
  <2> QED BY <1>1, <2>1, <2>3, EveryServing!FoldKeeps, FiniteGrounded, Zenon
          DEF EveryServing!Grounded
<1> HIDE DEF e
<1>5. Deleting(e, B) /\ (\A d \in B : Users(e, d) = {}) /\ Serving(s, B, e)
  BY <1>4 DEF UnregisteredServing, Unregistered
<1>6. e \in States /\ \A d \in Dirs : DirOK(e, d)
  BY <1>5 DEF Deleting
<1>7. RemovedData(e, B, t)
  <2>1. RemovedData(e, {}, e)
    BY <1>6 DEF RemovedData, Removed, SameUsers, SameData
  <2>2. \A D \in SUBSET B : \A x \in B \ D : \A v :
          RemovedData(e, D, v) => RemovedData(e, D \union {x}, RemoveOp(0, x, v))
    BY <1>1, <1>6, RemoveStepData
  <2> QED BY <1>1, <2>1, <2>2, RemovingData!FoldKeeps, FiniteGrounded, Zenon
          DEF RemovingData!Grounded
<1> HIDE DEF t
<1>8. /\ t.jobData = e.jobData /\ t.job = e.job
      /\ t.listersCurrentlyListing = e.listersCurrentlyListing
      /\ t.listersCurrentlyHolding = e.listersCurrentlyHolding
      /\ t.cachedItemsJob = e.cachedItemsJob
  BY <1>7 DEF RemovedData, Removed, SameUsers, SameData
<1>9. NoneEnded(t)
  BY <1>5, <1>8 DEF Serving, NoneEnded
<1>10. ASSUME NEW d \in B PROVE Served(t, d)
  <2>1. Users(t, d) = {} /\ t.job[d] = NoJob
    BY <1>1, <1>5, <1>6, <1>8 DEF Users, DirOK
  <2>2. \A l \in Listers : d \notin t.jobData[l]
    BY <1>5, <1>8 DEF Serving, CountedAt
  <2> QED BY <2>1, <2>2 DEF Served, AwaitedAt, CountedAt, FreshAt, IsList, Users
<1>11. ASSUME NEW d \in Dirs \ B PROVE SameService(s, t, d)
  <2>1. SameService(s, e, d)
    BY <1>5 DEF Serving
  <2>2. SameService(e, t, d)
    BY <1>8 DEF SameService, IsList
  <2> QED BY <2>1, <2>2, SameServiceTwice
<1> QED BY <1>2, <1>9, <1>10, <1>11 DEF B

LEMMA ServedAsBefore ==
  ASSUME NEW s \in States, NEW t, SameUsers(s, t), SameJobs(s, t)
  PROVE  /\ \A d \in Dirs : SameService(s, t, d) /\ (Served(s, d) => Served(t, d))
         /\ NoneEnded(s) => NoneEnded(t)
         /\ AllServed(s) => AllServed(t)
<1>1. ASSUME NEW d \in Dirs PROVE SameService(s, t, d)
  <2>1. /\ t.job[d] # NoJob <=> s.job[d] # NoJob
        /\ s.job[d] # NoJob => t.job[d].kind = s.job[d].kind
    BY SameJobsAt
  <2>2. IsList(t, d) => IsList(s, d)
    BY <2>1 DEF IsList
  <2>3. t.jobData = s.jobData
    BY DEF SameJobs, SameKind
  <2> QED BY <2>1, <2>2, <2>3 DEF SameUsers, SameService
<1>2. \A d \in Dirs : Served(s, d) => Served(t, d)
  BY <1>1, SameServed
<1>3. NoneEnded(s) => NoneEnded(t)
  BY DEF NoneEnded, SameJobs, SameKind
<1> QED BY <1>1, <1>2, <1>3 DEF AllServed

LEMMA QuietServed ==
  ASSUME NEW s \in States, NEW t, Quiet(s, t), SameData(s, t)
  PROVE  /\ \A d \in Dirs : SameService(s, t, d) /\ (Served(s, d) => Served(t, d))
         /\ NoneEnded(s) => NoneEnded(t)
         /\ AllServed(s) => AllServed(t)
<1>1. SameUsers(s, t) /\ SameJobs(s, t)
  BY DEF Quiet, SameData, SameJobs, SameKind
<1> QED BY <1>1, ServedAsBefore

\* No directory is below one that it contains.
LEMMA NotBelow ==
  ASSUME NEW dir \in Dirs, NEW sub \in Contents[dir] \cap Dirs
  PROVE  dir \notin Below[sub]
<1> DEFINE Cyclic == {d \in Dirs : \E e \in Contents[d] \cap Dirs : d \in Below[e]}
<1>1. Cyclic = {}
  <2>1. SUFFICES ASSUME Cyclic # {} PROVE FALSE
    OBVIOUS
  <2>2. PICK d \in Cyclic : Contents[d] \cap Cyclic = {}
    <3>1. Cyclic \in SUBSET Dirs
      OBVIOUS
    <3> HIDE DEF Cyclic
    <3> QED BY <2>1, <3>1, DirsAreTree
  <2>3. PICK e \in Contents[d] \cap Dirs : d \in Below[e]
    OBVIOUS
  <2>4. e \notin Cyclic
    BY <2>2, <2>3
  <2>5. e \in Below[e] /\ Below[e] = {e} \union UNION {Below[x] : x \in Contents[e] \cap Dirs}
    BY <2>3, BelowStep, BelowFacts
  <2>6. CASE d = e
    BY <2>3, <2>4, <2>6
  <2>7. CASE d # e
    <3>1. PICK x \in Contents[e] \cap Dirs : d \in Below[x]
      BY <2>3, <2>5, <2>7
    <3>2. Below[d] \subseteq Below[x] /\ e \in Below[d]
      BY <2>2, <2>3, <3>1, BelowFacts
    <3> QED BY <2>3, <2>4, <3>1, <3>2
  <2> QED BY <2>6, <2>7
<1> QED BY <1>1

-----------------------------------------------------------------------------
(* Items that are gone and the jobs that are counted                        *)

\* The directories D are deleted; q is the state before and the directory they
\* were in, whose job may be gone and still be counted.
Swept(q, D, t) ==
  /\ Consistent(t) /\ NoneEnded(t)
  /\ \A d \in Dirs \ {q[2]} : Served(t, d)
  /\ SameService(q[1], t, q[2])

SweepingServing == INSTANCE FoldLemmas WITH Op <- DeleteOp, Inv <- Swept

LEMMA ItemsDeletedIsToo ==
  ASSUME NEW s, NEW listers, NEW dir, NEW items
  PROVE  ItemsDeleted(s, listers, dir, items) =
           SweepingServing!Fold(0, Retract(s, listers, dir, items), items \cap Dirs)
BY DEF ItemsDeleted, DeleteOp, SweepingServing!Fold,
       SweepingServing!MapThenFoldSet, FoldSet, MapThenFoldSet

LEMMA ItemsDeletedServing ==
  ASSUME NEW s, Consistent(s), NEW listers, NEW dir \in Dirs,
         NEW items \in SUBSET Contents[dir], NoneEnded(s),
         \A d \in Dirs \ {dir} : Served(s, d)
  PROVE  LET t == ItemsDeleted(s, listers, dir, items) IN
         /\ NoneEnded(t) /\ \A d \in Dirs \ {dir} : Served(t, d)
         /\ SameService(s, t, dir)
<1> DEFINE S == items \cap Dirs
           b == Retract(s, listers, dir, items)
           t == SweepingServing!Fold(0, b, S)
<1>1. ItemsDeleted(s, listers, dir, items) = t
  BY ItemsDeletedIsToo
<1>2. IsFiniteSet(S) /\ S \subseteq Dirs /\ \A x \in S : dir \notin Below[x]
  BY FiniteAssumption, FS_Subset, NotBelow
<1>3. s \in States
  BY DEF Consistent, Agreed
<1>4. Quiet(s, b) /\ SameData(s, b)
  BY <1>3, RetractQuiet, StatesHaveData, ViewsData
<1> HIDE DEF S, b
<1>5. Consistent(b) /\ NoneEnded(b) /\ SameService(s, b, dir)
      /\ \A d \in Dirs \ {dir} : Served(b, d)
  BY <1>3, <1>4, QuietKeeps, QuietServed
<1>6. Swept(<<b, dir>>, {}, b)
  BY <1>5 DEF Swept, SameService
<1>7. ASSUME NEW D \in SUBSET S, NEW x \in S \ D, NEW v, Swept(<<b, dir>>, D, v)
      PROVE  Swept(<<b, dir>>, D \union {x}, DeleteOp(0, x, v))
  <2> DEFINE w == DeleteDir(v, x)
  <2>1. /\ Consistent(v) /\ NoneEnded(v) /\ SameService(b, v, dir)
        /\ \A d \in Dirs \ {dir} : Served(v, d)
    BY <1>7 DEF Swept
  <2>2. x \in Dirs /\ Below[x] \subseteq Dirs \ {dir}
    BY <1>2, BelowFacts
  <2>3. \A d \in Below[x] : CountedAt(v, d)
    BY <2>1, <2>2 DEF Served
  <2>4. /\ NoneEnded(w)
        /\ \A d \in Below[x] : Served(w, d)
        /\ \A d \in Dirs \ Below[x] : SameService(v, w, d)
    BY <2>1, <2>2, <2>3, DeleteDirServing
  <2>5. Consistent(w)
    BY <2>1, <2>2, DeleteDirKeeps
  <2> HIDE DEF w
  <2>6. v \in States
    BY <2>1 DEF Consistent, Agreed
  <2>7. \A d \in Dirs \ {dir} : Served(w, d)
    BY <2>1, <2>4, <2>6, SameServed
  <2>8. SameService(b, w, dir)
    BY <2>1, <2>2, <2>4, SameServiceTwice
  <2> QED BY <2>4, <2>5, <2>7, <2>8 DEF Swept, DeleteOp, w
<1>8. Swept(<<b, dir>>, S, t)
  <2>1. \A D \in SUBSET S : \A x \in S \ D : \A v :
          Swept(<<b, dir>>, D, v) => Swept(<<b, dir>>, D \union {x}, DeleteOp(0, x, v))
    BY <1>7
  <2> QED BY <1>2, <1>6, <2>1, SweepingServing!FoldKeeps, FiniteGrounded, Zenon
          DEF SweepingServing!Grounded
<1> HIDE DEF t
<1>9. NoneEnded(t) /\ (\A d \in Dirs \ {dir} : Served(t, d)) /\ SameService(b, t, dir)
  BY <1>8 DEF Swept
<1>10. SameService(s, t, dir)
  BY <1>5, <1>9, SameServiceTwice
<1> QED BY <1>1, <1>9, <1>10

LEMMA DeleteDirServed ==
  ASSUME NEW s, Consistent(s), AllServed(s), NEW dir \in Dirs
  PROVE  AllServed(DeleteDir(s, dir))
<1> DEFINE t == DeleteDir(s, dir)
<1>1. s \in States /\ Below[dir] \subseteq Dirs
  BY BelowFacts DEF Consistent, Agreed
<1>2. NoneEnded(s) /\ \A d \in Below[dir] : CountedAt(s, d)
  BY <1>1 DEF AllServed, Served
<1>3. /\ NoneEnded(t)
      /\ \A d \in Below[dir] : Served(t, d)
      /\ \A d \in Dirs \ Below[dir] : SameService(s, t, d)
  BY <1>2, DeleteDirServing
<1> HIDE DEF t
<1>4. \A d \in Dirs : Served(t, d)
  BY <1>1, <1>3, SameServed DEF AllServed
<1> QED BY <1>3, <1>4 DEF AllServed, t

LEMMA FilesRemovedServed ==
  ASSUME NEW s, Consistent(s), AllServed(s), NEW dir \in Dirs, NEW item
  PROVE  AllServed(FilesRemoved(s, dir, item))
<1> DEFINE where == IF HasDirItem(s, "itemsInUse", dir) THEN "itemsInUse"
                                                        ELSE "itemsCached"
           known == HasDirItem(s, where, dir) /\ item \in s[where][dir].items
           a == [s EXCEPT ![where][dir].items = @ \ {item}]
           b == Retract(a, s.listersCurrentlyHolding[dir], dir, {item})
           t == IF ~known THEN s ELSE b
           deletes == item \in Dirs /\ (known \/ Users(s, item) # {}
                                              \/ HasDirItem(s, "itemsCached", item))
<1>1. FilesRemoved(s, dir, item) = IF deletes THEN DeleteDir(t, item) ELSE t
  BY DEF FilesRemoved
<1>2. where \in Places
  BY DEF Places
<1>3. ASSUME known PROVE Consistent(b) /\ AllServed(b)
  <2>1. s \in States /\ s[where][dir] # NoItem
    BY <1>3 DEF Consistent, Agreed, HasDirItem
  <2> HIDE DEF where, known
  <2>2. Harmless(s, a)
    BY <1>2, <2>1, ItemGoneHarmless
  <2>3. /\ a.job = s.job /\ a.jobData = s.jobData /\ a.cachedItemsJob = s.cachedItemsJob
        /\ a.listersCurrentlyListing = s.listersCurrentlyListing
        /\ a.listersCurrentlyHolding = s.listersCurrentlyHolding
    BY <1>2, <2>1 DEF States, Places
  <2> HIDE DEF a
  <2>4. Consistent(a) /\ a \in States
    BY <2>2, HarmlessKeeps DEF Consistent, Harmless
  <2>5. AllServed(a)
    <3>1. \A d \in Dirs : SameService(s, a, d)
      BY <2>3 DEF SameService, IsList
    <3>2. \A d \in Dirs : Served(a, d)
      BY <2>1, <3>1, SameServed DEF AllServed
    <3> QED BY <2>3, <3>2 DEF AllServed, NoneEnded
  <2>6. Quiet(a, b) /\ SameData(a, b)
    BY <2>4, RetractQuiet, StatesHaveData, ViewsData
  <2> HIDE DEF b
  <2> QED BY <2>4, <2>5, <2>6, QuietKeeps, QuietServed
<1> HIDE DEF known, b
<1>4. Consistent(t) /\ AllServed(t)
  BY <1>3
<1> HIDE DEF t, deletes
<1>5. deletes => item \in Dirs
  BY DEF deletes
<1>6. deletes => AllServed(DeleteDir(t, item))
  BY <1>4, <1>5, DeleteDirServed
<1> QED BY <1>1, <1>4, <1>6

-----------------------------------------------------------------------------
(* updateDirectory and the jobs that are counted                            *)

\* Who has counted the job of dir does so no more, and it is gone.
LEMMA DoneAndGone ==
  ASSUME NEW s \in States, NEW dir \in Dirs, NEW listers,
         \A l \in Listers : dir \in s.jobData[l] => l \in listers
  PROVE  LET t == JobGone(JobDone(s, listers, dir), dir) IN
         /\ t \in States /\ SameUsers(s, t) /\ SameItems(s, t)
         /\ t.job[dir] = NoJob /\ \A d \in Dirs \ {dir} : t.job[d] = s.job[d]
         /\ \A l \in Listers : t.jobData[l] = s.jobData[l] \ {dir}
<1> DEFINE a == JobDone(s, listers, dir)
           t == JobGone(a, dir)
<1>1. Quiet(s, a)
  BY JobDoneQuiet
<1>2. \A l \in Listers : a.jobData[l] = s.jobData[l] \ {dir}
  BY DEF JobDone, States
<1> HIDE DEF a
<1>3. a \in States
  BY <1>1 DEF Quiet
<1>4. /\ t \in States /\ SameUsers(a, t) /\ SameItems(a, t)
      /\ t.job = [a.job EXCEPT ![dir] = NoJob]
  BY <1>3, JobGoneFacts
<1>5. \A l \in Listers : t.jobData[l] = s.jobData[l] \ {dir}
  <2>1. \A l \in Listers : t.jobData[l] = IF dir \in a.jobData[l]
                             THEN (a.jobData[l] \ {dir}) \union {Ended} ELSE a.jobData[l]
    BY <1>3 DEF JobGone, States
  <2> QED BY <1>2, <2>1
<1> HIDE DEF t
<1>6. SameUsers(s, t) /\ SameItems(s, t)
  BY <1>1, <1>4 DEF Quiet, SameUsers, SameItems
<1>7. t.job[dir] = NoJob /\ \A d \in Dirs \ {dir} : t.job[d] = s.job[d]
  BY <1>1, <1>3, <1>4 DEF Quiet, States, JobMaps
<1> QED BY <1>4, <1>5, <1>6, <1>7 DEF t, a

LEMMA EmitData ==
  ASSUME NEW s \in States, NEW l
  PROVE  SameData(s, EmitCachedItems(s, l))
<1> DEFINE a == NoCachedItemsJob(s, l)
           b == [a EXCEPT !.complete[l] = FALSE]
           t == EmitCachedItems(s, l)
<1>1. HasData(s)
  BY StatesHaveData
<1>2. SameData(s, a)
  BY <1>1, ViewsData
<1> HIDE DEF a
<1>3. SameData(s, b) /\ HasData(b)
  BY <1>1, <1>2 DEF SameData, HasData
<1>4. t = Announce(b, {l}, s.cachedItemsJob[l].url, s.cachedItemsJob[l].items)
  BY DEF EmitCachedItems, a
<1> HIDE DEF b, t
<1>5. SameData(b, t)
  BY <1>3, <1>4, ViewsData
<1>6. SameData(s, t)
  BY <1>3, <1>5, SameDataTwice
<1> QED BY <1>6 DEF t

\* The listers D have got their items; q is the state before.
EmittedData(q, D, t) ==
  /\ t \in States /\ SameData(q, t)
  /\ t.listersCurrentlyListing = q.listersCurrentlyListing
  /\ t.listersCurrentlyHolding = q.listersCurrentlyHolding
  /\ \A l \in Listers \ D : t.cachedItemsJob[l] = q.cachedItemsJob[l]

EmittingData == INSTANCE FoldLemmas WITH Op <- EmitOp, Inv <- EmittedData

LEMMA RestartIsToo ==
  ASSUME NEW s, NEW dir
  PROVE  Restart(s, dir) =
           IF s.job[dir] # NoJob THEN JobGone(JobDone(s, Users(s, dir), dir), dir)
           ELSE EmittingData!Fold(0, s, {l \in s.listersCurrentlyListing[dir] :
                                           s.cachedItemsJob[l] # NoJob})
BY DEF Restart, EmitOp, EmittingData!Fold,
       EmittingData!MapThenFoldSet, FoldSet, MapThenFoldSet

LEMMA EmitStepData ==
  ASSUME NEW s, NEW D \in SUBSET Listers, NEW l \in Listers \ D,
         s.cachedItemsJob[l] # NoJob, NEW t, EmittedData(s, D, t)
  PROVE  EmittedData(s, D \union {l}, EmitOp(0, l, t))
<1> DEFINE u == EmitCachedItems(t, l)
<1>1. /\ t \in States /\ SameData(s, t)
      /\ t.listersCurrentlyListing = s.listersCurrentlyListing
      /\ t.listersCurrentlyHolding = s.listersCurrentlyHolding
      /\ \A k \in Listers \ D : t.cachedItemsJob[k] = s.cachedItemsJob[k]
  BY DEF EmittedData
<1>2. t.cachedItemsJob[l] # NoJob
  BY <1>1
<1>3. /\ u \in States
      /\ u.listersCurrentlyListing = t.listersCurrentlyListing
      /\ u.listersCurrentlyHolding = t.listersCurrentlyHolding
      /\ \A k \in Listers \ {l} : u.cachedItemsJob[k] = t.cachedItemsJob[k]
  BY <1>1, <1>2, EmitFacts DEF Harmless
<1>4. SameData(t, u)
  BY <1>1, EmitData
<1> HIDE DEF u
<1>5. SameData(s, u)
  BY <1>1, <1>4, SameDataTwice
<1>6. EmittedData(s, D \union {l}, u)
  BY <1>1, <1>3, <1>5 DEF EmittedData
<1> QED BY <1>6 DEF EmitOp, u

\* The old job of dir is gone, or what has been posted for dir has been emitted.
LEMMA RestartServing ==
  ASSUME NEW s \in States, NEW dir \in Dirs, CountedAt(s, dir), AwaitedAt(s, dir)
  PROVE  LET t == Restart(s, dir) IN
         /\ t \in States
         /\ t.listersCurrentlyListing = s.listersCurrentlyListing
         /\ t.listersCurrentlyHolding = s.listersCurrentlyHolding
         /\ t.job[dir] = NoJob /\ \A d \in Dirs \ {dir} : t.job[d] = s.job[d]
         /\ \A l \in Listers :
              /\ t.jobData[l] = s.jobData[l] \ {dir}
              /\ \/ t.cachedItemsJob[l] = s.cachedItemsJob[l]
                 \/ s.cachedItemsJob[l].url = dir
<1> DEFINE S == {l \in s.listersCurrentlyListing[dir] : s.cachedItemsJob[l] # NoJob}
           b == JobGone(JobDone(s, Users(s, dir), dir), dir)
           e == EmittingData!Fold(0, s, S)
           t == Restart(s, dir)
<1>1. t = IF s.job[dir] # NoJob THEN b ELSE e
  BY RestartIsToo
<1>2. CASE s.job[dir] # NoJob
  <2>1. t = b
    BY <1>1, <1>2
  <2>2. \A l \in Listers : dir \in s.jobData[l] => l \in Users(s, dir)
    BY DEF CountedAt
  <2>3. /\ b \in States /\ SameUsers(s, b)
        /\ b.job[dir] = NoJob /\ \A d \in Dirs \ {dir} : b.job[d] = s.job[d]
        /\ \A l \in Listers : b.jobData[l] = s.jobData[l] \ {dir}
    BY <2>2, DoneAndGone
  <2> HIDE DEF b, t
  <2> QED BY <2>1, <2>3 DEF SameUsers, t
<1>3. CASE s.job[dir] = NoJob
  <2>1. t = e
    BY <1>1, <1>3
  <2>2. /\ S \subseteq Listers /\ IsFiniteSet(S)
        /\ \A l \in S : s.cachedItemsJob[l] # NoJob /\ s.cachedItemsJob[l].url = dir
    <3>1. /\ S \subseteq Listers
          /\ \A l \in S : s.cachedItemsJob[l] # NoJob /\ s.cachedItemsJob[l].url = dir
      BY <1>3 DEF States, AwaitedAt
    <3> HIDE DEF S
    <3> QED BY <3>1, FiniteAssumption, FS_Subset
  <2> HIDE DEF S
  <2>3. EmittedData(s, S, e)
    <3>1. EmittedData(s, {}, s)
      BY DEF EmittedData, SameData
    <3>2. \A D \in SUBSET S : \A l \in S \ D : \A v :
            EmittedData(s, D, v) => EmittedData(s, D \union {l}, EmitOp(0, l, v))
      BY <2>2, EmitStepData
    <3> QED BY <2>2, <3>1, <3>2, EmittingData!FoldKeeps, FiniteGrounded, Zenon
            DEF EmittingData!Grounded
  <2> HIDE DEF e
  <2>4. /\ e \in States
        /\ e.listersCurrentlyListing = s.listersCurrentlyListing
        /\ e.listersCurrentlyHolding = s.listersCurrentlyHolding
        /\ e.job = s.job /\ e.jobData = s.jobData
        /\ \A l \in Listers : \/ e.cachedItemsJob[l] = s.cachedItemsJob[l]
                              \/ s.cachedItemsJob[l].url = dir
    BY <2>2, <2>3 DEF EmittedData, SameData
  <2>5. \A l \in Listers : s.jobData[l] = s.jobData[l] \ {dir}
    BY <1>3 DEF CountedAt
  <2> HIDE DEF t
  <2> QED BY <1>3, <2>1, <2>4, <2>5 DEF t
<1> QED BY <1>2, <1>3

\* A new job for dir, which the listers count.
LEMMA StartedData ==
  ASSUME NEW s \in States, NEW dir \in Dirs, NEW listers, NEW kind \in {"list", "update"}
  PROVE  LET t == JobStarted(NewJob(s, dir, kind), listers, dir) IN
         /\ t \in States /\ SameUsers(s, t)
         /\ t.job[dir] # NoJob /\ t.job[dir].kind = kind
         /\ \A d \in Dirs \ {dir} : t.job[d] = s.job[d]
         /\ \A l \in Listers :
              t.jobData[l] = s.jobData[l] \union (IF l \in listers THEN {dir} ELSE {})
<1> DEFINE a == NewJob(s, dir, kind)
           t == JobStarted(a, listers, dir)
<1>1. /\ a \in States /\ SameUsers(s, a)
      /\ a.job[dir] # NoJob /\ a.job[dir].kind = kind
      /\ \A d \in Dirs \ {dir} : a.job[d] = s.job[d]
  <2>1. /\ a \in States /\ SameUsers(s, a) /\ a.job[dir] # NoJob
        /\ a.job = [s.job EXCEPT ![dir] =
                      [kind |-> kind, read |-> FALSE, left |-> {}, buffer |-> {}]]
    BY NewJobFacts
  <2> HIDE DEF a
  <2> QED BY <2>1 DEF States, JobMaps
<1>2. a.jobData = s.jobData
  BY DEF NewJob, States
<1> HIDE DEF a
<1>3. Quiet(a, t)
  BY <1>1, JobStartedQuiet
<1>4. \A l \in Listers :
        t.jobData[l] = a.jobData[l] \union (IF l \in listers THEN {dir} ELSE {})
  BY <1>1 DEF JobStarted, States
<1> HIDE DEF t
<1>5. t \in States /\ SameUsers(s, t) /\ t.job = a.job
  BY <1>1, <1>3 DEF Quiet, SameUsers
<1> QED BY <1>1, <1>2, <1>4, <1>5 DEF t, a

LEMMA UpdateDirectoryServed ==
  ASSUME NEW s \in States, AllServed(s), NEW dir \in Dirs
  PROVE  AllServed(UpdateDirectory(s, dir))
<1> DEFINE t == UpdateDirectory(s, dir)
           m == MarkDirty(s, dir)
           a == Restart(s, dir)
           e == JobStarted(NewJob(a, dir, "update"), Users(s, dir), dir)
<1>1. t = IF ~HasDirItem(s, "itemsInUse", dir) THEN m ELSE e
  BY DEF UpdateDirectory
<1>2. NoneEnded(s) /\ \A d \in Dirs : Served(s, d)
  BY DEF AllServed
<1>3. AllServed(m)
  <2>1. m \in States /\ SameUsers(s, m)
    BY MarkDirtyHarmless DEF Harmless
  <2>2. SameData(s, m)
    BY StatesHaveData, TakenData
  <2> HIDE DEF m
  <2>3. SameJobs(s, m)
    BY <2>2 DEF SameData, SameJobs, SameKind
  <2> QED BY <2>1, <2>3, ServedAsBefore
<1>4. AllServed(e)
  <2>1. CountedAt(s, dir) /\ AwaitedAt(s, dir)
    BY <1>2 DEF Served
  <2>2. /\ a \in States
        /\ a.listersCurrentlyListing = s.listersCurrentlyListing
        /\ a.listersCurrentlyHolding = s.listersCurrentlyHolding
        /\ a.job[dir] = NoJob /\ \A d \in Dirs \ {dir} : a.job[d] = s.job[d]
        /\ \A l \in Listers :
             /\ a.jobData[l] = s.jobData[l] \ {dir}
             /\ \/ a.cachedItemsJob[l] = s.cachedItemsJob[l]
                \/ s.cachedItemsJob[l].url = dir
    BY <2>1, RestartServing
  <2> HIDE DEF a
  <2>3. "update" \in {"list", "update"}
    OBVIOUS
  <2>4. /\ e \in States /\ SameUsers(a, e)
        /\ e.job[dir] # NoJob /\ e.job[dir].kind = "update"
        /\ \A d \in Dirs \ {dir} : e.job[d] = a.job[d]
        /\ \A l \in Listers :
             e.jobData[l] = a.jobData[l] \union (IF l \in Users(s, dir) THEN {dir} ELSE {})
    BY <2>2, <2>3, StartedData
  <2> HIDE DEF e
  <2>5. Served(e, dir)
    <3>1. Users(e, dir) = Users(s, dir)
      BY <2>2, <2>4 DEF SameUsers, Users
    <3>2. CountedAt(e, dir)
      BY <2>2, <2>4, <3>1 DEF CountedAt
    <3> QED BY <2>4, <3>2 DEF Served, AwaitedAt, FreshAt, IsList
  <2>6. ASSUME NEW d \in Dirs \ {dir} PROVE Served(e, d)
    <3>1. /\ e.listersCurrentlyListing[d] = s.listersCurrentlyListing[d]
          /\ e.listersCurrentlyHolding[d] = s.listersCurrentlyHolding[d]
          /\ e.job[d] = s.job[d]
      BY <2>2, <2>4 DEF SameUsers
    <3>2. \A l \in Listers : d \in e.jobData[l] => d \in s.jobData[l]
      BY <2>2, <2>4
    <3>3. \A l \in Listers : s.cachedItemsJob[l] # NoJob /\ s.cachedItemsJob[l].url = d
            => e.cachedItemsJob[l] = s.cachedItemsJob[l]
      BY <2>2, <2>4 DEF SameUsers
    <3>4. SameService(s, e, d)
      BY <3>1, <3>2, <3>3 DEF SameService, IsList
    <3> QED BY <1>2, <3>4, SameServed
  <2>7. NoneEnded(e)
    <3>1. \A l \in Listers : Ended \notin a.jobData[l]
      BY <1>2, <2>2 DEF NoneEnded
    <3>2. Ended # dir
      BY DirsAssumption
    <3> QED BY <2>4, <3>1, <3>2 DEF NoneEnded
  <2> QED BY <2>5, <2>6, <2>7 DEF AllServed
<1> HIDE DEF m, e, t
<1> QED BY <1>1, <1>3, <1>4 DEF t

-----------------------------------------------------------------------------
(* The event loop and the jobs that are counted                             *)

LEMMA HoldLists ==
  ASSUME NEW s \in States, NEW dir \in Dirs, NEW listers \in SUBSET Listers
  PROVE  LET t == Hold(s, listers, dir) IN
         /\ t.listersCurrentlyListing[dir] = s.listersCurrentlyListing[dir] \ listers
         /\ t.listersCurrentlyHolding[dir] = s.listersCurrentlyHolding[dir] \union listers
         /\ \A d \in Dirs \ {dir} :
              /\ t.listersCurrentlyListing[d] = s.listersCurrentlyListing[d]
              /\ t.listersCurrentlyHolding[d] = s.listersCurrentlyHolding[d]
         /\ t.job = s.job /\ t.jobData = s.jobData
         /\ t.cachedItemsJob = s.cachedItemsJob
BY DEF Hold, States

\* What has been posted is done before a job ends: all listers become holders.
LEMMA MovedServed ==
  ASSUME NEW s \in States, AllServed(s), NEW dir \in Dirs,
         \A l \in s.listersCurrentlyListing[dir] : s.cachedItemsJob[l] = NoJob
  PROVE  LET t == MoveListers(s, dir) IN
         /\ NoneEnded(t) /\ \A d \in Dirs \ {dir} : Served(t, d)
         /\ CountedAt(t, dir) /\ t.listersCurrentlyListing[dir] = {}
         /\ Users(t, dir) = Users(s, dir)
         /\ t.job = s.job /\ t.jobData = s.jobData
<1> DEFINE listers == {l \in s.listersCurrentlyListing[dir] : s.cachedItemsJob[l] = NoJob}
           t == MoveListers(s, dir)
<1>1. listers = s.listersCurrentlyListing[dir] /\ listers \in SUBSET Listers
  BY DEF States
<1>2. t = Hold(s, listers, dir)
  BY DEF MoveListers
<1> HIDE DEF listers, t
<1>3. /\ t.listersCurrentlyListing[dir] = {}
      /\ t.listersCurrentlyHolding[dir] = s.listersCurrentlyHolding[dir] \union listers
      /\ \A d \in Dirs \ {dir} :
           /\ t.listersCurrentlyListing[d] = s.listersCurrentlyListing[d]
           /\ t.listersCurrentlyHolding[d] = s.listersCurrentlyHolding[d]
      /\ t.job = s.job /\ t.jobData = s.jobData
      /\ t.cachedItemsJob = s.cachedItemsJob
  BY <1>1, <1>2, HoldLists
<1>4. \A d \in Dirs : Served(s, d)
  BY DEF AllServed
<1>5. Users(t, dir) = Users(s, dir)
  BY <1>1, <1>3 DEF Users
<1>6. CountedAt(t, dir)
  BY <1>3, <1>4, <1>5 DEF Served, CountedAt
<1>7. ASSUME NEW d \in Dirs \ {dir} PROVE Served(t, d)
  <2>1. SameService(s, t, d)
    BY <1>3 DEF SameService, IsList
  <2> QED BY <1>4, <2>1, SameServed
<1>8. NoneEnded(t)
  BY <1>3 DEF AllServed, NoneEnded
<1> QED BY <1>3, <1>5, <1>6, <1>7, <1>8 DEF t

\* Nobody lists dir any more, and all who count its job are told of its end.
LEMMA JobEndsServed ==
  ASSUME NEW s \in States, NEW dir \in Dirs, NoneEnded(s),
         \A d \in Dirs \ {dir} : Served(s, d), s.listersCurrentlyListing[dir] = {},
         NEW listers, \A l \in Listers : dir \in s.jobData[l] => l \in listers
  PROVE  AllServed(JobEnds(s, listers, dir))
<1> DEFINE a == JobGone(JobDone(s, listers, dir), dir)
           t == JobEnds(s, listers, dir)
<1>1. t = Finished(a, listers)
  BY DEF JobEnds
<1>2. /\ a \in States /\ SameUsers(s, a)
      /\ a.job[dir] = NoJob /\ \A d \in Dirs \ {dir} : a.job[d] = s.job[d]
      /\ \A l \in Listers : a.jobData[l] = s.jobData[l] \ {dir}
  BY DoneAndGone
<1> HIDE DEF a, t
<1>3. AllServed(a)
  <2>1. NoneEnded(a)
    BY <1>2 DEF NoneEnded
  <2>2. Served(a, dir)
    BY <1>2 DEF SameUsers, Served, AwaitedAt, CountedAt, FreshAt, IsList
  <2>3. ASSUME NEW d \in Dirs \ {dir} PROVE Served(a, d)
    <3>1. SameService(s, a, d)
      BY <1>2 DEF SameUsers, SameService, IsList
    <3> QED BY <3>1, SameServed
  <2> QED BY <2>1, <2>2, <2>3 DEF AllServed
<1>4. Quiet(a, t) /\ SameData(a, t)
  BY <1>1, <1>2, FinishedQuiet, StatesHaveData, ViewsData
<1>5. AllServed(t)
  BY <1>2, <1>3, <1>4, QuietServed
<1> QED BY <1>5 DEF t

LEMMA SlotResultServed ==
  ASSUME Consistent(c), AllServed(c), ~Does("overtaken"), NEW dir \in Dirs,
         NEW error \in BOOLEAN, SlotResult(dir, error)
  PROVE  AllServed(c')
<1> DEFINE a == MoveListers(c, dir)
           moved == [a EXCEPT !.itemsInUse[dir].complete = @ \/ ~error]
           listers == c.listersCurrentlyListing[dir]
           t == JobEnds(moved, listers, dir)
<1>1. /\ c.job[dir] # NoJob /\ c.job[dir].kind = "list" /\ c' = t
      /\ \A l \in c.listersCurrentlyListing[dir] : c.cachedItemsJob[l] = NoJob
  BY DEF SlotResult, MayEnd
<1>2. c \in States /\ c.itemsInUse[dir] # NoItem
  BY <1>1, JobIsUsed
<1>3. /\ NoneEnded(a) /\ \A d \in Dirs \ {dir} : Served(a, d)
      /\ CountedAt(a, dir) /\ a.listersCurrentlyListing[dir] = {}
      /\ Users(a, dir) = Users(c, dir)
  BY <1>1, <1>2, MovedServed
<1>4. a \in States
  BY <1>2, MoveListersFacts DEF Harmless
<1>5. Users(c, dir) = listers
  BY <1>1 DEF AllServed, Served, FreshAt, IsList, Users
<1>6. moved \in States
  BY <1>2, SlotResultMoved DEF Harmless
<1> HIDE DEF a
<1>7. SameUsers(a, moved) /\ SameJobs(a, moved)
  BY <1>4 DEF States, SameUsers, SameJobs, SameKind
<1> HIDE DEF moved, listers
<1>8. /\ NoneEnded(moved) /\ \A d \in Dirs \ {dir} : Served(moved, d)
      /\ moved.listersCurrentlyListing[dir] = {}
      /\ \A l \in Listers : dir \in moved.jobData[l] => l \in listers
  <2>1. /\ NoneEnded(moved) /\ \A d \in Dirs \ {dir} : Served(moved, d)
        /\ moved.listersCurrentlyListing[dir] = {}
    BY <1>3, <1>4, <1>7, ServedAsBefore DEF SameUsers
  <2>2. ASSUME NEW l \in Listers, dir \in moved.jobData[l] PROVE l \in listers
    BY <1>3, <1>5, <1>7, <2>2 DEF SameJobs, SameKind, CountedAt
  <2> QED BY <2>1, <2>2
<1>9. AllServed(t)
  BY <1>6, <1>8, JobEndsServed
<1> QED BY <1>1, <1>9

LEMMA MergeServing ==
  ASSUME NEW s, Consistent(s), NEW dir \in Dirs, s.itemsInUse[dir] # NoItem,
         NEW listers \in SUBSET Listers, NEW new \in SUBSET Contents[dir],
         NoneEnded(s), \A d \in Dirs \ {dir} : Served(s, d)
  PROVE  LET t == Merge(s, listers, dir, new) IN
         /\ NoneEnded(t) /\ \A d \in Dirs \ {dir} : Served(t, d)
         /\ SameService(s, t, dir)
<1> DEFINE old == s.itemsInUse[dir].items
           a == [s EXCEPT !.itemsInUse[dir].items = new, !.itemsInUse[dir].complete = TRUE]
           gone == old \ new
           b == ItemsDeleted(a, listers, dir, gone)
           more == new \ old
           t == Announce(b, listers, dir, more)
<1>1. Merge(s, listers, dir, new) = t
  BY DEF Merge
<1>2. s \in States /\ Agreed(s) /\ gone \in SUBSET Contents[dir] /\ more \in SUBSET Contents[dir]
  BY ItemType DEF Consistent, Agreed, States
<1>3. a = WithItem(s, "itemsInUse", dir, TRUE, new)
  <2>1. \A i : [s EXCEPT !.itemsInUse[dir].items = i, !.itemsInUse[dir].complete = TRUE] =
          WithItem(s, "itemsInUse", dir, TRUE, i)
    BY <1>2, WithItemIs
  <2> QED BY <2>1, Zenon
<1>4. a.jobData = s.jobData
  BY <1>2 DEF States
<1> HIDE DEF a, more, gone
<1>5. Harmless(s, a) /\ SameUsers(s, a) /\ a.job = s.job
  <2>1. \A complete \in BOOLEAN :
          LET u == WithItem(s, "itemsInUse", dir, complete, new) IN
          Harmless(s, u) /\ SameUsers(s, u) /\ u.job = s.job
    BY <1>2, InUseHarmless
  <2> QED BY <1>3, <2>1
<1>6. Consistent(a) /\ a \in States /\ SameJobs(s, a)
  BY <1>2, <1>4, <1>5, HarmlessKeeps DEF Harmless, SameJobs, SameKind
<1>7. NoneEnded(a) /\ SameService(s, a, dir) /\ \A d \in Dirs \ {dir} : Served(a, d)
  BY <1>2, <1>5, <1>6, ServedAsBefore
<1>8. /\ Consistent(b) /\ NoneEnded(b) /\ SameService(a, b, dir)
      /\ \A d \in Dirs \ {dir} : Served(b, d)
  BY <1>2, <1>6, <1>7, ItemsDeletedKeeps, ItemsDeletedServing
<1> HIDE DEF b
<1>9. b \in States
  BY <1>8 DEF Consistent, Agreed
<1>10. Quiet(b, t) /\ SameData(b, t)
  BY <1>2, <1>9, AnnounceQuiet, StatesHaveData, ViewsData
<1> HIDE DEF t
<1>11. NoneEnded(t) /\ SameService(b, t, dir) /\ \A d \in Dirs \ {dir} : Served(t, d)
  BY <1>8, <1>9, <1>10, QuietServed
<1> QED BY <1>1, <1>7, <1>8, <1>11, SameServiceTwice

LEMMA SlotUpdateResultServed ==
  ASSUME Consistent(c), AllServed(c), ~Does("overtaken"), NEW dir \in Dirs,
         NEW error \in BOOLEAN, SlotUpdateResult(dir, error)
  PROVE  AllServed(c')
<1> DEFINE moved == MoveListers(c, dir)
           listers == Users(moved, dir)
           a == [moved EXCEPT !.job[dir] = NoJob]
           new == c.job[dir].buffer
           merged == Merge(a, listers, dir, new)
           b == IF error THEN moved ELSE merged
           t == JobEnds(b, listers, dir)
<1>1. /\ c.job[dir] # NoJob /\ c' = t
      /\ \A l \in c.listersCurrentlyListing[dir] : c.cachedItemsJob[l] = NoJob
  BY DEF SlotUpdateResult, MayEnd
<1>2. /\ c \in States /\ Agreed(c) /\ c.itemsInUse[dir] # NoItem
      /\ new \in SUBSET Contents[dir]
  BY <1>1, JobIsUsed, JobType
<1>3. Harmless(c, moved) /\ SameItems(c, moved)
  BY <1>2, MoveListersFacts
<1>4. /\ NoneEnded(moved) /\ \A d \in Dirs \ {dir} : Served(moved, d)
      /\ CountedAt(moved, dir) /\ moved.listersCurrentlyListing[dir] = {}
  BY <1>1, <1>2, MovedServed
<1> HIDE DEF moved
<1>5. moved \in States /\ Consistent(moved) /\ Agreed(moved)
  BY <1>2, <1>3, HarmlessKeeps DEF Harmless
<1>6. listers \in SUBSET Listers
  BY <1>5, UsersFinite
<1>7. Harmless(moved, a) /\ SameItems(moved, a)
  BY <1>5, NoJobHarmless
<1>8. /\ SameUsers(moved, a) /\ a.jobData = moved.jobData
      /\ \A d \in Dirs \ {dir} : a.job[d] = moved.job[d]
  BY <1>5 DEF States, SameUsers
<1> HIDE DEF a, new
<1>9. Consistent(a) /\ a.itemsInUse[dir] # NoItem
  BY <1>2, <1>3, <1>5, <1>7, HarmlessKeeps DEF SameItems
<1>10. NoneEnded(a) /\ \A d \in Dirs \ {dir} : Served(a, d)
  <2>1. \A d \in Dirs \ {dir} : SameService(moved, a, d)
    BY <1>8 DEF SameUsers, SameService, IsList
  <2> QED BY <1>4, <1>5, <1>8, <2>1, SameServed DEF NoneEnded
\* Those who counted the job are among the listers.
<1>11. \A l \in Listers : dir \in moved.jobData[l] => l \in listers
  BY <1>4 DEF CountedAt
<1> HIDE DEF listers
<1>12. /\ NoneEnded(merged) /\ \A d \in Dirs \ {dir} : Served(merged, d)
       /\ SameService(a, merged, dir) /\ Consistent(merged)
  BY <1>2, <1>6, <1>9, <1>10, MergeServing, MergeKeeps
<1> HIDE DEF merged
<1>13. /\ b \in States /\ NoneEnded(b) /\ \A d \in Dirs \ {dir} : Served(b, d)
       /\ b.listersCurrentlyListing[dir] = {}
       /\ \A l \in Listers : dir \in b.jobData[l] => l \in listers
  <2>1. CASE error
    BY <1>4, <1>5, <1>11, <2>1
  <2>2. CASE ~error
    <3>1. b = merged
      BY <2>2
    <3> HIDE DEF b
    <3> QED BY <1>4, <1>8, <1>11, <1>12, <3>1
            DEF SameService, SameUsers, Consistent, Agreed
  <2> QED BY <2>1, <2>2
<1> HIDE DEF b
<1>14. AllServed(t)
  BY <1>13, JobEndsServed
<1> QED BY <1>1, <1>14

LEMMA EntriesServed ==
  ASSUME Consistent(c), AllServed(c), DiskOK, NEW dir \in Dirs, NEW items,
         Entries(dir, items)
  PROVE  AllServed(c')
<1>1. c \in States
  BY DEF Consistent, Agreed
<1>2. SameUsers(c, c') /\ SameJobs(c, c')
  BY EntriesFacts
<1> QED BY <1>1, <1>2, ServedAsBefore

\* l has its items, and waits on for the job that runs, or is updated, or holds
\* the directory.
LEMMA CachedItemsDoneServed ==
  ASSUME Consistent(c), AllServed(c), NEW l \in Listers, CachedItemsDone(l)
  PROVE  AllServed(c')
<1> DEFINE dir == c.cachedItemsJob[l].url
           t == EmitCachedItems(c, l)
           a == Hold(t, {l}, dir)
           held == [a EXCEPT !.complete[l] = TRUE]
<1>1. /\ c \in States /\ c.cachedItemsJob[l] # NoJob /\ PostedOK(c, l)
      /\ \/ c' = t /\ t.job[dir] # NoJob
         \/ t.job[dir] = NoJob /\ (c' = UpdateDirectory(held, dir) \/ c' = held)
  BY DEF Consistent, Agreed, CachedItemsDone
<1>2. dir \in Dirs /\ l \in c.listersCurrentlyListing[dir]
  BY <1>1, UrlType DEF PostedOK
<1>3. /\ t \in States
      /\ t.listersCurrentlyListing = c.listersCurrentlyListing
      /\ t.listersCurrentlyHolding = c.listersCurrentlyHolding
      /\ \A k \in Listers \ {l} : t.cachedItemsJob[k] = c.cachedItemsJob[k]
  BY <1>1, EmitFacts DEF Harmless
<1>4. t.job = c.job /\ t.jobData = c.jobData
  BY <1>1, EmitData DEF SameData
<1> HIDE DEF t
<1>5. NoneEnded(c) /\ \A d \in Dirs : Served(c, d)
  BY DEF AllServed
<1>6. ASSUME NEW d \in Dirs \ {dir} PROVE SameService(c, t, d)
  <2>1. \A k \in Listers : c.cachedItemsJob[k] # NoJob /\ c.cachedItemsJob[k].url = d
          => t.cachedItemsJob[k] = c.cachedItemsJob[k]
    BY <1>3
  <2> HIDE DEF dir
  <2> QED BY <1>3, <1>4, <2>1 DEF SameService, IsList
<1>7. NoneEnded(t) /\ (\A d \in Dirs \ {dir} : Served(t, d)) /\ CountedAt(t, dir)
      /\ FreshAt(t, dir)
  <2>1. \A d \in Dirs \ {dir} : Served(t, d)
    BY <1>1, <1>5, <1>6, SameServed
  <2>2. CountedAt(t, dir) /\ FreshAt(t, dir)
    BY <1>2, <1>3, <1>4, <1>5 DEF Served, CountedAt, FreshAt, IsList, Users
  <2> QED BY <1>4, <1>5, <2>1, <2>2 DEF NoneEnded
<1>8. CASE t.job[dir] # NoJob
  <2>1. Served(t, dir)
    BY <1>7, <1>8 DEF Served, AwaitedAt
  <2>2. AllServed(t)
    BY <1>7, <2>1 DEF AllServed
  <2> QED BY <1>1, <1>8, <2>2
<1>9. CASE t.job[dir] = NoJob
  <2>1. /\ a \in States
        /\ a.listersCurrentlyListing[dir] = t.listersCurrentlyListing[dir] \ {l}
        /\ a.listersCurrentlyHolding[dir] = t.listersCurrentlyHolding[dir] \union {l}
        /\ \A d \in Dirs \ {dir} :
             /\ a.listersCurrentlyListing[d] = t.listersCurrentlyListing[d]
             /\ a.listersCurrentlyHolding[d] = t.listersCurrentlyHolding[d]
        /\ a.job = t.job /\ a.jobData = t.jobData /\ a.cachedItemsJob = t.cachedItemsJob
    <3>1. /\ a.listersCurrentlyListing[dir] = t.listersCurrentlyListing[dir] \ {l}
          /\ a.listersCurrentlyHolding[dir] = t.listersCurrentlyHolding[dir] \union {l}
          /\ \A d \in Dirs \ {dir} :
               /\ a.listersCurrentlyListing[d] = t.listersCurrentlyListing[d]
               /\ a.listersCurrentlyHolding[d] = t.listersCurrentlyHolding[d]
          /\ a.job = t.job /\ a.jobData = t.jobData /\ a.cachedItemsJob = t.cachedItemsJob
      <4>1. {l} \in SUBSET Listers
        OBVIOUS
      <4> HIDE DEF dir
      <4> QED BY <1>2, <1>3, <4>1, HoldLists
    <3>2. a \in States
      <4>1. t.cachedItemsJob[l] = NoJob
        BY <1>1, EmitFacts DEF t
      <4>2. /\ {l} \in SUBSET t.listersCurrentlyListing[dir]
            /\ \A k \in {l} : t.cachedItemsJob[k] = NoJob
        BY <1>2, <1>3, <4>1
      <4> HIDE DEF dir
      <4> QED BY <1>2, <1>3, <4>2, HoldFacts DEF Harmless
    <3> QED BY <3>1, <3>2
  <2> HIDE DEF a
  <2>2. AllServed(a)
    <3>1. ASSUME NEW d \in Dirs \ {dir} PROVE Served(a, d)
      <4>1. SameService(t, a, d)
        BY <2>1 DEF SameService, IsList
      <4> QED BY <1>3, <1>7, <4>1, SameServed
    <3>2. Users(a, dir) = Users(t, dir)
      BY <1>2, <1>3, <2>1 DEF Users
    <3>3. CountedAt(a, dir)
      BY <1>7, <2>1, <3>2 DEF CountedAt
    <3>4. AwaitedAt(a, dir)
      <4>1. ASSUME NEW k \in a.listersCurrentlyListing[dir]
            PROVE  a.cachedItemsJob[k] # NoJob /\ a.cachedItemsJob[k].url = dir
        <5>1. k \in c.listersCurrentlyListing[dir] /\ k \in Listers \ {l}
          BY <1>2, <1>3, <2>1 DEF States
        <5>2. c.cachedItemsJob[k] # NoJob /\ c.cachedItemsJob[k].url = dir
          BY <1>2, <1>4, <1>5, <1>9, <5>1 DEF Served, AwaitedAt
        <5> QED BY <1>3, <2>1, <5>1, <5>2
      <4> QED BY <4>1 DEF AwaitedAt
    <3>5. FreshAt(a, dir)
      BY <1>9, <2>1 DEF FreshAt, IsList
    <3>6. Served(a, dir)
      BY <3>3, <3>4, <3>5 DEF Served
    <3> QED BY <1>7, <2>1, <3>1, <3>6 DEF AllServed, NoneEnded
  <2>3. Quiet(a, held) /\ SameData(a, held)
    BY <2>1 DEF Quiet, States, SameUsers, SameItems, SameData
  <2> HIDE DEF held
  <2>4. held \in States /\ AllServed(held)
    BY <2>1, <2>2, <2>3, QuietServed DEF Quiet
  <2>5. AllServed(UpdateDirectory(held, dir))
    BY <1>2, <2>4, UpdateDirectoryServed
  <2> QED BY <1>1, <1>9, <2>4, <2>5
<1> QED BY <1>8, <1>9

-----------------------------------------------------------------------------
(* openUrl and the jobs that are counted                                    *)

\* What l waits for when it lists dir: the job, which may be new when nobody had
\* dir before, or items that are posted.
Awaits(s, l, dir, new, u) ==
  /\ \A k \in Listers \ {l} : u.jobData[k] = s.jobData[k]
  /\ \/ u.jobData[l] = s.jobData[l]
     \/ u.jobData[l] = s.jobData[l] \union {dir} /\ u.job[dir] # NoJob
  /\ u.job[dir] = s.job[dir] \/ (new /\ u.job[dir] # NoJob)
  /\ \/ u.job[dir] # NoJob
     \/ u.cachedItemsJob[l] # NoJob /\ u.cachedItemsJob[l].url = dir

LEMMA EntersServed ==
  ASSUME NEW s \in States, AllServed(s), NEW l \in Listers, NEW dir \in Dirs,
         s.cachedItemsJob[l] = NoJob,
         NEW u, Awaits(s, l, dir, Users(s, dir) = {}, u),
         u.listersCurrentlyHolding = s.listersCurrentlyHolding,
         u.listersCurrentlyListing[dir] = s.listersCurrentlyListing[dir] \union {l},
         \A d \in Dirs \ {dir} :
           /\ u.listersCurrentlyListing[d] = s.listersCurrentlyListing[d]
           /\ u.job[d] = s.job[d],
         \A k \in Listers \ {l} : u.cachedItemsJob[k] = s.cachedItemsJob[k]
  PROVE  AllServed(u)
<1>1. NoneEnded(s) /\ \A d \in Dirs : Served(s, d)
  BY DEF AllServed
<1>2. Served(u, dir)
  <2>1. AwaitedAt(s, dir) /\ CountedAt(s, dir) /\ FreshAt(s, dir)
    BY <1>1 DEF Served
  <2>2. Users(u, dir) = Users(s, dir) \union {l}
    BY DEF Users
  <2>3. u.job[dir] = s.job[dir] \/ (Users(s, dir) = {} /\ u.job[dir] # NoJob)
    BY DEF Awaits
  <2>4. ASSUME NEW k \in Listers, dir \in u.jobData[k]
        PROVE  k \in Users(u, dir) /\ u.job[dir] # NoJob
    <3>1. CASE k = l
      <4>1. u.job[dir] # NoJob \/ dir \in s.jobData[l]
        BY <2>4, <3>1 DEF Awaits
      <4>2. u.job[dir] # NoJob
        BY <2>1, <2>3, <4>1 DEF CountedAt
      <4> QED BY <2>2, <3>1, <4>2
    <3>2. CASE k # l
      <4>1. k \in Users(s, dir) /\ s.job[dir] # NoJob
        BY <2>1, <2>4, <3>2 DEF Awaits, CountedAt
      <4> QED BY <2>2, <2>3, <4>1
    <3> QED BY <3>1, <3>2
  <2>5. ASSUME NEW k \in u.listersCurrentlyListing[dir]
        PROVE  \/ u.job[dir] # NoJob
               \/ u.cachedItemsJob[k] # NoJob /\ u.cachedItemsJob[k].url = dir
    <3>1. CASE k = l
      BY <3>1 DEF Awaits
    <3>2. CASE k # l
      <4>1. k \in s.listersCurrentlyListing[dir] /\ k \in Users(s, dir) /\ k \in Listers
        BY <2>5, <3>2 DEF Users, States
      <4>2. u.job[dir] = s.job[dir] /\ u.cachedItemsJob[k] = s.cachedItemsJob[k]
        BY <2>3, <3>2, <4>1
      <4> QED BY <2>1, <4>1, <4>2 DEF AwaitedAt
    <3> QED BY <3>1, <3>2
  <2>6. FreshAt(u, dir)
    BY <2>1, <2>3 DEF FreshAt, IsList, Users
  <2> QED BY <2>4, <2>5, <2>6 DEF Served, AwaitedAt, CountedAt
<1>3. ASSUME NEW d \in Dirs \ {dir} PROVE Served(u, d)
  <2>1. \A k \in Listers : d \in u.jobData[k] => d \in s.jobData[k]
    BY DEF Awaits
  <2>2. \A k \in Listers : s.cachedItemsJob[k] # NoJob
          => u.cachedItemsJob[k] = s.cachedItemsJob[k]
    OBVIOUS
  <2>3. SameService(s, u, d)
    BY <2>1, <2>2 DEF SameService, IsList
  <2> QED BY <1>1, <2>3, SameServed
<1>4. NoneEnded(u)
  <2>1. Ended # dir
    BY DirsAssumption
  <2> QED BY <1>1, <2>1 DEF NoneEnded, Awaits
<1> QED BY <1>2, <1>3, <1>4 DEF AllServed

LEMMA EnterData ==
  ASSUME NEW s \in States, NEW l, NEW dir, NEW keep
  PROVE  Enter(s, l, dir, keep).jobData = s.jobData
BY DEF Enter, States

\* l joins those who list dir: it waits for their job too, if there is one.
LEMMA JoinAwaits ==
  ASSUME NEW t \in States, NEW l \in Listers, NEW dir \in Dirs,
         t.itemsInUse[dir] # NoItem, NEW reload \in BOOLEAN, NEW new
  PROVE  Awaits(t, l, dir, new, JoinListing(t, l, dir, reload))
<1> DEFINE j == JobStarted(t, {l}, dir)
           e == IF t.job[dir] = NoJob THEN t ELSE j
           u == PostCachedItems(e, l, dir, reload)
<1>1. JoinListing(t, l, dir, reload) = u
  BY DEF JoinListing
<1>2. Quiet(t, j)
  BY JobStartedQuiet
<1>3. /\ j.jobData[l] = t.jobData[l] \union {dir}
      /\ \A k \in Listers \ {l} : j.jobData[k] = t.jobData[k]
  BY DEF JobStarted, States
<1> HIDE DEF j
<1>4. /\ e \in States /\ e.itemsInUse[dir] # NoItem /\ e.job = t.job
      /\ \A k \in Listers \ {l} : e.jobData[k] = t.jobData[k]
      /\ \/ e.jobData[l] = t.jobData[l]
         \/ e.jobData[l] = t.jobData[l] \union {dir} /\ t.job[dir] # NoJob
  BY <1>2, <1>3 DEF Quiet, SameItems
<1> HIDE DEF e
<1>5. /\ u.job = e.job /\ u.jobData = e.jobData
      /\ u.cachedItemsJob[l] # NoJob /\ u.cachedItemsJob[l].url = dir
  BY <1>4, PostFacts
<1> HIDE DEF u
<1>6. Awaits(t, l, dir, new, u)
  BY <1>4, <1>5 DEF Awaits
<1> QED BY <1>1, <1>6

\* The items of dir are there.
LEMMA CacheAwaits ==
  ASSUME NEW t \in States, NEW l \in Listers, NEW dir \in Dirs,
         t.itemsInUse[dir] # NoItem \/ t.itemsCached[dir] # NoItem,
         NEW reload \in BOOLEAN, NEW new
  PROVE  Awaits(t, l, dir, new, ListFromCache(t, l, dir, reload))
<1> DEFINE f == TakenFromCache(t, dir)
           e == IF HasDirItem(t, "itemsInUse", dir) THEN t ELSE f
           u == PostCachedItems(e, l, dir, reload)
<1>1. ListFromCache(t, l, dir, reload) = u
  BY DEF ListFromCache
<1>2. /\ HasDirItem(t, "itemsInUse", dir) <=> t.itemsInUse[dir] # NoItem
      /\ HasDirItem(t, "itemsCached", dir) <=> t.itemsCached[dir] # NoItem
  BY Fields
<1>3. e \in States /\ e.itemsInUse[dir] # NoItem /\ e.job = t.job /\ e.jobData = t.jobData
  <2>1. CASE t.itemsInUse[dir] # NoItem
    BY <1>2, <2>1
  <2>2. CASE t.itemsInUse[dir] = NoItem
    <3>1. HasDirItem(t, "itemsCached", dir)
      BY <1>2, <2>2
    <3> DEFINE item == t.itemsCached[dir]
               less == IF item.autoUpdates = 0 THEN 0 ELSE item.autoUpdates - 1
               new2 == [autoUpdates |-> less, complete |-> item.complete,
                        items |-> item.items]
    <3>2. /\ f \in States /\ f.itemsInUse = [t.itemsInUse EXCEPT ![dir] = new2]
          /\ f.job = t.job
      BY <3>1, TakenFacts
    <3>3. f.jobData = t.jobData
      BY StatesHaveData, TakenData DEF SameData
    <3>4. e = f
      BY <1>2, <2>2
    <3> HIDE DEF e, f
    <3>5. new2 # NoItem
      <4>1. item \in [autoUpdates : Nat, complete : BOOLEAN, items : SUBSET Items]
        BY <1>2, <3>1, ItemType DEF States
      <4>2. less \in Nat
        BY <4>1
      <4> HIDE DEF item, less
      <4>3. new2 \in [autoUpdates : Nat, complete : BOOLEAN, items : SUBSET Items]
        BY <4>1, <4>2
      <4> QED BY <4>3, NoItemIsNone
    <3> HIDE DEF new2
    <3>6. f.itemsInUse[dir] = new2
      BY <3>2 DEF States, ItemMaps
    <3> QED BY <3>2, <3>3, <3>4, <3>5, <3>6
  <2> QED BY <2>1, <2>2
<1> HIDE DEF e
<1>4. /\ u.job = e.job /\ u.jobData = e.jobData
      /\ u.cachedItemsJob[l] # NoJob /\ u.cachedItemsJob[l].url = dir
  BY <1>3, PostFacts
<1> HIDE DEF u
<1>5. Awaits(t, l, dir, new, u)
  BY <1>3, <1>4 DEF Awaits
<1> QED BY <1>1, <1>5

\* A new job, which l counts.
LEMMA DiskAwaits ==
  ASSUME NEW t \in States, NEW l \in Listers, NEW dir \in Dirs
  PROVE  Awaits(t, l, dir, TRUE, ListFromDisk(t, l, dir))
<1> DEFINE a == Deleted(t, "itemsCached", dir)
           b == [a EXCEPT !.itemsInUse[dir] = NewDirItem]
           u == JobStarted(NewJob(b, dir, "list"), {l}, dir)
<1>1. ListFromDisk(t, l, dir) = u
  BY DEF ListFromDisk
<1>2. b \in States /\ b.job = t.job /\ b.jobData = t.jobData
  BY NewItemFacts
<1> HIDE DEF b
<1>3. "list" \in {"list", "update"}
  OBVIOUS
<1>4. /\ u.job[dir] # NoJob
      /\ \A k \in Listers :
           u.jobData[k] = b.jobData[k] \union (IF k \in {l} THEN {dir} ELSE {})
  BY <1>2, <1>3, StartedData
<1> HIDE DEF u
<1>5. /\ u.jobData[l] = t.jobData[l] \union {dir}
      /\ \A k \in Listers \ {l} : u.jobData[k] = t.jobData[k]
  BY <1>2, <1>4
<1>6. Awaits(t, l, dir, TRUE, u)
  BY <1>4, <1>5 DEF Awaits
<1> QED BY <1>1, <1>6

LEMMA ListedAwaits ==
  ASSUME NEW s, Agreed(s), NEW l \in Listers, NEW dir \in Dirs,
         NEW keep \in BOOLEAN, NEW reload \in BOOLEAN
  PROVE  LET t == Enter(s, l, dir, keep) IN
         Awaits(t, l, dir, Users(s, dir) = {}, Listed(s, t, l, dir, reload))
<1> DEFINE t == Enter(s, l, dir, keep)
           u == Listed(s, t, l, dir, reload)
           new == Users(s, dir) = {}
<1>1. s \in States /\ t \in States /\ SameItems(s, t)
  BY EnterFacts DEF Agreed
<1> HIDE DEF t
<1>2. /\ HasDirItem(t, "itemsInUse", dir) <=> t.itemsInUse[dir] # NoItem
      /\ HasDirItem(t, "itemsCached", dir) <=> t.itemsCached[dir] # NoItem
  BY <1>1, Fields
<1>3. t.itemsInUse[dir] = NoItem => new /\ s.listersCurrentlyListing[dir] = {}
  BY <1>1, NobodyThere DEF SameItems
<1> HIDE DEF new
<1>4. CASE s.listersCurrentlyListing[dir] # {}
  <2>1. u = JoinListing(t, l, dir, reload)
    BY <1>4 DEF Listed
  <2> HIDE DEF u
  <2> QED BY <1>1, <1>3, <1>4, <2>1, JoinAwaits DEF u, t, new
<1>5. CASE /\ s.listersCurrentlyListing[dir] = {}
           /\ t.itemsInUse[dir] # NoItem \/ (t.itemsCached[dir] # NoItem /\ ~reload)
  <2>1. u = ListFromCache(t, l, dir, reload)
    BY <1>2, <1>5 DEF Listed
  <2> HIDE DEF u
  <2>2. Awaits(t, l, dir, new, ListFromCache(t, l, dir, reload))
    BY <1>1, <1>5, CacheAwaits
  <2> QED BY <2>1, <2>2 DEF u, t, new
<1>6. CASE /\ s.listersCurrentlyListing[dir] = {} /\ t.itemsInUse[dir] = NoItem
           /\ ~(t.itemsCached[dir] # NoItem /\ ~reload)
  <2>1. u = ListFromDisk(t, l, dir)
    BY <1>2, <1>6 DEF Listed
  <2> HIDE DEF u
  <2>2. Awaits(t, l, dir, TRUE, ListFromDisk(t, l, dir))
    BY <1>1, DiskAwaits
  <2>3. Awaits(t, l, dir, new, u)
    BY <1>3, <1>6, <2>1, <2>2 DEF Awaits
  <2> QED BY <2>3 DEF u, t, new
<1> QED BY <1>4, <1>5, <1>6

LEMMA OpenUrlServed ==
  ASSUME Consistent(c), AllServed(c), NEW l \in Listers, NEW dir \in Dirs,
         NEW keep \in BOOLEAN, NEW reload \in BOOLEAN, OpenUrl(l, dir, keep, reload)
  PROVE  AllServed(c')
<1> DEFINE a == LeaveDirs(c, l, dir, keep)
           e == Enter(a, l, dir, keep)
           u == Listed(a, e, l, dir, reload)
           t == Counted(u, l, dir)
<1>1. c' = t
  BY DEF OpenUrl, ListDir, Counted, Listed, Enter
<1>2. Agreed(a) /\ AllServed(a) /\ a.cachedItemsJob[l] = NoJob
  BY LeaveDirsFacts, LeaveDirsServed DEF OpenUrl, MayEnter
<1> HIDE DEF a
<1>3. a \in States
  BY <1>2 DEF Agreed
<1>4. /\ e.job = a.job /\ e.cachedItemsJob = a.cachedItemsJob
      /\ e.listersCurrentlyHolding = a.listersCurrentlyHolding
      /\ e.listersCurrentlyListing[dir] = a.listersCurrentlyListing[dir] \union {l}
      /\ \A d \in Dirs \ {dir} :
           e.listersCurrentlyListing[d] = a.listersCurrentlyListing[d]
      /\ e.jobData = a.jobData
  BY <1>3, EnterFacts, EnterData
<1>5. Ready(e, l, dir, Cardinality(AutoUsers(a, dir)), u)
  BY <1>2, ListedReady
<1>6. Awaits(e, l, dir, Users(a, dir) = {}, u)
  BY <1>2, ListedAwaits
<1> HIDE DEF e, u
<1>7. Awaits(a, l, dir, Users(a, dir) = {}, u)
  BY <1>4, <1>6 DEF Awaits
<1>8. AllServed(u)
  BY <1>2, <1>3, <1>4, <1>5, <1>7, EntersServed DEF Ready
<1>9. u \in States /\ u.itemsInUse[dir] # NoItem
  BY <1>5 DEF Ready
<1>10. SameUsers(u, t) /\ SameJobs(u, t)
  <2> DEFINE v == IncAutoUpdate(u, "itemsInUse", dir)
  <2>1. SameUsers(u, u) /\ SameJobs(u, u)
    BY DEF SameUsers, SameJobs, SameKind
  <2>2. "itemsInUse" \in Places /\ HasDirItem(u, "itemsInUse", dir)
    BY <1>9, Fields DEF Places
  <2>3. SameUsers(u, v)
    BY <1>9, <2>2, IncAt
  <2>4. SameData(u, v)
    BY <1>9, <2>2, StatesHaveData, ItemsData
  <2>5. t \in {u, v}
    BY DEF Counted
  <2> HIDE DEF v, t
  <2>6. SameJobs(u, v)
    BY <2>4 DEF SameData, SameJobs, SameKind
  <2> QED BY <2>1, <2>3, <2>5, <2>6
<1> HIDE DEF t
<1>11. AllServed(t)
  BY <1>8, <1>9, <1>10, ServedAsBefore
<1> QED BY <1>1, <1>11

\* Whoever stops to list a directory becomes a holder, and there is no list job.
LEMMA StopsServed ==
  ASSUME NEW s \in States, AllServed(s), NEW t, t.job = s.job, t.jobData = s.jobData,
         \A d \in Dirs :
           /\ t.listersCurrentlyListing[d] \subseteq s.listersCurrentlyListing[d]
           /\ Users(t, d) = Users(s, d)
           /\ IsList(s, d) =>
                t.listersCurrentlyHolding[d] = s.listersCurrentlyHolding[d]
           /\ \A k \in t.listersCurrentlyListing[d] :
                s.cachedItemsJob[k] # NoJob /\ s.cachedItemsJob[k].url = d
                  => t.cachedItemsJob[k] = s.cachedItemsJob[k]
  PROVE  AllServed(t)
<1>1. NoneEnded(s) /\ \A d \in Dirs : Served(s, d)
  BY DEF AllServed
<1>2. ASSUME NEW d \in Dirs PROVE Served(t, d)
  <2>1. AwaitedAt(s, d) /\ CountedAt(s, d) /\ FreshAt(s, d)
    BY <1>1 DEF Served
  <2>2. AwaitedAt(t, d)
    BY <2>1 DEF AwaitedAt
  <2>3. CountedAt(t, d)
    BY <2>1 DEF CountedAt
  <2>4. FreshAt(t, d)
    BY <2>1 DEF FreshAt, IsList
  <2> QED BY <2>2, <2>3, <2>4 DEF Served
<1> QED BY <1>1, <1>2 DEF AllServed, NoneEnded

LEMMA StopServed ==
  ASSUME Consistent(c), AllServed(c), ~Does("stopJob"), NEW l \in Listers, Stop(l)
  PROVE  AllServed(c')
<1> DEFINE t == StopAll(c, l)
<1>1. c' = t /\ c \in States
  BY DEF Stop, Consistent, Agreed
<1>2. \A d \in Dirs : l \in c.listersCurrentlyListing[d] => ~IsList(c, d)
  BY DEF Stop, MayStop, ListedBy, IsList
<1>3. /\ t.job = c.job
      /\ \A k \in Listers \ {l} : t.cachedItemsJob[k] = c.cachedItemsJob[k]
      /\ \A d \in Dirs :
           /\ t.listersCurrentlyListing[d] = c.listersCurrentlyListing[d] \ {l}
           /\ t.listersCurrentlyHolding[d] =
                c.listersCurrentlyHolding[d] \union ({l} \cap c.listersCurrentlyListing[d])
  BY <1>1, StopAllFacts
<1>4. t.jobData = c.jobData
  BY <1>1, StopData DEF SameData
<1> HIDE DEF t
<1>5. ASSUME NEW d \in Dirs
      PROVE  /\ t.listersCurrentlyListing[d] \subseteq c.listersCurrentlyListing[d]
             /\ Users(t, d) = Users(c, d)
             /\ IsList(c, d) =>
                  t.listersCurrentlyHolding[d] = c.listersCurrentlyHolding[d]
             /\ \A k \in t.listersCurrentlyListing[d] :
                  t.cachedItemsJob[k] = c.cachedItemsJob[k]
  <2>1. c.listersCurrentlyListing[d] \subseteq Listers
    BY <1>1 DEF States
  <2>2. Users(t, d) = Users(c, d)
    BY <1>3 DEF Users
  <2>3. t.listersCurrentlyListing[d] = c.listersCurrentlyListing[d] \ {l}
    BY <1>3
  <2>4. ASSUME NEW k \in t.listersCurrentlyListing[d]
        PROVE  t.cachedItemsJob[k] = c.cachedItemsJob[k]
    BY <1>3, <2>1, <2>3
  <2>5. ASSUME IsList(c, d)
        PROVE  t.listersCurrentlyHolding[d] = c.listersCurrentlyHolding[d]
    <3>1. l \notin c.listersCurrentlyListing[d]
      BY <1>2, <2>5
    <3>2. t.listersCurrentlyHolding[d] =
            c.listersCurrentlyHolding[d] \union ({l} \cap c.listersCurrentlyListing[d])
      BY <1>3
    <3> QED BY <3>1, <3>2
  <2> QED BY <2>2, <2>3, <2>4, <2>5
<1>6. AllServed(t)
  BY <1>1, <1>3, <1>4, <1>5, StopsServed
<1> QED BY <1>1, <1>6

LEMMA StopUrlServed ==
  ASSUME Consistent(c), AllServed(c), ~Does("stopJob"), NEW l \in Listers,
         NEW dir \in Dirs, StopUrl(l, dir)
  PROVE  AllServed(c')
<1> DEFINE t == StopOne(c, l, dir)
<1>1. c' = t /\ c \in States
  BY DEF StopUrl, Consistent, Agreed
<1>2. l \in c.listersCurrentlyListing[dir] => ~IsList(c, dir)
  BY DEF StopUrl, MayStop, ListedBy, IsList
<1>3. /\ t.job = c.job
      /\ \A k \in Listers \ {l} : t.cachedItemsJob[k] = c.cachedItemsJob[k]
      /\ t.listersCurrentlyListing[dir] = c.listersCurrentlyListing[dir] \ {l}
      /\ t.listersCurrentlyHolding[dir] =
           c.listersCurrentlyHolding[dir] \union ({l} \cap c.listersCurrentlyListing[dir])
      /\ \A d \in Dirs \ {dir} :
           /\ t.listersCurrentlyListing[d] = c.listersCurrentlyListing[d]
           /\ t.listersCurrentlyHolding[d] = c.listersCurrentlyHolding[d]
  BY <1>1, StopOneFacts
<1>4. t.jobData = c.jobData
  BY <1>1, StopData DEF SameData
<1>5. t.cachedItemsJob = c.cachedItemsJob \/ c.cachedItemsJob[l].url = dir
  BY <1>1, StopOnePosted
<1> HIDE DEF t
<1>6. ASSUME NEW d \in Dirs
      PROVE  /\ t.listersCurrentlyListing[d] \subseteq c.listersCurrentlyListing[d]
             /\ Users(t, d) = Users(c, d)
             /\ IsList(c, d) =>
                  t.listersCurrentlyHolding[d] = c.listersCurrentlyHolding[d]
             /\ \A k \in t.listersCurrentlyListing[d] :
                  c.cachedItemsJob[k] # NoJob /\ c.cachedItemsJob[k].url = d
                    => t.cachedItemsJob[k] = c.cachedItemsJob[k]
  <2>1. c.listersCurrentlyListing[d] \subseteq Listers
    BY <1>1 DEF States
  <2>2. CASE d = dir
    <3>1. Users(t, d) = Users(c, d)
      BY <1>3, <2>2 DEF Users
    <3> QED BY <1>2, <1>3, <2>1, <2>2, <3>1
  <2>3. CASE d # dir
    <3>1. Users(t, d) = Users(c, d)
      BY <1>3, <2>3 DEF Users
    <3> QED BY <1>3, <1>5, <2>1, <2>3, <3>1
  <2> QED BY <2>2, <2>3
<1>7. AllServed(t)
  BY <1>1, <1>3, <1>4, <1>6, StopsServed
<1> QED BY <1>1, <1>7

LEMMA CloseServed ==
  ASSUME Consistent(c), AllServed(c), NEW l \in Listers, Close(l)
  PROVE  AllServed(c')
<1> DEFINE a == ForgetAll(StopAll(c, l), l)
           t == [a EXCEPT !.url[l] = NoDir, !.complete[l] = TRUE, !.jobData[l] = {},
                          !.autoUpdate[l] = TRUE]
<1>1. c' = t
  BY DEF Close
<1>2. AllServed(a)
  BY LeaveAllServed
<1>3. a \in States
  BY LeaveAllFacts DEF Consistent, Agreed
<1> HIDE DEF a
<1>4. /\ t.job = a.job /\ t.cachedItemsJob = a.cachedItemsJob
      /\ t.listersCurrentlyListing = a.listersCurrentlyListing
      /\ t.listersCurrentlyHolding = a.listersCurrentlyHolding
      /\ t.jobData = [a.jobData EXCEPT ![l] = {}]
  BY <1>3 DEF States
<1> HIDE DEF t
<1>5. t.jobData[l] = {} /\ \A k \in Listers \ {l} : t.jobData[k] = a.jobData[k]
  BY <1>3, <1>4, StatesHaveData
<1>6. \A d \in Dirs : SameService(a, t, d)
  BY <1>4, <1>5 DEF SameService, IsList
<1>7. \A d \in Dirs : Served(t, d)
  BY <1>2, <1>3, <1>6, SameServed DEF AllServed
<1>8. NoneEnded(t)
  BY <1>2, <1>5 DEF AllServed, NoneEnded
<1> QED BY <1>1, <1>7, <1>8 DEF AllServed

LEMMA SetAutoUpdateServed ==
  ASSUME Consistent(c), AllServed(c), NEW l \in Listers, NEW enable \in BOOLEAN,
         SetAutoUpdate(l, enable)
  PROVE  AllServed(c')
<1>1. c \in States
  BY DEF Consistent, Agreed
<1>2. /\ c'.listersCurrentlyListing = c.listersCurrentlyListing
      /\ c'.listersCurrentlyHolding = c.listersCurrentlyHolding
      /\ c'.cachedItemsJob = c.cachedItemsJob
      /\ c'.job = c.job /\ c'.jobData = c.jobData
  BY SetAutoUpdateKeeps
<1>3. \A d \in Dirs : SameService(c, c', d)
  BY <1>2 DEF SameService, IsList
<1>4. \A d \in Dirs : Served(c', d)
  BY <1>1, <1>3, SameServed DEF AllServed
<1> QED BY <1>2, <1>4 DEF AllServed, NoneEnded

LEMMA UpdateServed ==
  ASSUME Consistent(c), AllServed(c), NEW dir \in Dirs, Update(dir)
  PROVE  AllServed(c')
<1>1. c' = UpdateDirectory(c, dir) /\ c \in States
  BY DEF Update, Consistent, Agreed
<1>2. AllServed(UpdateDirectory(c, dir))
  BY <1>1, UpdateDirectoryServed
<1> QED BY <1>1, <1>2

LEMMA WatchReportsServed ==
  ASSUME Consistent(c), AllServed(c), NEW dir \in Dirs, WatchReports(dir)
  PROVE  AllServed(c')
<1> DEFINE s == [c EXCEPT !.dirty[dir] = FALSE]
<1>1. c' = IF Exists(dir) THEN UpdateDirectory(s, dir)
                          ELSE FilesRemoved(s, Parent(dir), dir)
  BY DEF WatchReports
<1>2. c \in States
  BY DEF Consistent, Agreed
<1>3. Quiet(c, s) /\ SameData(c, s)
  BY <1>2 DEF Quiet, States, SameUsers, SameItems, SameData
<1> HIDE DEF s
<1>4. Consistent(s) /\ AllServed(s) /\ s \in States
  BY <1>2, <1>3, QuietKeeps, QuietServed DEF Quiet
<1>5. CASE Exists(dir)
  BY <1>1, <1>4, <1>5, UpdateDirectoryServed
<1>6. CASE ~Exists(dir)
  BY <1>1, <1>4, <1>6, ParentFacts, FilesRemovedServed
<1> QED BY <1>5, <1>6

LEMMA NotifiedServed ==
  ASSUME Consistent(c), AllServed(c), signals \subseteq Signals,
         NEW signal \in signals, Notified(signal)
  PROVE  AllServed(c')
<1>1. signal.dir \in Dirs /\ c \in States
  BY DEF Signals, Consistent, Agreed
<1>2. c' = IF signal.type = "added" THEN UpdateDirectory(c, signal.dir)
                                    ELSE FilesRemoved(c, signal.dir, signal.item)
  BY DEF Notified
<1>3. AllServed(UpdateDirectory(c, signal.dir))
  BY <1>1, UpdateDirectoryServed
<1>4. AllServed(FilesRemoved(c, signal.dir, signal.item))
  BY <1>1, FilesRemovedServed
<1> QED BY <1>2, <1>3, <1>4

LEMMA EvictServed ==
  ASSUME Consistent(c), AllServed(c), NEW dir \in Dirs, Evict(dir)
  PROVE  AllServed(c')
<1> DEFINE t == Deleted(c, "itemsCached", dir)
<1>1. c' = t /\ c \in States /\ "itemsCached" \in Places
  BY DEF Evict, Consistent, Agreed, Places
<1>2. SameUsers(c, t)
  BY <1>1, DeletedFacts
<1>3. SameData(c, t)
  BY <1>1, StatesHaveData, ItemsData
<1> HIDE DEF t
<1>4. SameJobs(c, t)
  BY <1>3 DEF SameData, SameJobs, SameKind
<1>5. AllServed(t)
  BY <1>1, <1>2, <1>4, ServedAsBefore
<1> QED BY <1>1, <1>5

LEMMA TouchedServed ==
  ASSUME Consistent(c), AllServed(c), NEW dirs
  PROVE  AllServed(Touched(c, dirs))
<1> DEFINE t == Touched(c, dirs)
<1>1. c \in States
  BY DEF Consistent, Agreed
<1>2. SameUsers(c, t) /\ SameJobs(c, t)
  BY <1>1 DEF Touched, States, SameUsers, SameJobs, SameKind
<1> HIDE DEF t
<1>3. AllServed(t)
  BY <1>1, <1>2, ServedAsBefore
<1> QED BY <1>3 DEF t

-----------------------------------------------------------------------------
(* The inductive invariant of the jobs *)

\* Nobody stops a list job, and what is posted is done before a job ends.
Orderly == ~Does("stopJob") /\ ~Does("overtaken")

JobsInv == IInv /\ Orderly /\ AllServed(c)

LEMMA InitServed ==
  ASSUME Init
  PROVE  AllServed(c)
<1>1. /\ c.listersCurrentlyListing = [dir \in Dirs |-> {}]
      /\ c.job = [dir \in Dirs |-> NoJob] /\ c.jobData = [l \in Listers |-> {}]
  BY DEF Init
<1> QED BY <1>1 DEF AllServed, NoneEnded, Served, AwaitedAt, CountedAt, FreshAt, IsList

LEMMA NextServed ==
  ASSUME JobsInv, Next
  PROVE  AllServed(c')
<1>1. /\ Consistent(c) /\ AllServed(c) /\ DiskOK /\ signals \subseteq Signals
      /\ ~Does("stopJob") /\ ~Does("overtaken")
  BY DEF JobsInv, IInv, Orderly
<1>2. ASSUME NEW l \in Listers, Calls(l) PROVE AllServed(c')
  <2>1. ASSUME NEW dir \in Dirs, NEW keep \in BOOLEAN, NEW reload \in BOOLEAN,
               OpenUrl(l, dir, keep, reload)
        PROVE  AllServed(c')
    BY <1>1, <2>1, OpenUrlServed
  <2>2. ASSUME Stop(l) PROVE AllServed(c')
    BY <1>1, <2>2, StopServed
  <2>3. ASSUME NEW dir \in Dirs, StopUrl(l, dir) PROVE AllServed(c')
    BY <1>1, <2>3, StopUrlServed
  <2>4. ASSUME Close(l) PROVE AllServed(c')
    BY <1>1, <2>4, CloseServed
  <2>5. ASSUME NEW enable \in BOOLEAN, SetAutoUpdate(l, enable) PROVE AllServed(c')
    BY <1>1, <2>5, SetAutoUpdateServed
  <2> QED BY <1>2, <2>1, <2>2, <2>3, <2>4, <2>5 DEF Calls
<1>3. ASSUME NEW l \in Listers, CachedItemsDone(l) PROVE AllServed(c')
  BY <1>1, <1>3, CachedItemsDoneServed
<1>4. ASSUME NEW dir \in Dirs, Update(dir) PROVE AllServed(c')
  BY <1>1, <1>4, UpdateServed
<1>5. ASSUME NEW dir \in Dirs, JobStep(dir) PROVE AllServed(c')
  <2>1. ASSUME NEW items, Entries(dir, items) PROVE AllServed(c')
    BY <1>1, <2>1, EntriesServed
  <2>2. ASSUME NEW error \in BOOLEAN, SlotResult(dir, error) PROVE AllServed(c')
    BY <1>1, <2>2, SlotResultServed
  <2>3. ASSUME NEW error \in BOOLEAN, SlotUpdateResult(dir, error) PROVE AllServed(c')
    BY <1>1, <2>3, SlotUpdateResultServed
  <2> QED BY <1>5, <2>1, <2>2, <2>3 DEF JobStep
<1>6. ASSUME NEW dir \in Dirs, WatchReports(dir) PROVE AllServed(c')
  BY <1>1, <1>6, WatchReportsServed
<1>7. ASSUME NEW dir \in Dirs, World(dir) PROVE AllServed(c')
  <2>1. ASSUME Evict(dir) PROVE AllServed(c')
    BY <1>1, <2>1, EvictServed
  <2>2. ASSUME NEW item, Create(dir, item) PROVE AllServed(c')
    BY <1>1, <2>2, TouchedServed DEF Create
  <2>3. ASSUME NEW item, Remove(dir, item) PROVE AllServed(c')
    <3> DEFINE gone == IF item \in Dirs THEN Below[item] ELSE {}
    <3>1. c' = Touched(c, {dir} \union gone)
      BY <2>3 DEF Remove
    <3> HIDE DEF gone
    <3> QED BY <1>1, <3>1, TouchedServed
  <2> QED BY <1>7, <2>1, <2>2, <2>3 DEF World
<1>8. ASSUME NEW signal \in signals, Notified(signal) PROVE AllServed(c')
  BY <1>1, <1>8, NotifiedServed
<1> QED BY <1>2, <1>3, <1>4, <1>5, <1>6, <1>7, <1>8 DEF Next

LEMMA JobsInvHolds == Spec /\ ~Does("keepRoot") /\ Orderly => []JobsInv
<1>1. Init /\ ~Does("keepRoot") /\ Orderly => JobsInv
  BY InitIInv, InitServed DEF JobsInv
<1>2. JobsInv /\ [Next]_vars => JobsInv'
  <2>1. ASSUME JobsInv, Next PROVE JobsInv'
    <3>1. IInv' /\ AllServed(c')
      BY <2>1, NextKeeps, NextServed DEF JobsInv
    <3>2. usage' = usage
      BY <2>1 DEF Next, Calls, JobStep, World, OpenUrl, Stop, StopUrl, Close, SetAutoUpdate,
                  CachedItemsDone, Update, Entries, SlotResult, SlotUpdateResult,
                  WatchReports, Evict, Create, Remove, Notified
    <3> QED BY <2>1, <3>1, <3>2 DEF JobsInv, Orderly, Does
  <2>2. ASSUME JobsInv, UNCHANGED vars PROVE JobsInv'
    <3>1. IInv'
      BY <2>2, StutterKeeps DEF JobsInv
    <3>2. usage' = usage /\ c' = c
      BY <2>2 DEF vars
    <3> QED BY <2>2, <3>1, <3>2 DEF JobsInv, Orderly, Does
  <2> QED BY <2>1, <2>2
<1> QED BY <1>1, <1>2, PTL DEF Spec

\* Jobs and listers find each other, as long as nobody stops a list job and what
\* is posted is done before a job ends: who lists a directory waits for a job
\* that runs or for items that are posted to it, a list job has somebody who
\* lists and nobody who holds its directory (the assertions of slotEntries and
\* slotResult), and no lister counts a job that is gone or of a directory that
\* it does not use, which would keep completed () from it.
THEOREM JobsServe == Spec /\ ~Does("keepRoot") /\ Orderly => []JobsServeListers
<1>1. ASSUME JobsInv PROVE JobsServeListers
  <2>1. /\ c \in States /\ NoneEnded(c)
        /\ \A dir \in Dirs : Served(c, dir) /\ DirOK(c, dir)
    BY <1>1 DEF JobsInv, IInv, Consistent, Agreed, AllServed
  <2>2. ASSUME NEW dir \in Dirs PROVE ListingHasJob(dir) /\ ListJobHasListers(dir)
    <3>1. ListingHasJob(dir)
      BY <2>1 DEF Served, AwaitedAt, ListingHasJob
    <3>2. ListJobHasListers(dir)
      BY <2>1 DEF Served, FreshAt, IsList, DirOK, Users, ListJobHasListers
    <3> QED BY <3>1, <3>2
  <2>3. ASSUME NEW l \in Listers, NEW dir \in c.jobData[l]
        PROVE  dir # Ended /\ c.job[dir] # NoJob /\ l \in Users(c, dir)
    <3>1. dir \in Dirs \union {Ended}
      BY <2>1, StatesHaveData
    <3>2. dir # Ended
      BY <2>1 DEF NoneEnded
    <3> QED BY <2>1, <3>1, <3>2 DEF Served, CountedAt
  <2> QED BY <2>2, <2>3 DEF JobsServeListers
<1> QED BY <1>1, JobsInvHolds, PTL
=============================================================================
