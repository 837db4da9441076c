------------------------ MODULE DirListerCacheProofs -------------------------
(***************************************************************************)
(* Theorems about KDirListerCache, for any tree of directories, any number *)
(* of listers and any changes of the disk.                                 *)
(***************************************************************************)
EXTENDS DirListerCache, FiniteSetTheorems, TLAPS

-----------------------------------------------------------------------------
(* Types: what is kept of a directory are items that may be in it, and the  *)
(* counts are natural numbers.  How large they are takes the invariant.     *)

Places == {"itemsInUse", "itemsCached"}

ItemMaps ==
  {m \in [Dirs -> [autoUpdates : Nat, complete : BOOLEAN, items : SUBSET Items]
                    \union {NoItem}] :
     \A dir \in Dirs : m[dir] # NoItem => m[dir].items \subseteq Contents[dir]}

JobMaps ==
  {m \in [Dirs -> ListJobs \union {NoJob}] :
     \A dir \in Dirs : m[dir] # NoJob =>
       m[dir].left \subseteq Contents[dir] /\ m[dir].buffer \subseteq Contents[dir]}

Posted ==
  {posted \in CachedItemsJobs : posted.items \subseteq Contents[posted.url]}
    \union {NoJob}

Views == {view \in [Dirs -> SUBSET Items] :
            \A dir \in Dirs : view[dir] \subseteq Contents[dir]}

States ==
  [itemsInUse : ItemMaps, itemsCached : ItemMaps,
   listersCurrentlyListing : [Dirs -> SUBSET Listers],
   listersCurrentlyHolding : [Dirs -> SUBSET Listers],
   job : JobMaps,
   dirty : [Dirs -> BOOLEAN],
   lstDirs : [Listers -> SUBSET Dirs],
   url : [Listers -> Dirs \union {NoDir}],
   complete : [Listers -> BOOLEAN],
   autoUpdate : [Listers -> BOOLEAN],
   cachedItemsJob : [Listers -> Posted],
   jobData : [Listers -> SUBSET (Dirs \union {Ended})],
   shown : [Listers -> Views],
   doubled : SUBSET Listers]

\* The lists of the cache and of the listers.
SameUsers(s, t) ==
  /\ t.listersCurrentlyListing = s.listersCurrentlyListing
  /\ t.listersCurrentlyHolding = s.listersCurrentlyHolding
  /\ t.lstDirs = s.lstDirs /\ t.url = s.url /\ t.autoUpdate = s.autoUpdate
  /\ t.cachedItemsJob = s.cachedItemsJob

SameItems(s, t) == t.itemsInUse = s.itemsInUse /\ t.itemsCached = s.itemsCached

\* Only what the listers show and wait for, and what is reported, may differ.
Quiet(s, t) ==
  t \in States /\ SameUsers(s, t) /\ SameItems(s, t) /\ t.job = s.job

LEMMA ContentsAreItems ==
  \A dir \in Dirs : Contents[dir] \subseteq Items
BY DirsAssumption DEF Items

LEMMA NoItemIsNone ==
  ASSUME NEW n \in Nat, NEW complete \in BOOLEAN, NEW items \in SUBSET Items
  PROVE  [autoUpdates |-> n, complete |-> complete, items |-> items] # NoItem
BY NoItemAssumption

LEMMA ItemType ==
  ASSUME NEW m \in ItemMaps, NEW dir \in Dirs, m[dir] # NoItem
  PROVE  /\ m[dir] \in [autoUpdates : Nat, complete : BOOLEAN, items : SUBSET Items]
         /\ m[dir].autoUpdates \in Nat /\ m[dir].complete \in BOOLEAN
         /\ m[dir].items \subseteq Contents[dir]
BY DEF ItemMaps

LEMMA ItemMapWith ==
  ASSUME NEW m \in ItemMaps, NEW dir \in Dirs,
         NEW n \in Nat, NEW complete \in BOOLEAN, NEW items \in SUBSET Contents[dir]
  PROVE  /\ [m EXCEPT ![dir] = [autoUpdates |-> n, complete |-> complete,
                                items |-> items]] \in ItemMaps
         /\ [m EXCEPT ![dir] = NoItem] \in ItemMaps
BY ContentsAreItems DEF ItemMaps

LEMMA ItemMapCount ==
  ASSUME NEW m \in ItemMaps, NEW dir \in Dirs, m[dir] # NoItem, NEW n \in Nat
  PROVE  /\ [m EXCEPT ![dir].autoUpdates = n] \in ItemMaps
         /\ [m EXCEPT ![dir].autoUpdates = n][dir] =
              [autoUpdates |-> n, complete |-> m[dir].complete, items |-> m[dir].items]
<1>1. m[dir] \in [autoUpdates : Nat, complete : BOOLEAN, items : SUBSET Items]
  BY ItemType
<1>2. [m[dir] EXCEPT !.autoUpdates = n] =
        [autoUpdates |-> n, complete |-> m[dir].complete, items |-> m[dir].items]
  BY <1>1
<1>3. [m EXCEPT ![dir].autoUpdates = n] =
        [m EXCEPT ![dir] = [autoUpdates |-> n, complete |-> m[dir].complete,
                            items |-> m[dir].items]]
  BY <1>2
<1>4. m[dir].complete \in BOOLEAN /\ m[dir].items \in SUBSET Contents[dir]
  BY ItemType
<1>5. dir \in DOMAIN m
  BY DEF ItemMaps
<1>6. [m EXCEPT ![dir] = [autoUpdates |-> n, complete |-> m[dir].complete,
                          items |-> m[dir].items]] \in ItemMaps
  BY <1>4, ItemMapWith
<1>7. [m EXCEPT ![dir].autoUpdates = n] \in ItemMaps
  BY <1>3, <1>6
<1>8. [m EXCEPT ![dir].autoUpdates = n][dir] =
        [autoUpdates |-> n, complete |-> m[dir].complete, items |-> m[dir].items]
  BY <1>2, <1>5
<1> QED BY <1>7, <1>8

LEMMA CountPut ==
  ASSUME NEW m \in ItemMaps, NEW dir \in Dirs, m[dir] # NoItem, NEW n \in Nat
  PROVE  LET k == [m EXCEPT ![dir].autoUpdates = n] IN
         /\ k[dir] # NoItem /\ k[dir].autoUpdates = n
         /\ k[dir].complete = m[dir].complete /\ k[dir].items = m[dir].items
         /\ \A d \in Dirs \ {dir} : k[d] = m[d]
<1> DEFINE k == [m EXCEPT ![dir].autoUpdates = n]
           r == m[dir]
           x == [autoUpdates |-> n, complete |-> r.complete, items |-> r.items]
<1>1. k[dir] = x
  BY ItemMapCount
<1>2. r.complete \in BOOLEAN /\ r.items \in SUBSET Items
  BY ItemType, ContentsAreItems
<1>3. x # NoItem
  <2> DEFINE b == r.complete
             i == r.items
  <2>1. b \in BOOLEAN /\ i \in SUBSET Items
    BY <1>2
  <2> HIDE DEF b, i
  <2>2. [autoUpdates |-> n, complete |-> b, items |-> i] # NoItem
    BY <2>1, NoItemIsNone
  <2> QED BY <2>2 DEF b, i
<1>4. x.autoUpdates = n /\ x.complete = r.complete /\ x.items = r.items
  <2> HIDE DEF r
  <2> QED OBVIOUS
<1>5. \A d \in Dirs \ {dir} : k[d] = m[d]
  BY DEF ItemMaps
<1> HIDE DEF k, x
<1> QED BY <1>1, <1>3, <1>4, <1>5 DEF k

-----------------------------------------------------------------------------
(* Items and watches *)

LEMMA PutItems ==
  ASSUME NEW s \in States, NEW where \in Places, NEW m \in ItemMaps
  PROVE  LET t == [s EXCEPT ![where] = m] IN
         /\ t \in States /\ t[where] = m
         /\ \A other \in Places \ {where} : t[other] = s[other]
         /\ SameUsers(s, t) /\ t.job = s.job
<1>1. CASE where = "itemsInUse"
  BY <1>1 DEF States, SameUsers, Places
<1>2. CASE where = "itemsCached"
  BY <1>2 DEF States, SameUsers, Places
<1> QED BY <1>1, <1>2 DEF Places

LEMMA IncFacts ==
  ASSUME NEW s \in States, NEW where \in Places, NEW dir \in Dirs,
         HasDirItem(s, where, dir)
  PROVE  LET t == IncAutoUpdate(s, where, dir) IN
         /\ t \in States
         /\ t[where] = [s[where] EXCEPT ![dir].autoUpdates = s[where][dir].autoUpdates + 1]
         /\ \A other \in Places \ {where} : t[other] = s[other]
         /\ SameUsers(s, t) /\ t.job = s.job
<1> DEFINE m == s[where]
           k == [m EXCEPT ![dir].autoUpdates = s[where][dir].autoUpdates + 1]
<1>1. m \in ItemMaps /\ m[dir] # NoItem
  BY DEF States, HasDirItem, Places
<1>2. m[dir].autoUpdates + 1 \in Nat
  <2> HIDE DEF m
  <2> QED BY <1>1, ItemType
<1>3. k \in ItemMaps
  <2> HIDE DEF m
  <2> QED BY <1>1, <1>2, ItemMapCount DEF m
<1>4. IncAutoUpdate(s, where, dir) = [s EXCEPT ![where] = k]
  BY DEF IncAutoUpdate, States, Places
<1> DEFINE t == IncAutoUpdate(s, where, dir)
<1> HIDE DEF k
<1>5. /\ t \in States /\ t[where] = k
      /\ \A other \in Places \ {where} : t[other] = s[other]
      /\ SameUsers(s, t) /\ t.job = s.job
  <2> DEFINE u == [s EXCEPT ![where] = k]
  <2>1. /\ u \in States /\ u[where] = k
        /\ \A other \in Places \ {where} : u[other] = s[other]
        /\ SameUsers(s, u) /\ u.job = s.job
    BY <1>3, PutItems
  <2>2. t = u
    BY <1>4
  <2> HIDE DEF u, t
  <2> QED BY <2>1, <2>2
<1> HIDE DEF t
<1> QED BY <1>5 DEF k, t

LEMMA UnwatchedFacts ==
  ASSUME NEW s \in States, NEW dir \in Dirs
  PROVE  Quiet(s, Unwatched(s, dir))
BY DEF Unwatched, Quiet, States, SameUsers, SameItems

LEMMA DecFacts ==
  ASSUME NEW s \in States, NEW where \in Places, NEW dir \in Dirs,
         HasDirItem(s, where, dir)
  PROVE  LET t == DecAutoUpdate(s, where, dir)
             n == s[where][dir].autoUpdates
         IN
         /\ t \in States
         /\ t[where] = [s[where] EXCEPT ![dir].autoUpdates = IF n = 0 THEN 0 ELSE n - 1]
         /\ \A other \in Places \ {where} : t[other] = s[other]
         /\ SameUsers(s, t) /\ t.job = s.job
<1> DEFINE m == s[where]
           n == s[where][dir].autoUpdates
           less == IF n = 0 THEN 0 ELSE n - 1
           k == [m EXCEPT ![dir].autoUpdates = less]
           u == [s EXCEPT ![where] = k]
           t == DecAutoUpdate(s, where, dir)
<1>1. m \in ItemMaps /\ m[dir] # NoItem
  BY DEF States, HasDirItem, Places
<1>2. less \in Nat
  <2>1. n \in Nat
    <3> HIDE DEF m
    <3> QED BY <1>1, ItemType DEF m
  <2> HIDE DEF n
  <2> QED BY <2>1
<1>3. k \in ItemMaps
  <2> HIDE DEF m, less
  <2> QED BY <1>1, <1>2, ItemMapCount
<1>4. t = IF n = 1 THEN Unwatched(u, dir) ELSE u
  <2>1. [s EXCEPT ![where][dir].autoUpdates = less] = u
    <3> HIDE DEF less
    <3> QED BY DEF States, Places
  <2> HIDE DEF u
  <2> QED BY <2>1 DEF DecAutoUpdate
<1> HIDE DEF k
<1>5. /\ u \in States /\ u[where] = k
      /\ \A other \in Places \ {where} : u[other] = s[other]
      /\ SameUsers(s, u) /\ u.job = s.job
  BY <1>3, PutItems
<1> HIDE DEF u
<1>6. Quiet(u, Unwatched(u, dir))
  BY <1>5, UnwatchedFacts
<1>7. t \in States /\ SameUsers(u, t) /\ SameItems(u, t) /\ t.job = u.job
  <2> HIDE DEF n, t
  <2>1. SameUsers(u, u) /\ SameItems(u, u)
    BY DEF SameUsers, SameItems
  <2> QED BY <1>4, <1>5, <1>6, <2>1 DEF Quiet
<1>8. \A other \in Places : t[other] = u[other]
  <2> HIDE DEF t
  <2> QED BY <1>5, <1>7 DEF Places, SameItems, States
<1>9. SameUsers(s, t)
  <2> HIDE DEF t
  <2> QED BY <1>5, <1>7 DEF SameUsers
<1> HIDE DEF t
<1> QED BY <1>5, <1>7, <1>8, <1>9 DEF k, t

LEMMA IncAt ==
  ASSUME NEW s \in States, NEW where \in Places, NEW dir \in Dirs,
         HasDirItem(s, where, dir)
  PROVE  LET t == IncAutoUpdate(s, where, dir)
             n == s[where][dir].autoUpdates
         IN
         /\ t \in States /\ SameUsers(s, t) /\ t.job = s.job
         /\ \A other \in Places \ {where} : t[other] = s[other]
         /\ \A d \in Dirs \ {dir} : t[where][d] = s[where][d]
         /\ HasDirItem(t, where, dir) /\ n \in Nat
         /\ t[where][dir].autoUpdates = n + 1
         /\ t[where][dir].complete = s[where][dir].complete
         /\ t[where][dir].items = s[where][dir].items
<1> DEFINE m == s[where]
           n == s[where][dir].autoUpdates
           new == n + 1
           t == IncAutoUpdate(s, where, dir)
<1>1. m \in ItemMaps /\ m[dir] # NoItem
  BY DEF States, HasDirItem, Places
<1>2. n \in Nat
  <2> HIDE DEF m
  <2> QED BY <1>1, ItemType DEF m
<1>3. new \in Nat
  <2> HIDE DEF n
  <2> QED BY <1>2
<1>4. /\ t \in States /\ SameUsers(s, t) /\ t.job = s.job
      /\ t[where] = [m EXCEPT ![dir].autoUpdates = new]
      /\ \A other \in Places \ {where} : t[other] = s[other]
  BY IncFacts
<1> DEFINE k == [m EXCEPT ![dir].autoUpdates = new]
<1>5. /\ k[dir] # NoItem /\ k[dir].autoUpdates = new
      /\ k[dir].complete = m[dir].complete /\ k[dir].items = m[dir].items
      /\ \A d \in Dirs \ {dir} : k[d] = m[d]
  <2> HIDE DEF m, new, n
  <2> QED BY <1>1, <1>3, CountPut
<1> HIDE DEF k, new, t, n
<1>6. /\ HasDirItem(t, where, dir) /\ t[where][dir].autoUpdates = new
      /\ t[where][dir].complete = s[where][dir].complete
      /\ t[where][dir].items = s[where][dir].items
      /\ \A d \in Dirs \ {dir} : t[where][d] = s[where][d]
  BY <1>4, <1>5 DEF HasDirItem, k
<1> QED BY <1>2, <1>4, <1>6 DEF t, new, n

LEMMA DecAt ==
  ASSUME NEW s \in States, NEW where \in Places, NEW dir \in Dirs,
         HasDirItem(s, where, dir)
  PROVE  LET t == DecAutoUpdate(s, where, dir)
             n == s[where][dir].autoUpdates
         IN
         /\ t \in States /\ SameUsers(s, t) /\ t.job = s.job
         /\ \A other \in Places \ {where} : t[other] = s[other]
         /\ \A d \in Dirs \ {dir} : t[where][d] = s[where][d]
         /\ HasDirItem(t, where, dir) /\ n \in Nat
         /\ t[where][dir].autoUpdates = IF n = 0 THEN 0 ELSE n - 1
         /\ t[where][dir].complete = s[where][dir].complete
         /\ t[where][dir].items = s[where][dir].items
<1> DEFINE m == s[where]
           n == s[where][dir].autoUpdates
           new == IF n = 0 THEN 0 ELSE n - 1
           t == DecAutoUpdate(s, where, dir)
<1>1. m \in ItemMaps /\ m[dir] # NoItem
  BY DEF States, HasDirItem, Places
<1>2. n \in Nat
  <2> HIDE DEF m
  <2> QED BY <1>1, ItemType DEF m
<1>3. new \in Nat
  <2> HIDE DEF n
  <2> QED BY <1>2
<1>4. /\ t \in States /\ SameUsers(s, t) /\ t.job = s.job
      /\ t[where] = [m EXCEPT ![dir].autoUpdates = new]
      /\ \A other \in Places \ {where} : t[other] = s[other]
  BY DecFacts
<1> DEFINE k == [m EXCEPT ![dir].autoUpdates = new]
<1>5. /\ k[dir] # NoItem /\ k[dir].autoUpdates = new
      /\ k[dir].complete = m[dir].complete /\ k[dir].items = m[dir].items
      /\ \A d \in Dirs \ {dir} : k[d] = m[d]
  <2> HIDE DEF m, new, n
  <2> QED BY <1>1, <1>3, CountPut
<1> HIDE DEF k, new, t, n
<1>6. /\ HasDirItem(t, where, dir) /\ t[where][dir].autoUpdates = new
      /\ t[where][dir].complete = s[where][dir].complete
      /\ t[where][dir].items = s[where][dir].items
      /\ \A d \in Dirs \ {dir} : t[where][d] = s[where][d]
  BY <1>4, <1>5 DEF HasDirItem, k
<1> QED BY <1>2, <1>4, <1>6 DEF t, new, n

LEMMA DeletedFacts ==
  ASSUME NEW s \in States, NEW where \in Places, NEW dir \in Dirs
  PROVE  LET t == Deleted(s, where, dir) IN
         /\ t \in States
         /\ t[where] = [s[where] EXCEPT ![dir] = NoItem]
         /\ \A other \in Places \ {where} : t[other] = s[other]
         /\ SameUsers(s, t) /\ t.job = s.job
<1> DEFINE m == s[where]
           k == [m EXCEPT ![dir] = NoItem]
           u == [s EXCEPT ![where] = k]
           t == Deleted(s, where, dir)
<1>1. m \in ItemMaps
  BY DEF States, Places
<1>3. k \in ItemMaps
  <2> HIDE DEF m
  <2> QED BY <1>1 DEF ItemMaps
<1>4. t \in {u, Unwatched(u, dir)}
  <2>1. [s EXCEPT ![where][dir] = NoItem] = u
    BY DEF States, Places
  <2> HIDE DEF u
  <2> QED BY <2>1 DEF Deleted
<1> HIDE DEF k
<1>5. /\ u \in States /\ u[where] = k
      /\ \A other \in Places \ {where} : u[other] = s[other]
      /\ SameUsers(s, u) /\ u.job = s.job
  BY <1>3, PutItems
<1> HIDE DEF u
<1>6. Quiet(u, Unwatched(u, dir))
  BY <1>5, UnwatchedFacts
<1>7. t \in States /\ SameUsers(u, t) /\ SameItems(u, t) /\ t.job = u.job
  <2> HIDE DEF t
  <2>1. SameUsers(u, u) /\ SameItems(u, u)
    BY DEF SameUsers, SameItems
  <2> QED BY <1>4, <1>5, <1>6, <2>1 DEF Quiet
<1>8. \A other \in Places : t[other] = u[other]
  <2> HIDE DEF t
  <2> QED BY <1>5, <1>7 DEF Places, SameItems, States
<1>9. SameUsers(s, t)
  <2> HIDE DEF t
  <2> QED BY <1>5, <1>7 DEF SameUsers
<1> HIDE DEF t
<1> QED BY <1>5, <1>7, <1>8, <1>9 DEF k, t

LEMMA TakenFacts ==
  ASSUME NEW s \in States, NEW dir \in Dirs, HasDirItem(s, "itemsCached", dir)
  PROVE  LET t == TakenFromCache(s, dir)
             item == s.itemsCached[dir]
             n == item.autoUpdates
         IN
         /\ t \in States
         /\ t.itemsInUse =
              [s.itemsInUse EXCEPT ![dir] =
                 [autoUpdates |-> IF n = 0 THEN 0 ELSE n - 1,
                  complete |-> item.complete, items |-> item.items]]
         /\ t.itemsCached = [s.itemsCached EXCEPT ![dir] = NoItem]
         /\ SameUsers(s, t) /\ t.job = s.job
<1> DEFINE d == DecAutoUpdate(s, "itemsCached", dir)
           t == TakenFromCache(s, dir)
           item == s.itemsCached[dir]
           n == item.autoUpdates
           less == IF n = 0 THEN 0 ELSE n - 1
           new == [autoUpdates |-> less, complete |-> item.complete, items |-> item.items]
<1>1. /\ d \in States
      /\ d.itemsCached = [s.itemsCached EXCEPT ![dir].autoUpdates = less]
      /\ d.itemsInUse = s.itemsInUse
      /\ SameUsers(s, d) /\ d.job = s.job
  <2>1. "itemsCached" \in Places /\ "itemsInUse" \in Places \ {"itemsCached"}
    BY DEF Places
  <2>2. /\ d \in States
        /\ d["itemsCached"] = [s["itemsCached"] EXCEPT ![dir].autoUpdates = less]
        /\ d["itemsInUse"] = s["itemsInUse"]
        /\ SameUsers(s, d) /\ d.job = s.job
    <3>1. d \in States /\ SameUsers(s, d) /\ d.job = s.job
      <4> HIDE DEF d
      <4> QED BY <2>1, DecFacts DEF d
    <3>2. d["itemsCached"] = [s["itemsCached"] EXCEPT ![dir].autoUpdates =
            IF s["itemsCached"][dir].autoUpdates = 0 THEN 0
            ELSE s["itemsCached"][dir].autoUpdates - 1]
      <4> HIDE DEF d
      <4> QED BY <2>1, DecFacts DEF d
    <3>3. d["itemsInUse"] = s["itemsInUse"]
      <4>1. \A other \in Places \ {"itemsCached"} : d[other] = s[other]
        <5> HIDE DEF d
        <5> QED BY <2>1, DecFacts DEF d
      <4> HIDE DEF d
      <4> QED BY <2>1, <4>1
    <3>4. s["itemsCached"] = s.itemsCached
      BY DEF States
    <3> HIDE DEF d
    <3> QED BY <3>1, <3>2, <3>3, <3>4
  <2> HIDE DEF d, less
  <2> QED BY <2>2 DEF States
<1>2. s.itemsCached \in ItemMaps /\ s.itemsCached[dir] # NoItem
  BY DEF States, HasDirItem
<1>3. /\ item.complete \in BOOLEAN /\ item.items \in SUBSET Contents[dir]
      /\ n \in Nat
  <2> HIDE DEF item
  <2> QED BY <1>2, ItemType DEF item
<1>4. less \in Nat
  <2> HIDE DEF n
  <2> QED BY <1>3
<1>5. d.itemsCached[dir] = new
  <2> DEFINE m == s.itemsCached
  <2>1. m \in ItemMaps /\ m[dir] # NoItem
    BY <1>2
  <2> HIDE DEF less, d, m
  <2>2. [m EXCEPT ![dir].autoUpdates = less][dir] =
          [autoUpdates |-> less, complete |-> m[dir].complete, items |-> m[dir].items]
    BY <2>1, <1>4, ItemMapCount
  <2> QED BY <1>1, <2>2 DEF m
<1>6. t = [d EXCEPT !.itemsInUse[dir] = new, !.itemsCached[dir] = NoItem]
  <2> HIDE DEF d, new
  <2>1. t = [d EXCEPT !.itemsInUse[dir] = d.itemsCached[dir],
                      !.itemsCached[dir] = NoItem]
    BY DEF TakenFromCache, d
  <2> QED BY <1>5, <2>1
<1> HIDE DEF d, t, less, item
<1>7. /\ t.itemsInUse = [d.itemsInUse EXCEPT ![dir] = new]
      /\ t.itemsCached = [d.itemsCached EXCEPT ![dir] = NoItem]
  <2> HIDE DEF new
  <2> QED BY <1>1, <1>6 DEF States
<1>8. t.itemsCached = [s.itemsCached EXCEPT ![dir] = NoItem]
  BY <1>1, <1>2, <1>7 DEF ItemMaps
<1>9. t.itemsInUse \in ItemMaps /\ t.itemsCached \in ItemMaps
  <2>1. d.itemsInUse \in ItemMaps
    BY <1>1 DEF States
  <2>2. t.itemsInUse \in ItemMaps
    <3> DEFINE complete == item.complete
               items == item.items
               m == d.itemsInUse
    <3>1. complete \in BOOLEAN /\ items \in SUBSET Contents[dir] /\ m \in ItemMaps
      BY <1>3, <2>1
    <3> HIDE DEF complete, items, m
    <3>2. [m EXCEPT ![dir] = [autoUpdates |-> less, complete |-> complete,
                              items |-> items]] \in ItemMaps
      BY <1>4, <3>1, ItemMapWith
    <3> QED BY <1>7, <3>2 DEF complete, items, m
  <2>3. t.itemsCached \in ItemMaps
    BY <1>2, <1>8 DEF ItemMaps
  <2> QED BY <2>2, <2>3
<1>10. t \in States /\ SameUsers(s, t) /\ t.job = s.job
  <2> HIDE DEF new
  <2> QED BY <1>1, <1>6, <1>9 DEF States, SameUsers
<1> QED BY <1>1, <1>7, <1>8, <1>10 DEF t, item, less

-----------------------------------------------------------------------------
(* Jobs and views *)

LEMMA JobDoneQuiet ==
  ASSUME NEW s \in States, NEW listers, NEW dir
  PROVE  Quiet(s, JobDone(s, listers, dir))
BY DEF JobDone, Quiet, States, SameUsers, SameItems

LEMMA JobStartedQuiet ==
  ASSUME NEW s \in States, NEW listers, NEW dir \in Dirs
  PROVE  Quiet(s, JobStarted(s, listers, dir))
<1> DEFINE done == [l \in Listers |-> IF l \in listers THEN s.jobData[l] \union {dir}
                                                       ELSE s.jobData[l]]
           complete == [l \in Listers |-> s.complete[l] /\ l \notin listers]
<1>1. JobStarted(s, listers, dir) = [s EXCEPT !.jobData = done, !.complete = complete]
  BY DEF JobStarted, States
<1>2. done \in [Listers -> SUBSET (Dirs \union {Ended})]
  BY DEF States
<1>3. complete \in [Listers -> BOOLEAN]
  BY DEF States
<1> HIDE DEF done, complete
<1> QED BY <1>1, <1>2, <1>3 DEF Quiet, States, SameUsers, SameItems

LEMMA FinishedQuiet ==
  ASSUME NEW s \in States, NEW listers
  PROVE  Quiet(s, Finished(s, listers))
<1> DEFINE complete == [l \in Listers |->
                          s.complete[l] \/ (l \in listers /\ s.jobData[l] = {})]
<1>1. Finished(s, listers) = [s EXCEPT !.complete = complete]
  BY DEF Finished, States
<1>2. complete \in [Listers -> BOOLEAN]
  BY DEF States
<1> HIDE DEF complete
<1> QED BY <1>1, <1>2 DEF Quiet, States, SameUsers, SameItems

\* A change of what the listers show.
LEMMA ShownQuiet ==
  ASSUME NEW s \in States, NEW shown \in [Listers -> Views],
         NEW doubled \in SUBSET Listers
  PROVE  Quiet(s, [s EXCEPT !.shown = shown, !.doubled = doubled])
BY DEF Quiet, States, SameUsers, SameItems

LEMMA AnnounceQuiet ==
  ASSUME NEW s \in States, NEW listers \in SUBSET Listers, NEW dir \in Dirs,
         NEW items \in SUBSET Contents[dir]
  PROVE  Quiet(s, Announce(s, listers, dir, items))
<1> DEFINE view(l) == [d \in Dirs |-> IF l \in listers /\ d = dir
                                        THEN s.shown[l][d] \union items
                                        ELSE s.shown[l][d]]
           shown == [l \in Listers |-> view(l)]
           doubled == s.doubled \union {l \in listers : s.shown[l][dir] \cap items # {}}
<1>1. Announce(s, listers, dir, items) = [s EXCEPT !.shown = shown, !.doubled = doubled]
  BY DEF Announce, States
<1>2. doubled \in SUBSET Listers
  BY DEF States
<1>3. ASSUME NEW l \in Listers
      PROVE  view(l) \in Views
  <2>1. s.shown[l] \in Views
    BY DEF States
  <2>2. \A d \in Dirs : view(l)[d] \subseteq Contents[d]
    BY <2>1 DEF Views
  <2>3. view(l) \in [Dirs -> SUBSET Items]
    BY <2>1, ContentsAreItems DEF Views
  <2> HIDE DEF view
  <2> QED BY <2>2, <2>3 DEF Views
<1>4. shown \in [Listers -> Views]
  <2> HIDE DEF view
  <2> QED BY <1>3
<1> HIDE DEF shown, doubled
<1>5. Quiet(s, [s EXCEPT !.shown = shown, !.doubled = doubled])
  BY <1>2, <1>4, ShownQuiet
<1> QED BY <1>1, <1>5

LEMMA ShownOnlyQuiet ==
  ASSUME NEW s \in States, NEW shown \in [Listers -> Views]
  PROVE  Quiet(s, [s EXCEPT !.shown = shown])
BY DEF Quiet, States, SameUsers, SameItems

LEMMA RetractQuiet ==
  ASSUME NEW s \in States, NEW listers, NEW dir, NEW items
  PROVE  Quiet(s, Retract(s, listers, dir, items))
<1> DEFINE below == UNION {Below[sub] : sub \in items \cap Dirs}
           view(l) == [d \in Dirs |->
             IF l \notin listers THEN s.shown[l][d]
             ELSE IF d \in below THEN {}
             ELSE IF d = dir THEN s.shown[l][d] \ items ELSE s.shown[l][d]]
           shown == [l \in Listers |-> view(l)]
<1>1. Retract(s, listers, dir, items) = [s EXCEPT !.shown = shown]
  BY DEF Retract, States
<1>2. ASSUME NEW l \in Listers
      PROVE  view(l) \in Views
  <2>1. s.shown[l] \in Views
    BY DEF States
  <2> HIDE DEF below
  <2>2. \A d \in Dirs : view(l)[d] \subseteq s.shown[l][d]
    OBVIOUS
  <2>3. view(l) \in [Dirs -> SUBSET Items]
    BY <2>1 DEF Views
  <2> HIDE DEF view
  <2> QED BY <2>1, <2>2, <2>3 DEF Views
<1>3. shown \in [Listers -> Views]
  <2> HIDE DEF view
  <2> QED BY <1>2
<1> HIDE DEF shown
<1> QED BY <1>1, <1>3, ShownOnlyQuiet

LEMMA ClearAllQuiet ==
  ASSUME NEW s \in States, NEW l \in Listers
  PROVE  Quiet(s, ClearAll(s, l))
<1> DEFINE none == [dir \in Dirs |-> {}]
           shown == [s.shown EXCEPT ![l] = none]
<1>1. none \in Views
  BY DEF Views
<1>2. ClearAll(s, l) = [s EXCEPT !.shown = shown]
  BY DEF ClearAll, States
<1> HIDE DEF none
<1>3. shown \in [Listers -> Views]
  BY <1>1 DEF States
<1> HIDE DEF shown
<1> QED BY <1>2, <1>3, ShownOnlyQuiet

\* Quiet steps may follow each other.
LEMMA QuietTwice ==
  ASSUME NEW s, NEW t, NEW u, Quiet(s, t), Quiet(t, u)
  PROVE  Quiet(s, u)
BY DEF Quiet, SameUsers, SameItems

LEMMA QuietNothing ==
  ASSUME NEW s \in States
  PROVE  Quiet(s, s)
BY DEF Quiet, SameUsers, SameItems

LEMMA JobGoneFacts ==
  ASSUME NEW s \in States, NEW dir \in Dirs
  PROVE  LET t == JobGone(s, dir) IN
         /\ t \in States /\ SameUsers(s, t) /\ SameItems(s, t)
         /\ t.job = [s.job EXCEPT ![dir] = NoJob]
<1> DEFINE job == [s.job EXCEPT ![dir] = NoJob]
           data == [l \in Listers |-> IF dir \in s.jobData[l]
                                        THEN (s.jobData[l] \ {dir}) \union {Ended}
                                        ELSE s.jobData[l]]
<1>1. JobGone(s, dir) = [s EXCEPT !.job = job, !.jobData = data]
  BY DEF JobGone, States
<1>2. job \in JobMaps
  BY DEF States, JobMaps
<1>3. data \in [Listers -> SUBSET (Dirs \union {Ended})]
  BY DEF States
<1> HIDE DEF job, data
<1>4. LET t == [s EXCEPT !.job = job, !.jobData = data] IN
      /\ t \in States /\ SameUsers(s, t) /\ SameItems(s, t)
      /\ t.job = job
  BY <1>2, <1>3 DEF States, SameUsers, SameItems
<1> QED BY <1>1, <1>4 DEF job

LEMMA NewJobFacts ==
  ASSUME NEW s \in States, NEW dir \in Dirs, NEW kind \in {"list", "update"}
  PROVE  LET t == NewJob(s, dir, kind) IN
         /\ t \in States /\ SameUsers(s, t) /\ SameItems(s, t)
         /\ t.job = [s.job EXCEPT ![dir] =
                       [kind |-> kind, read |-> FALSE, left |-> {}, buffer |-> {}]]
         /\ t.job[dir] # NoJob
<1> DEFINE new == [kind |-> kind, read |-> FALSE, left |-> {}, buffer |-> {}]
           job == [s.job EXCEPT ![dir] = new]
<1>1. NewJob(s, dir, kind) = [s EXCEPT !.job = job]
  BY DEF NewJob, States
<1>2. new \in ListJobs
  BY DEF ListJobs
<1>3. new # NoJob
  <2> HIDE DEF new
  <2> QED BY <1>2, NoJobAssumption
<1>4. job \in JobMaps /\ job[dir] = new
  BY <1>2 DEF States, JobMaps
<1> HIDE DEF job
<1>5. LET t == [s EXCEPT !.job = job] IN
      /\ t \in States /\ SameUsers(s, t) /\ SameItems(s, t) /\ t.job = job
  BY <1>4 DEF States, SameUsers, SameItems
<1> HIDE DEF new
<1> QED BY <1>1, <1>3, <1>4, <1>5 DEF job, new

-----------------------------------------------------------------------------
(* A lister forgets a directory *)

AutoUsers(s, dir) == {l \in Users(s, dir) : s.autoUpdate[l]}

\* The lists of one directory agree, its item is in one place, and a job runs
\* for somebody.
DirOK(s, dir) ==
  /\ s.listersCurrentlyListing[dir] \cap s.listersCurrentlyHolding[dir] = {}
  /\ HasDirItem(s, "itemsInUse", dir) <=> Users(s, dir) # {}
  /\ ~(HasDirItem(s, "itemsInUse", dir) /\ HasDirItem(s, "itemsCached", dir))
  /\ s.job[dir] # NoJob => Users(s, dir) # {}

\* Its watches are counted.
CountOK(s, dir) ==
  /\ HasDirItem(s, "itemsInUse", dir) =>
       s.itemsInUse[dir].autoUpdates = Cardinality(AutoUsers(s, dir))
  /\ HasDirItem(s, "itemsCached", dir) =>
       s.itemsCached[dir].autoUpdates = IF s.itemsCached[dir].complete THEN 1 ELSE 0

\* Users and holders apart, the lists are the same.
SameButHolding(s, t) ==
  /\ t.listersCurrentlyListing = s.listersCurrentlyListing
  /\ t.lstDirs = s.lstDirs /\ t.url = s.url /\ t.autoUpdate = s.autoUpdate
  /\ t.cachedItemsJob = s.cachedItemsJob

LEMMA UsersFinite ==
  ASSUME NEW s \in States, NEW dir \in Dirs
  PROVE  /\ Users(s, dir) \subseteq Listers
         /\ IsFiniteSet(Users(s, dir)) /\ IsFiniteSet(AutoUsers(s, dir))
         /\ Cardinality(AutoUsers(s, dir)) \in Nat
<1>1. Users(s, dir) \subseteq Listers
  BY DEF States, Users
<1>2. AutoUsers(s, dir) \subseteq Listers
  BY <1>1 DEF AutoUsers
<1> QED BY <1>1, <1>2, FiniteAssumption, FS_Subset, FS_CardinalityType

\* The item that nobody uses any more: it is gone or in itemsCached, with the
\* watches it had and one more if it is still up-to-date there.
LEMMA UnusedFacts ==
  ASSUME NEW s \in States, NEW dir \in Dirs, HasDirItem(s, "itemsInUse", dir)
  PROVE  LET t == Unused(s, dir)
             n == s.itemsInUse[dir].autoUpdates
         IN
         /\ t \in States /\ SameUsers(s, t) /\ t.job = s.job
         /\ t.itemsInUse = [s.itemsInUse EXCEPT ![dir] = NoItem]
         /\ \/ t.itemsCached = s.itemsCached
            \/ \E new :
                 /\ t.itemsCached = [s.itemsCached EXCEPT ![dir] = new]
                 /\ new # NoItem
                 /\ new.autoUpdates = IF new.complete THEN n + 1 ELSE n
<1> DEFINE item == s.itemsInUse[dir]
           n == item.autoUpdates
           inUse == [s.itemsInUse EXCEPT ![dir] = NoItem]
           put(m) == [s EXCEPT !.itemsInUse = inUse, !.itemsCached = m]
           cached(new) == [s.itemsCached EXCEPT ![dir] = new]
           Type == [autoUpdates : Nat, complete : BOOLEAN, items : SUBSET Items]
<1>1. s.itemsInUse \in ItemMaps /\ s.itemsCached \in ItemMaps /\ item # NoItem
  BY DEF States, HasDirItem
<1>2. /\ item \in Type
      /\ n \in Nat /\ item.items \in SUBSET Contents[dir]
  <2> DEFINE m == s.itemsInUse
  <2>1. m \in ItemMaps /\ m[dir] # NoItem
    BY <1>1
  <2> HIDE DEF m
  <2>2. /\ m[dir] \in Type
        /\ m[dir].autoUpdates \in Nat /\ m[dir].items \subseteq Contents[dir]
    BY <2>1, ItemType
  <2> QED BY <2>2 DEF m
<1>3. inUse \in ItemMaps
  BY <1>1 DEF ItemMaps
<1>4. ASSUME NEW new \in Type, new.items \subseteq Contents[dir]
      PROVE  cached(new) \in ItemMaps /\ new # NoItem
  <2>1. cached(new) \in ItemMaps
    BY <1>1, <1>4 DEF ItemMaps
  <2>2. new # NoItem
    BY <1>4, NoItemAssumption
  <2> QED BY <2>1, <2>2
<1>5. ASSUME NEW m \in ItemMaps
      PROVE  /\ put(m) \in States /\ SameUsers(s, put(m)) /\ put(m).job = s.job
             /\ put(m).itemsInUse = inUse /\ put(m).itemsCached = m
  <2> HIDE DEF inUse
  <2> QED BY <1>3, <1>5 DEF States, SameUsers
<1>6. CASE ~item.complete
  <2> DEFINE t == Deleted(s, "itemsInUse", dir)
  <2>1. "itemsInUse" \in Places /\ "itemsCached" \in Places \ {"itemsInUse"}
    BY DEF Places
  <2>2. /\ t \in States /\ t["itemsInUse"] = [s["itemsInUse"] EXCEPT ![dir] = NoItem]
        /\ t["itemsCached"] = s["itemsCached"]
        /\ SameUsers(s, t) /\ t.job = s.job
    <3> HIDE DEF t
    <3> QED BY <2>1, DeletedFacts DEF t
  <2>3. Unused(s, dir) = t
    BY <1>6 DEF Unused
  <2> HIDE DEF t
  <2>4. t.itemsInUse = inUse /\ t.itemsCached = s.itemsCached
    BY <2>2 DEF States
  <2> QED BY <2>2, <2>3, <2>4
<1>7. ASSUME NEW new \in Type, new.items \subseteq Contents[dir],
             Unused(s, dir) = put(cached(new)),
             new.autoUpdates = IF new.complete THEN n + 1 ELSE n
      PROVE  LET t == Unused(s, dir) IN
             /\ t \in States /\ SameUsers(s, t) /\ t.job = s.job
             /\ t.itemsInUse = inUse
             /\ \E other :
                  /\ t.itemsCached = [s.itemsCached EXCEPT ![dir] = other]
                  /\ other # NoItem
                  /\ other.autoUpdates = IF other.complete THEN n + 1 ELSE n
  <2> DEFINE m == cached(new)
  <2>1. m \in ItemMaps /\ new # NoItem
    BY <1>4, <1>7
  <2> HIDE DEF m, put, inUse, Type, n
  <2>2. /\ put(m) \in States /\ SameUsers(s, put(m)) /\ put(m).job = s.job
        /\ put(m).itemsInUse = inUse /\ put(m).itemsCached = m
    BY <2>1, <1>5
  <2>3. Unused(s, dir) = put(m)
    BY <1>7 DEF m
  <2> QED BY <1>7, <2>1, <2>2, <2>3 DEF m
<1>8. CASE item.complete
  <2> DEFINE moved == [s EXCEPT !.itemsInUse[dir] = NoItem, !.itemsCached[dir] = item]
  <2>1. moved = put(cached(item))
    <3> HIDE DEF item
    <3> QED BY DEF States
  <2>2. moved.itemsCached[dir] = item /\ dir \in DOMAIN moved.itemsCached
    <3> HIDE DEF item
    <3> QED BY <1>1 DEF States, ItemMaps
  <2>3. ASSUME NEW new
        PROVE  [moved EXCEPT !.itemsCached[dir] = new] = put(cached(new))
    <3> HIDE DEF item, inUse
    <3>1. [[s.itemsCached EXCEPT ![dir] = item] EXCEPT ![dir] = new] = cached(new)
      BY <1>1 DEF ItemMaps
    <3>2. [moved EXCEPT !.itemsCached[dir] = new] =
            [moved EXCEPT !.itemsCached = [moved.itemsCached EXCEPT ![dir] = new]]
      OBVIOUS
    <3>3. moved.itemsCached = [s.itemsCached EXCEPT ![dir] = item]
      BY DEF States
    <3>4. [put(cached(item)) EXCEPT !.itemsCached = cached(new)] = put(cached(new))
      BY DEF States
    <3> QED BY <2>1, <3>1, <3>2, <3>3, <3>4
  <2>4. CASE Does("mounted") /\ ({dir} \union item.items) \cap ManuallyMounted # {}
    <3> DEFINE new == [item EXCEPT !.complete = FALSE]
    <3>1. Unused(s, dir) = [moved EXCEPT !.itemsCached[dir].complete = FALSE]
      BY <1>8, <2>4 DEF Unused
    <3>2. [moved EXCEPT !.itemsCached[dir].complete = FALSE] =
            [moved EXCEPT !.itemsCached[dir] = new]
      <4> HIDE DEF moved, item
      <4> QED BY <2>2
    <3>3. /\ new \in Type /\ new.items \subseteq Contents[dir]
          /\ new.autoUpdates = IF new.complete THEN n + 1 ELSE n
      <4> HIDE DEF item
      <4> QED BY <1>2
    <3>4. Unused(s, dir) = put(cached(new))
      <4> HIDE DEF moved, put, cached, new
      <4> QED BY <2>3, <3>1, <3>2
    <3> HIDE DEF new, put, cached, Type, n, inUse, item
    <3> QED BY <1>7, <3>3, <3>4 DEF n, inUse, item
  <2>5. CASE ~(Does("mounted") /\ ({dir} \union item.items) \cap ManuallyMounted # {})
    <3> DEFINE new == [item EXCEPT !.autoUpdates = n + 1]
    <3>1. Unused(s, dir) = [moved EXCEPT !.itemsCached[dir].autoUpdates = @ + 1]
      BY <1>8, <2>5 DEF Unused, IncAutoUpdate
    <3>2. [moved EXCEPT !.itemsCached[dir].autoUpdates = @ + 1] =
            [moved EXCEPT !.itemsCached[dir] = new]
      <4> HIDE DEF moved, item
      <4> QED BY <2>2
    <3>3. /\ new \in Type /\ new.items \subseteq Contents[dir]
          /\ new.autoUpdates = IF new.complete THEN n + 1 ELSE n
      <4>1. item.complete /\ item \in Type
        BY <1>2, <1>8
      <4> HIDE DEF item
      <4> QED BY <1>2, <4>1
    <3>4. Unused(s, dir) = put(cached(new))
      <4> HIDE DEF moved, put, cached, new
      <4> QED BY <2>3, <3>1, <3>2
    <3> HIDE DEF new, put, cached, Type, n, inUse, item
    <3> QED BY <1>7, <3>3, <3>4 DEF n, inUse, item
  <2> QED BY <2>4, <2>5
<1> QED BY <1>6, <1>8

LEMMA LastForgetsFacts ==
  ASSUME NEW s \in States, NEW l \in Listers, NEW dir \in Dirs,
         NEW notify, HasDirItem(s, "itemsInUse", dir), dir \notin s.lstDirs[l]
  PROVE  LET t == LastForgets(s, l, dir, notify)
             n == s.itemsInUse[dir].autoUpdates
         IN
         /\ t \in States /\ SameUsers(s, t)
         /\ t.job[dir] = NoJob /\ t.itemsInUse[dir] = NoItem
         /\ \A d \in Dirs \ {dir} : /\ t.job[d] = s.job[d]
                                   /\ t.itemsInUse[d] = s.itemsInUse[d]
                                   /\ t.itemsCached[d] = s.itemsCached[d]
         /\ \/ t.itemsCached[dir] = s.itemsCached[dir]
            \/ /\ t.itemsCached[dir] # NoItem
               /\ t.itemsCached[dir].autoUpdates =
                    IF t.itemsCached[dir].complete THEN n + 1 ELSE n
<1> DEFINE gone == JobGone(s, dir)
           killed == IF s.job[dir] = NoJob THEN s ELSE Finished(gone, {l})
           quiet == [killed EXCEPT !.lstDirs[l] = @ \ {dir}, !.shown[l][dir] = {}]
           cleared == IF notify THEN quiet ELSE killed
           t == LastForgets(s, l, dir, notify)
<1>1. /\ killed \in States /\ SameUsers(s, killed) /\ SameItems(s, killed)
      /\ killed.job = [s.job EXCEPT ![dir] = NoJob]
  <2>1. CASE s.job[dir] = NoJob
    <3>1. killed = s
      BY <2>1
    <3>2. s.job = [s.job EXCEPT ![dir] = NoJob]
      BY <2>1 DEF States, JobMaps
    <3> QED BY <3>1, <3>2 DEF SameUsers, SameItems
  <2>2. CASE s.job[dir] # NoJob
    <3>1. /\ gone \in States /\ SameUsers(s, gone) /\ SameItems(s, gone)
          /\ gone.job = [s.job EXCEPT ![dir] = NoJob]
      BY JobGoneFacts
    <3> HIDE DEF gone
    <3>2. Quiet(gone, Finished(gone, {l}))
      BY <3>1, FinishedQuiet
    <3>3. killed = Finished(gone, {l})
      BY <2>2
    <3> HIDE DEF killed
    <3> QED BY <3>1, <3>2, <3>3 DEF Quiet, SameUsers, SameItems
  <2> QED BY <2>1, <2>2
<1> HIDE DEF killed
<1>2. Quiet(killed, quiet)
  <2> DEFINE view == [killed.shown[l] EXCEPT ![dir] = {}]
             shown == [killed.shown EXCEPT ![l] = view]
  <2>1. view \in Views
    BY <1>1 DEF States, Views
  <2>2. shown \in [Listers -> Views]
    <3> HIDE DEF view
    <3> QED BY <1>1, <2>1 DEF States
  <2>3. killed.lstDirs = [killed.lstDirs EXCEPT ![l] = killed.lstDirs[l] \ {dir}]
    <3>1. killed.lstDirs[l] \ {dir} = killed.lstDirs[l]
      BY <1>1 DEF SameUsers
    <3> QED BY <1>1, <3>1 DEF States
  <2>4. quiet = [killed EXCEPT !.shown = shown]
    <3>1. quiet = [killed EXCEPT !.lstDirs = [killed.lstDirs EXCEPT ![l] = killed.lstDirs[l] \ {dir}],
                                 !.shown = shown]
      BY <1>1 DEF States
    <3> HIDE DEF shown
    <3>2. quiet = [killed EXCEPT !.lstDirs = killed.lstDirs, !.shown = shown]
      BY <2>3, <3>1
    <3>3. [killed EXCEPT !.lstDirs = killed.lstDirs, !.shown = shown] =
            [killed EXCEPT !.shown = shown]
      BY <1>1 DEF States
    <3> QED BY <3>2, <3>3
  <2> HIDE DEF shown, quiet
  <2> QED BY <1>1, <2>2, <2>4, ShownOnlyQuiet
<1> HIDE DEF quiet
<1>3. /\ cleared \in States /\ SameUsers(s, cleared) /\ SameItems(s, cleared)
      /\ cleared.job = [s.job EXCEPT ![dir] = NoJob]
  BY <1>1, <1>2 DEF Quiet, SameUsers, SameItems
<1>4. t = Unused(cleared, dir)
  BY DEF LastForgets, killed, quiet
<1> HIDE DEF cleared, t
<1>5. HasDirItem(cleared, "itemsInUse", dir)
  BY <1>3 DEF SameItems, HasDirItem, States
<1> DEFINE n == s.itemsInUse[dir].autoUpdates
<1>6. /\ t \in States /\ SameUsers(cleared, t) /\ t.job = cleared.job
      /\ t.itemsInUse = [cleared.itemsInUse EXCEPT ![dir] = NoItem]
      /\ \/ t.itemsCached = cleared.itemsCached
         \/ \E new :
              /\ t.itemsCached = [cleared.itemsCached EXCEPT ![dir] = new]
              /\ new # NoItem
              /\ new.autoUpdates =
                   IF new.complete THEN cleared.itemsInUse[dir].autoUpdates + 1
                                   ELSE cleared.itemsInUse[dir].autoUpdates
  <2> DEFINE v == Unused(cleared, dir)
  <2>1. /\ v \in States /\ SameUsers(cleared, v) /\ v.job = cleared.job
        /\ v.itemsInUse = [cleared.itemsInUse EXCEPT ![dir] = NoItem]
        /\ \/ v.itemsCached = cleared.itemsCached
           \/ \E new :
                /\ v.itemsCached = [cleared.itemsCached EXCEPT ![dir] = new]
                /\ new # NoItem
                /\ new.autoUpdates =
                     IF new.complete THEN cleared.itemsInUse[dir].autoUpdates + 1
                                     ELSE cleared.itemsInUse[dir].autoUpdates
    <3>1. cleared \in States
      BY <1>3
    <3> QED BY <3>1, <1>5, UnusedFacts, Zenon
  <2> HIDE DEF v
  <2> QED BY <1>4, <2>1 DEF v
<1>7. SameUsers(s, t)
  BY <1>3, <1>6 DEF SameUsers
<1>8. cleared.itemsInUse = s.itemsInUse /\ cleared.itemsCached = s.itemsCached
  BY <1>3 DEF SameItems
<1>9. /\ t.job[dir] = NoJob /\ t.itemsInUse[dir] = NoItem
      /\ \A d \in Dirs \ {dir} : t.job[d] = s.job[d] /\ t.itemsInUse[d] = s.itemsInUse[d]
  BY <1>3, <1>6, <1>8 DEF States, JobMaps, ItemMaps
<1>10. CASE t.itemsCached = cleared.itemsCached
  BY <1>6, <1>7, <1>8, <1>9, <1>10 DEF t
<1>11. ASSUME NEW new, t.itemsCached = [cleared.itemsCached EXCEPT ![dir] = new],
              new # NoItem, new.autoUpdates = IF new.complete THEN n + 1 ELSE n
       PROVE  /\ t.itemsCached[dir] = new
              /\ \A d \in Dirs \ {dir} : t.itemsCached[d] = s.itemsCached[d]
  BY <1>8, <1>11 DEF States, ItemMaps
<1>12. CASE \E new :
              /\ t.itemsCached = [cleared.itemsCached EXCEPT ![dir] = new]
              /\ new # NoItem /\ new.autoUpdates = IF new.complete THEN n + 1 ELSE n
  <2>1. PICK new : /\ t.itemsCached = [cleared.itemsCached EXCEPT ![dir] = new]
                   /\ new # NoItem
                   /\ new.autoUpdates = IF new.complete THEN n + 1 ELSE n
    BY <1>12
  <2>2. /\ t.itemsCached[dir] = new
        /\ \A d \in Dirs \ {dir} : t.itemsCached[d] = s.itemsCached[d]
    BY <1>11, <2>1
  <2> QED BY <1>6, <1>7, <1>9, <2>1, <2>2 DEF t
<1> QED BY <1>6, <1>8, <1>10, <1>12

\* One less updates automatically.
LEMMA OneLess ==
  ASSUME NEW A, IsFiniteSet(A), NEW l
  PROVE  Cardinality(A \ {l}) = IF l \in A THEN Cardinality(A) - 1 ELSE Cardinality(A)
<1>1. CASE l \in A
  BY <1>1, FS_RemoveElement
<1>2. CASE l \notin A
  <2>1. A \ {l} = A
    BY <1>2
  <2> QED BY <1>2, <2>1
<1> QED BY <1>1, <1>2

LEMMA OneMore ==
  ASSUME NEW A, IsFiniteSet(A), NEW l, l \notin A
  PROVE  Cardinality(A \union {l}) = Cardinality(A) + 1
BY FS_AddElement

\* Nothing else of a directory may differ.
SameDir(s, t, d) ==
  /\ t.itemsInUse[d] = s.itemsInUse[d] /\ t.itemsCached[d] = s.itemsCached[d]
  /\ t.listersCurrentlyHolding[d] = s.listersCurrentlyHolding[d]
  /\ t.listersCurrentlyListing[d] = s.listersCurrentlyListing[d]
  /\ t.job[d] = s.job[d]

LEMMA ForgetDirFacts ==
  ASSUME NEW s \in States, NEW l \in Listers, NEW dir \in Dirs,
         NEW notify, dir \notin s.lstDirs[l], DirOK(s, dir)
  PROVE  LET t == ForgetDir(s, l, dir, notify) IN
         /\ t \in States /\ SameButHolding(s, t)
         /\ t.listersCurrentlyHolding[dir] = s.listersCurrentlyHolding[dir] \ {l}
         /\ \A d \in Dirs \ {dir} : SameDir(s, t, d)
         /\ DirOK(t, dir)
         /\ CountOK(s, dir) /\ l \in s.listersCurrentlyHolding[dir] => CountOK(t, dir)
<1> DEFINE v == [s EXCEPT !.listersCurrentlyHolding[dir] = @ \ {l},
                          !.jobData[l] = IF s.job[dir] = NoJob THEN @ ELSE @ \ {dir}]
           u == IF Users(v, dir) = {} THEN LastForgets(v, l, dir, notify) ELSE v
           where == IF HasDirItem(u, "itemsInUse", dir) THEN "itemsInUse"
                                                        ELSE "itemsCached"
           t == ForgetDir(s, l, dir, notify)
           n == s.itemsInUse[dir].autoUpdates
           A == AutoUsers(s, dir)
<1>1. t = IF Users(s, dir) = {} THEN s
          ELSE IF u.autoUpdate[l] /\ HasDirItem(u, where, dir)
            THEN DecAutoUpdate(u, where, dir) ELSE u
  BY DEF ForgetDir
<1>2. CASE Users(s, dir) = {}
  <2>1. t = s
    BY <1>1, <1>2
  <2>2. l \notin s.listersCurrentlyHolding[dir]
    BY <1>2 DEF Users
  <2> HIDE DEF t
  <2> QED BY <2>1, <2>2 DEF SameButHolding, SameDir, t
<1>3. CASE Users(s, dir) # {}
  <2>1. /\ v \in States /\ SameButHolding(s, v) /\ SameItems(s, v) /\ v.job = s.job
        /\ v.listersCurrentlyHolding =
             [s.listersCurrentlyHolding EXCEPT ![dir] = s.listersCurrentlyHolding[dir] \ {l}]
    <3> DEFINE data == [s.jobData EXCEPT ![l] = IF s.job[dir] = NoJob THEN s.jobData[l]
                                                ELSE s.jobData[l] \ {dir}]
    <3>1. data \in [Listers -> SUBSET (Dirs \union {Ended})]
      BY DEF States
    <3>2. v = [s EXCEPT !.listersCurrentlyHolding[dir] = s.listersCurrentlyHolding[dir] \ {l},
                        !.jobData = data]
      BY DEF States
    <3> HIDE DEF data, v
    <3> QED BY <3>1, <3>2 DEF States, SameButHolding, SameItems
  <2> HIDE DEF v
  <2>2. /\ HasDirItem(s, "itemsInUse", dir) /\ ~HasDirItem(s, "itemsCached", dir)
        /\ s.listersCurrentlyListing[dir] \cap s.listersCurrentlyHolding[dir] = {}
    BY <1>3 DEF DirOK
  <2>3. /\ HasDirItem(v, "itemsInUse", dir) /\ ~HasDirItem(v, "itemsCached", dir)
        /\ v.itemsInUse = s.itemsInUse /\ v.itemsCached = s.itemsCached
        /\ n \in Nat
    <3>1. /\ v.itemsInUse = s.itemsInUse /\ v.itemsCached = s.itemsCached
          /\ s.itemsInUse[dir] # NoItem /\ s.itemsCached[dir] = NoItem
          /\ v["itemsInUse"] = v.itemsInUse /\ v["itemsCached"] = v.itemsCached
      BY <2>1, <2>2 DEF SameItems, HasDirItem, States
    <3>2. n \in Nat
      <4> DEFINE m == s.itemsInUse
      <4>1. m \in ItemMaps /\ m[dir] # NoItem
        BY <3>1 DEF States
      <4> HIDE DEF m
      <4>2. m[dir].autoUpdates \in Nat
        BY <4>1, ItemType
      <4> QED BY <4>2 DEF m
    <3> QED BY <3>1, <3>2 DEF HasDirItem
  <2>4. /\ v.listersCurrentlyListing = s.listersCurrentlyListing
        /\ Users(v, dir) = s.listersCurrentlyListing[dir] \union
                             (s.listersCurrentlyHolding[dir] \ {l})
        /\ v.listersCurrentlyHolding[dir] = s.listersCurrentlyHolding[dir] \ {l}
        /\ \A d \in Dirs \ {dir} :
             v.listersCurrentlyHolding[d] = s.listersCurrentlyHolding[d]
        /\ v.autoUpdate = s.autoUpdate
    BY <2>1 DEF Users, SameButHolding, States
  <2>5. ASSUME l \in s.listersCurrentlyHolding[dir]
        PROVE  /\ Users(v, dir) = Users(s, dir) \ {l} /\ l \in Users(s, dir)
               /\ AutoUsers(v, dir) = A \ {l}
               /\ l \in A <=> s.autoUpdate[l]
    <3>1. Users(v, dir) = Users(s, dir) \ {l} /\ l \in Users(s, dir)
      BY <2>2, <2>4, <2>5 DEF Users
    <3> QED BY <2>4, <3>1 DEF AutoUsers
  <2>6. /\ IsFiniteSet(A) /\ Cardinality(A) \in Nat
        /\ Cardinality(A \ {l}) \in Nat
        /\ Cardinality(A \ {l}) = IF l \in A THEN Cardinality(A) - 1 ELSE Cardinality(A)
    <3>1. IsFiniteSet(A) /\ Cardinality(A) \in Nat
      BY UsersFinite
    <3> HIDE DEF A
    <3>2. Cardinality(A \ {l}) \in Nat
      BY <3>1, FS_Subset, FS_CardinalityType
    <3> QED BY <3>1, <3>2, OneLess
  <2>7. CASE Users(v, dir) # {}
    <3>1. u = v /\ where = "itemsInUse" /\ HasDirItem(v, where, dir)
      BY <2>3, <2>7
    <3> DEFINE w == DecAutoUpdate(v, "itemsInUse", dir)
    <3>2. t = IF v.autoUpdate[l] THEN w ELSE v
      BY <1>1, <1>3, <2>3, <3>1
    <3>3. /\ w \in States /\ SameUsers(v, w) /\ w.job = v.job
          /\ w.itemsCached = v.itemsCached
          /\ \A d \in Dirs \ {dir} : w.itemsInUse[d] = v.itemsInUse[d]
          /\ w.itemsInUse[dir] # NoItem
          /\ w.itemsInUse[dir].autoUpdates = IF n = 0 THEN 0 ELSE n - 1
      <4>1. "itemsInUse" \in Places /\ "itemsCached" \in Places \ {"itemsInUse"}
        BY DEF Places
      <4>2. /\ w \in States /\ SameUsers(v, w) /\ w.job = v.job
            /\ w["itemsCached"] = v["itemsCached"]
            /\ \A d \in Dirs \ {dir} : w["itemsInUse"][d] = v["itemsInUse"][d]
            /\ HasDirItem(w, "itemsInUse", dir)
            /\ w["itemsInUse"][dir].autoUpdates =
                 IF v["itemsInUse"][dir].autoUpdates = 0 THEN 0
                 ELSE v["itemsInUse"][dir].autoUpdates - 1
        <5> HIDE DEF w
        <5> QED BY <2>1, <2>3, <4>1, DecAt DEF w
      <4> HIDE DEF w
      <4>3. /\ w["itemsInUse"] = w.itemsInUse /\ w["itemsCached"] = w.itemsCached
            /\ v["itemsInUse"] = v.itemsInUse /\ v["itemsCached"] = v.itemsCached
        BY <2>1, <4>2 DEF States
      <4> QED BY <2>3, <4>2, <4>3 DEF HasDirItem
    <3> HIDE DEF w, t, A, n
    <3>4. /\ t \in States /\ SameUsers(v, t) /\ t.job = s.job
          /\ t.itemsCached = s.itemsCached
          /\ \A d \in Dirs \ {dir} : t.itemsInUse[d] = s.itemsInUse[d]
          /\ t.itemsInUse[dir] # NoItem
          /\ t.itemsInUse[dir].autoUpdates =
               IF s.autoUpdate[l] THEN (IF n = 0 THEN 0 ELSE n - 1) ELSE n
      <4>1. CASE v.autoUpdate[l]
        BY <2>1, <2>3, <2>4, <3>2, <3>3, <4>1
      <4>2. CASE ~v.autoUpdate[l]
        BY <2>1, <2>3, <2>4, <3>2, <4>2 DEF SameUsers, HasDirItem, States, n
      <4> QED BY <4>1, <4>2
    <3>5. Users(t, dir) = Users(v, dir) /\ AutoUsers(t, dir) = AutoUsers(v, dir)
      BY <3>4 DEF SameUsers, Users, AutoUsers
    <3>6. SameButHolding(s, t)
      BY <2>1, <3>4 DEF SameButHolding, SameUsers
    <3>7. t.listersCurrentlyHolding[dir] = s.listersCurrentlyHolding[dir] \ {l}
      BY <2>4, <3>4 DEF SameUsers
    <3>8. \A d \in Dirs \ {dir} : SameDir(s, t, d)
      BY <2>4, <3>4 DEF SameUsers, SameDir
    <3>9. DirOK(t, dir)
      <4>1. t["itemsInUse"] = t.itemsInUse /\ t["itemsCached"] = t.itemsCached
        BY <3>4 DEF States
      <4>2. s["itemsInUse"] = s.itemsInUse /\ s["itemsCached"] = s.itemsCached
        BY DEF States
      <4> QED BY <2>2, <2>4, <2>7, <3>4, <3>5, <3>7, <4>1, <4>2
          DEF DirOK, HasDirItem, SameUsers
    <3>10. CountOK(s, dir) /\ l \in s.listersCurrentlyHolding[dir] => CountOK(t, dir)
      <4>1. SUFFICES ASSUME CountOK(s, dir), l \in s.listersCurrentlyHolding[dir]
                     PROVE  CountOK(t, dir)
        OBVIOUS
      <4>2. n = Cardinality(A)
        BY <2>2, <4>1 DEF CountOK, A, n
      <4>3. ~HasDirItem(t, "itemsCached", dir)
        BY <2>2, <3>4 DEF HasDirItem, States
      <4>4. t.itemsInUse[dir].autoUpdates = Cardinality(AutoUsers(t, dir))
        <5>1. Cardinality(AutoUsers(t, dir)) = Cardinality(A \ {l})
          BY <2>5, <3>5, <4>1
        <5>2. CASE l \in A
          <6>1. Cardinality(A \ {l}) = n - 1 /\ n # 0
            BY <2>6, <4>2, <5>2
          <6>2. t.itemsInUse[dir].autoUpdates = n - 1
            BY <2>5, <3>4, <4>1, <5>2, <6>1
          <6> QED BY <5>1, <6>1, <6>2
        <5>3. CASE l \notin A
          BY <2>5, <2>6, <3>4, <4>1, <4>2, <5>1, <5>3
        <5> QED BY <5>2, <5>3
      <4> QED BY <4>3, <4>4 DEF CountOK
    <3> QED BY <3>4, <3>6, <3>7, <3>8, <3>9, <3>10 DEF t
  <2>8. CASE Users(v, dir) = {}
    <3> DEFINE w == LastForgets(v, l, dir, notify)
               x == DecAutoUpdate(w, "itemsCached", dir)
    <3>1. u = w
      BY <2>8
    <3>2. dir \notin v.lstDirs[l]
      BY <2>1 DEF SameButHolding
    <3>3. /\ w \in States /\ SameUsers(v, w)
          /\ w.job[dir] = NoJob /\ w.itemsInUse[dir] = NoItem
          /\ \A d \in Dirs \ {dir} : /\ w.job[d] = s.job[d]
                                    /\ w.itemsInUse[d] = s.itemsInUse[d]
                                    /\ w.itemsCached[d] = s.itemsCached[d]
          /\ \/ w.itemsCached[dir] = s.itemsCached[dir]
             \/ /\ w.itemsCached[dir] # NoItem
                /\ w.itemsCached[dir].autoUpdates =
                     IF w.itemsCached[dir].complete THEN n + 1 ELSE n
      <4>1. v \in States
        BY <2>1
      <4>2. HasDirItem(v, "itemsInUse", dir)
        BY <2>3
      <4>3. /\ w \in States /\ SameUsers(v, w)
            /\ w.job[dir] = NoJob /\ w.itemsInUse[dir] = NoItem
            /\ \A d \in Dirs \ {dir} : /\ w.job[d] = v.job[d]
                                      /\ w.itemsInUse[d] = v.itemsInUse[d]
                                      /\ w.itemsCached[d] = v.itemsCached[d]
            /\ \/ w.itemsCached[dir] = v.itemsCached[dir]
               \/ /\ w.itemsCached[dir] # NoItem
                  /\ w.itemsCached[dir].autoUpdates =
                       IF w.itemsCached[dir].complete
                         THEN v.itemsInUse[dir].autoUpdates + 1
                         ELSE v.itemsInUse[dir].autoUpdates
        BY <3>2, <4>1, <4>2, LastForgetsFacts
      <4> HIDE DEF w
      <4> QED BY <2>1, <2>3, <4>3
    <3> HIDE DEF w
    <3>4. /\ w["itemsInUse"] = w.itemsInUse /\ w["itemsCached"] = w.itemsCached
          /\ s["itemsInUse"] = s.itemsInUse /\ s["itemsCached"] = s.itemsCached
      BY <3>3 DEF States
    <3>5. ~HasDirItem(w, "itemsInUse", dir)
      BY <3>3, <3>4 DEF HasDirItem, States, ItemMaps
    <3>6. where = "itemsCached"
      BY <3>1, <3>5
    <3>7. t = IF w.autoUpdate[l] /\ HasDirItem(w, "itemsCached", dir) THEN x ELSE w
      <4> HIDE DEF where, u, x
      <4> QED BY <1>1, <1>3, <3>1, <3>6 DEF x
    <3>8. Users(w, dir) = {} /\ w.autoUpdate = s.autoUpdate
      BY <2>4, <2>8, <3>3 DEF SameUsers, Users
    <3>9. s.itemsCached[dir] = NoItem
      BY <2>2, <3>4 DEF HasDirItem
    <3> HIDE DEF t
    <3>10. CASE w.itemsCached[dir] = s.itemsCached[dir]
      <4>1. ~HasDirItem(w, "itemsCached", dir)
        BY <3>4, <3>9, <3>10 DEF HasDirItem
      <4>2. t = w
        BY <3>7, <4>1
      <4>3. SameButHolding(s, w)
        BY <2>1, <3>3 DEF SameButHolding, SameUsers
      <4>4. w.listersCurrentlyHolding[dir] = s.listersCurrentlyHolding[dir] \ {l}
        BY <2>4, <3>3 DEF SameUsers
      <4>5. \A d \in Dirs \ {dir} : SameDir(s, w, d)
        BY <2>4, <3>3, <3>10 DEF SameUsers, SameDir
      <4>6. w.job[dir] = NoJob
        BY <3>3 DEF States, JobMaps
      <4>7. DirOK(w, dir) /\ CountOK(w, dir)
        BY <3>5, <3>8, <4>1, <4>6 DEF DirOK, CountOK, Users
      <4> QED BY <3>3, <4>2, <4>3, <4>4, <4>5, <4>7 DEF t
    <3> DEFINE new == w.itemsCached[dir]
    <3>11. ASSUME new # NoItem, new.autoUpdates = IF new.complete THEN n + 1 ELSE n
           PROVE  /\ t \in States /\ SameUsers(w, t) /\ t.job = w.job
                  /\ t.itemsInUse = w.itemsInUse
                  /\ \A d \in Dirs \ {dir} : t.itemsCached[d] = s.itemsCached[d]
                  /\ t.itemsCached[dir] # NoItem
                  /\ t.itemsCached[dir].complete = new.complete
                  /\ t.itemsCached[dir].autoUpdates =
                       IF w.autoUpdate[l]
                         THEN (IF new.autoUpdates = 0 THEN 0 ELSE new.autoUpdates - 1)
                         ELSE new.autoUpdates
      <4>2. HasDirItem(w, "itemsCached", dir)
        BY <3>4, <3>11 DEF HasDirItem
      <4>3. CASE ~w.autoUpdate[l]
        <5>1. t = w
          BY <3>7, <4>3
        <5>2. SameUsers(w, w)
          BY DEF SameUsers
        <5> QED BY <3>3, <3>11, <4>3, <5>1, <5>2
      <4>4. CASE w.autoUpdate[l]
        <5>1. t = x
          BY <3>7, <4>2, <4>4
        <5>2. "itemsCached" \in Places /\ "itemsInUse" \in Places \ {"itemsCached"}
          BY DEF Places
        <5>3. /\ x \in States /\ SameUsers(w, x) /\ x.job = w.job
              /\ x["itemsInUse"] = w["itemsInUse"]
              /\ \A d \in Dirs \ {dir} : x["itemsCached"][d] = w["itemsCached"][d]
              /\ HasDirItem(x, "itemsCached", dir)
              /\ x["itemsCached"][dir].complete = w["itemsCached"][dir].complete
              /\ x["itemsCached"][dir].autoUpdates =
                   IF w["itemsCached"][dir].autoUpdates = 0 THEN 0
                   ELSE w["itemsCached"][dir].autoUpdates - 1
          <6> HIDE DEF x
          <6> QED BY <3>3, <4>2, <5>2, DecAt DEF x
        <5> HIDE DEF x
        <5>4. x["itemsInUse"] = x.itemsInUse /\ x["itemsCached"] = x.itemsCached
          BY <5>3 DEF States
        <5> QED BY <3>3, <3>4, <4>4, <5>1, <5>3, <5>4 DEF HasDirItem
      <4> QED BY <4>3, <4>4
    <3>12. ASSUME new # NoItem, new.autoUpdates = IF new.complete THEN n + 1 ELSE n
           PROVE  /\ t \in States /\ SameButHolding(s, t)
                  /\ t.listersCurrentlyHolding[dir] = s.listersCurrentlyHolding[dir] \ {l}
                  /\ \A d \in Dirs \ {dir} : SameDir(s, t, d)
                  /\ DirOK(t, dir)
                  /\ CountOK(s, dir) /\ l \in s.listersCurrentlyHolding[dir]
                       => CountOK(t, dir)
      <4> HIDE DEF n, A, new
      <4>1. /\ t \in States /\ SameUsers(w, t) /\ t.job = w.job
            /\ t.itemsInUse = w.itemsInUse
            /\ \A d \in Dirs \ {dir} : t.itemsCached[d] = s.itemsCached[d]
            /\ t.itemsCached[dir] # NoItem
            /\ t.itemsCached[dir].complete = new.complete
            /\ t.itemsCached[dir].autoUpdates =
                 IF w.autoUpdate[l]
                   THEN (IF new.autoUpdates = 0 THEN 0 ELSE new.autoUpdates - 1)
                   ELSE new.autoUpdates
        BY <3>11, <3>12
      <4>2. t["itemsInUse"] = t.itemsInUse /\ t["itemsCached"] = t.itemsCached
        BY <4>1 DEF States
      <4>3. SameButHolding(s, t)
        BY <2>1, <3>3, <4>1 DEF SameButHolding, SameUsers
      <4>4. t.listersCurrentlyHolding[dir] = s.listersCurrentlyHolding[dir] \ {l}
        BY <2>4, <3>3, <4>1 DEF SameUsers
      <4>5. \A d \in Dirs \ {dir} : SameDir(s, t, d)
        BY <2>4, <3>3, <4>1 DEF SameUsers, SameDir
      <4>6. t.job[dir] = NoJob /\ Users(t, dir) = {}
        BY <3>3, <3>8, <4>1 DEF States, JobMaps, SameUsers, Users
      <4>7. t.itemsInUse[dir] = NoItem
        BY <3>3, <4>1 DEF States, ItemMaps
      <4>8. DirOK(t, dir)
        BY <4>1, <4>2, <4>6, <4>7 DEF DirOK, Users, HasDirItem
      <4>9. ASSUME CountOK(s, dir), l \in s.listersCurrentlyHolding[dir]
            PROVE  CountOK(t, dir)
        <5>1. n = Cardinality(A)
          BY <2>2, <4>9 DEF CountOK, A, n
        <5>2. A \ {l} = {}
          <6>1. A \subseteq Users(s, dir)
            BY DEF A, AutoUsers
          <6> QED BY <2>5, <2>8, <4>9, <6>1
        <5>3. Cardinality(A \ {l}) = 0
          BY <5>2, FS_EmptySet
        <5>4. n = IF s.autoUpdate[l] THEN 1 ELSE 0
          BY <2>5, <2>6, <4>9, <5>1, <5>3
        <5>5. t.itemsCached[dir].autoUpdates = IF new.complete THEN 1 ELSE 0
          BY <3>8, <3>12, <4>1, <5>4
        <5> QED BY <4>1, <4>2, <4>7, <5>5 DEF CountOK, HasDirItem
      <4> QED BY <4>1, <4>3, <4>4, <4>5, <4>8, <4>9
    <3> QED BY <3>3, <3>10, <3>12 DEF t
  <2> QED BY <2>7, <2>8
<1> QED BY <1>2, <1>3

\* The two ways to write a field.
LEMMA Fields ==
  ASSUME NEW s \in States
  PROVE  /\ s["itemsInUse"] = s.itemsInUse /\ s["itemsCached"] = s.itemsCached
         /\ \A dir : /\ HasDirItem(s, "itemsInUse", dir) <=> s.itemsInUse[dir] # NoItem
                     /\ HasDirItem(s, "itemsCached", dir) <=> s.itemsCached[dir] # NoItem
BY DEF States, HasDirItem

LEMMA SameDirOK ==
  ASSUME NEW s \in States, NEW t \in States, NEW d, SameDir(s, t, d)
  PROVE  /\ Users(t, d) = Users(s, d)
         /\ DirOK(s, d) => DirOK(t, d)
         /\ CountOK(s, d) /\ t.autoUpdate = s.autoUpdate => CountOK(t, d)
<1>1. Users(t, d) = Users(s, d)
  BY DEF SameDir, Users
<1>2. DirOK(s, d) => DirOK(t, d)
  BY <1>1, Fields DEF SameDir, DirOK
<1>3. ASSUME CountOK(s, d), t.autoUpdate = s.autoUpdate PROVE CountOK(t, d)
  <2>1. AutoUsers(t, d) = AutoUsers(s, d)
    BY <1>1, <1>3 DEF AutoUsers
  <2> QED BY <1>3, <2>1, Fields DEF SameDir, CountOK
<1> QED BY <1>1, <1>2, <1>3

ForgetOp(l, dir, t) == ForgetDir(t, l, dir, FALSE)

\* l has forgotten the directories D; q is the state before and l.
Forgotten(q, D, t) ==
  /\ t \in States /\ SameButHolding(q[1], t)
  /\ \A d \in Dirs : DirOK(t, d)
  /\ \A d \in D :
       /\ t.listersCurrentlyHolding[d] = q[1].listersCurrentlyHolding[d] \ {q[2]}
       /\ CountOK(q[1], d) /\ q[2] \in q[1].listersCurrentlyHolding[d] => CountOK(t, d)
  /\ \A d \in Dirs \ D : SameDir(q[1], t, d)

\* What FoldLemmas asks of the sets that are gone through.
LEMMA FiniteGrounded ==
  ASSUME NEW S, IsFiniteSet(S)
  PROVE  \A Bad \in SUBSET SUBSET S :
           Bad # {} => \E U \in Bad : \A x \in U : U \ {x} \notin Bad
<1>1. SUFFICES ASSUME NEW Bad \in SUBSET SUBSET S, Bad # {}
               PROVE  \E U \in Bad : \A x \in U : U \ {x} \notin Bad
  OBVIOUS
<1>2. Bad \subseteq FiniteSubsetsOf(S)
  BY <1>1, FS_FiniteSubsetsOfFinite
<1>3. PICK U \in Bad : \A V \in Bad : <<V, U>> \notin StrictSubsetOrdering(S)
  BY <1>1, <1>2, FS_StrictSubsetOrderingWellFounded, WFMin, Zenon
<1>4. ASSUME NEW x \in U PROVE U \ {x} \notin Bad
  <2>1. <<U \ {x}, U>> \in (SUBSET S) \X (SUBSET S)
    BY <1>1
  <2>2. U \ {x} \subseteq U /\ U \ {x} # U
    OBVIOUS
  <2>3. <<U \ {x}, U>> \in StrictSubsetOrdering(S)
    BY <2>1, <2>2 DEF StrictSubsetOrdering
  <2> QED BY <1>3, <2>3
<1> QED BY <1>4

Forget == INSTANCE FoldLemmas WITH Op <- ForgetOp, Inv <- Forgotten

LEMMA ForgetAllIs ==
  ASSUME NEW s, NEW l
  PROVE  ForgetAll(s, l) =
           Forget!Fold(l, ClearAll([s EXCEPT !.lstDirs[l] = {}], l), s.lstDirs[l])
BY DEF ForgetAll, ForgetOp, Forget!Fold, Forget!MapThenFoldSet,
       FoldSet, MapThenFoldSet

LEMMA ForgetOne ==
  ASSUME NEW b \in States, NEW l \in Listers, NEW S \in SUBSET Dirs,
         b.lstDirs[l] = {}, NEW D \in SUBSET S, NEW x \in S \ D, NEW t,
         Forgotten(<<b, l>>, D, t)
  PROVE  Forgotten(<<b, l>>, D \union {x}, ForgetOp(l, x, t))
<1> DEFINE u == ForgetDir(t, l, x, FALSE)
<1>1. /\ t \in States /\ SameButHolding(b, t)
      /\ \A d \in Dirs : DirOK(t, d)
      /\ \A d \in D :
           /\ t.listersCurrentlyHolding[d] = b.listersCurrentlyHolding[d] \ {l}
           /\ CountOK(b, d) /\ l \in b.listersCurrentlyHolding[d] => CountOK(t, d)
      /\ \A d \in Dirs \ D : SameDir(b, t, d)
  BY DEF Forgotten
<1>2. x \in Dirs /\ x \notin D
  OBVIOUS
<1>3. x \notin t.lstDirs[l] /\ DirOK(t, x)
  BY <1>1, <1>2 DEF SameButHolding
<1>4. /\ u \in States /\ SameButHolding(t, u)
      /\ u.listersCurrentlyHolding[x] = t.listersCurrentlyHolding[x] \ {l}
      /\ \A d \in Dirs \ {x} : SameDir(t, u, d)
      /\ DirOK(u, x)
      /\ CountOK(t, x) /\ l \in t.listersCurrentlyHolding[x] => CountOK(u, x)
  <2>1. t \in States
    BY <1>1
  <2> QED BY <1>2, <1>3, <2>1, ForgetDirFacts
<1> HIDE DEF u
<1>5. SameButHolding(b, u)
  BY <1>1, <1>4 DEF SameButHolding
<1>6. b.autoUpdate = t.autoUpdate /\ u.autoUpdate = t.autoUpdate
  BY <1>1, <1>4 DEF SameButHolding
<1>7. ASSUME NEW d \in Dirs \ {x}
      PROVE  /\ SameDir(t, u, d) /\ DirOK(u, d)
             /\ CountOK(t, d) => CountOK(u, d)
  BY <1>1, <1>4, <1>6, SameDirOK
<1>8. \A d \in Dirs : DirOK(u, d)
  BY <1>4, <1>7
<1>9. SameDir(b, t, x) /\ (CountOK(b, x) => CountOK(t, x))
  BY <1>1, <1>2, <1>6, SameDirOK
<1>10. ASSUME NEW d \in D \union {x}
       PROVE  /\ u.listersCurrentlyHolding[d] = b.listersCurrentlyHolding[d] \ {l}
              /\ CountOK(b, d) /\ l \in b.listersCurrentlyHolding[d] => CountOK(u, d)
  <2>1. CASE d = x
    BY <1>4, <1>9, <2>1 DEF SameDir
  <2>2. CASE d # x
    <3>1. d \in D /\ d \in Dirs \ {x}
      BY <2>2
    <3> QED BY <1>1, <1>7, <3>1 DEF SameDir
  <2> QED BY <2>1, <2>2
<1>11. ASSUME NEW d \in Dirs \ (D \union {x})
       PROVE  SameDir(b, u, d)
  <2>1. SameDir(b, t, d) /\ SameDir(t, u, d)
    BY <1>1, <1>7
  <2> QED BY <2>1 DEF SameDir
<1>12. Forgotten(<<b, l>>, D \union {x}, u)
  BY <1>4, <1>5, <1>8, <1>10, <1>11 DEF Forgotten
<1> QED BY <1>12 DEF u, ForgetOp

LEMMA ForgetAllFacts ==
  ASSUME NEW s \in States, NEW l \in Listers, \A d \in Dirs : DirOK(s, d)
  PROVE  LET t == ForgetAll(s, l) IN
         /\ t \in States
         /\ t.listersCurrentlyListing = s.listersCurrentlyListing
         /\ t.url = s.url /\ t.autoUpdate = s.autoUpdate
         /\ t.cachedItemsJob = s.cachedItemsJob
         /\ t.lstDirs[l] = {} /\ \A k \in Listers \ {l} : t.lstDirs[k] = s.lstDirs[k]
         /\ \A d \in Dirs :
              /\ DirOK(t, d)
              /\ d \notin s.lstDirs[l] => SameDir(s, t, d)
              /\ d \in s.lstDirs[l] =>
                   t.listersCurrentlyHolding[d] = s.listersCurrentlyHolding[d] \ {l}
              /\ CountOK(s, d) /\ (d \in s.lstDirs[l] => l \in s.listersCurrentlyHolding[d])
                   => CountOK(t, d)
<1> DEFINE e == [s EXCEPT !.lstDirs[l] = {}]
           b == ClearAll(e, l)
           t == ForgetAll(s, l)
           S == s.lstDirs[l]
<1>1. /\ e \in States /\ SameItems(s, e) /\ e.job = s.job
      /\ e.listersCurrentlyListing = s.listersCurrentlyListing
      /\ e.listersCurrentlyHolding = s.listersCurrentlyHolding
      /\ e.url = s.url /\ e.autoUpdate = s.autoUpdate
      /\ e.cachedItemsJob = s.cachedItemsJob
      /\ e.lstDirs[l] = {} /\ \A k \in Listers \ {l} : e.lstDirs[k] = s.lstDirs[k]
  BY DEF States, SameItems
<1> HIDE DEF e
<1>2. Quiet(e, b)
  BY <1>1, ClearAllQuiet
<1> HIDE DEF b
<1>3. /\ b \in States /\ SameItems(s, b) /\ b.job = s.job
      /\ b.listersCurrentlyListing = s.listersCurrentlyListing
      /\ b.listersCurrentlyHolding = s.listersCurrentlyHolding
      /\ b.url = s.url /\ b.autoUpdate = s.autoUpdate
      /\ b.cachedItemsJob = s.cachedItemsJob
      /\ b.lstDirs[l] = {} /\ \A k \in Listers \ {l} : b.lstDirs[k] = s.lstDirs[k]
  BY <1>1, <1>2 DEF Quiet, SameUsers, SameItems
<1>4. \A d \in Dirs : SameDir(s, b, d)
  BY <1>3 DEF SameDir, SameItems
<1>5. \A d \in Dirs : DirOK(b, d) /\ (CountOK(s, d) => CountOK(b, d))
  BY <1>3, <1>4, SameDirOK
<1>6. S \in SUBSET Dirs /\ IsFiniteSet(S)
  BY FiniteAssumption, FS_Subset DEF States
<1>7. Forgotten(<<b, l>>, {}, b)
  BY <1>3, <1>5 DEF Forgotten, SameButHolding, SameDir
<1>8. Forgotten(<<b, l>>, S, Forget!Fold(l, b, S))
  <2> HIDE DEF S
  <2>1. \A D \in SUBSET S : \A x \in S \ D : \A v :
          Forgotten(<<b, l>>, D, v) => Forgotten(<<b, l>>, D \union {x}, ForgetOp(l, x, v))
    BY <1>3, <1>6, ForgetOne
  <2> QED BY <1>6, <1>7, <2>1, Forget!FoldKeeps, FiniteGrounded, Zenon DEF Forget!Grounded
<1>9. t = Forget!Fold(l, b, S)
  BY ForgetAllIs DEF b, e
<1>10. Forgotten(<<b, l>>, S, t)
  BY <1>8, <1>9
<1> HIDE DEF t
<1>11. /\ t \in States /\ SameButHolding(b, t)
       /\ \A d \in Dirs : DirOK(t, d)
       /\ \A d \in S :
            /\ t.listersCurrentlyHolding[d] = b.listersCurrentlyHolding[d] \ {l}
            /\ CountOK(b, d) /\ l \in b.listersCurrentlyHolding[d] => CountOK(t, d)
       /\ \A d \in Dirs \ S : SameDir(b, t, d)
  <2> HIDE DEF S
  <2> QED BY <1>10 DEF Forgotten
<1>12. /\ t.listersCurrentlyListing = s.listersCurrentlyListing
       /\ t.url = s.url /\ t.autoUpdate = s.autoUpdate
       /\ t.cachedItemsJob = s.cachedItemsJob
       /\ t.lstDirs[l] = {} /\ \A k \in Listers \ {l} : t.lstDirs[k] = s.lstDirs[k]
  BY <1>3, <1>11 DEF SameButHolding
<1>13. ASSUME NEW d \in Dirs
       PROVE  /\ d \notin S => SameDir(s, t, d)
              /\ d \in S => t.listersCurrentlyHolding[d] = s.listersCurrentlyHolding[d] \ {l}
              /\ CountOK(s, d) /\ (d \in S => l \in s.listersCurrentlyHolding[d])
                   => CountOK(t, d)
  <2> HIDE DEF S
  <2>1. CASE d \in S
    BY <1>3, <1>5, <1>11, <2>1
  <2>2. CASE d \notin S
    <3>1. SameDir(b, t, d) /\ SameDir(s, b, d)
      BY <1>4, <1>11, <2>2
    <3>2. SameDir(s, t, d)
      BY <3>1 DEF SameDir
    <3>3. CountOK(s, d) => CountOK(t, d)
      BY <1>11, <1>12, <3>2, SameDirOK
    <3> QED BY <2>2, <3>2, <3>3
  <2> QED BY <2>1, <2>2
<1> QED BY <1>11, <1>12, <1>13 DEF t

-----------------------------------------------------------------------------
(* What is below a directory *)

\* What is in every set that has dir and with a directory those in it.
Reached(dir) ==
  {x \in Dirs : \A S \in SUBSET Dirs :
     dir \in S /\ (\A p \in S : Contents[p] \cap Dirs \subseteq S) => x \in S}

LEMMA ReachedStep ==
  ASSUME NEW dir \in Dirs
  PROVE  Reached(dir) =
           {dir} \union UNION {Reached(sub) : sub \in Contents[dir] \cap Dirs}
<1> DEFINE R == {dir} \union UNION {Reached(sub) : sub \in Contents[dir] \cap Dirs}
<1>1. R \subseteq Dirs
  BY DEF Reached
<1>2. ASSUME NEW p \in Dirs PROVE p \in Reached(p)
  BY DEF Reached
<1>3. ASSUME NEW p \in Dirs, NEW q \in Reached(p)
      PROVE  Contents[q] \cap Dirs \subseteq Reached(p)
  <2>1. SUFFICES ASSUME NEW x \in Contents[q] \cap Dirs, NEW S \in SUBSET Dirs,
                        p \in S, \A y \in S : Contents[y] \cap Dirs \subseteq S
                 PROVE  x \in S
    BY DEF Reached
  <2>2. q \in S
    BY <2>1 DEF Reached
  <2> QED BY <2>1, <2>2
<1>4. \A p \in R : Contents[p] \cap Dirs \subseteq R
  <2>1. SUFFICES ASSUME NEW p \in R PROVE Contents[p] \cap Dirs \subseteq R
    OBVIOUS
  <2>2. CASE p = dir
    BY <1>2, <2>2
  <2>3. CASE p # dir
    <3>1. PICK sub \in Contents[dir] \cap Dirs : p \in Reached(sub)
      BY <2>3
    <3>2. Contents[p] \cap Dirs \subseteq Reached(sub)
      BY <1>3, <3>1
    <3> QED BY <3>2
  <2> QED BY <2>2, <2>3
<1>5. Reached(dir) \subseteq R
  <2>1. dir \in R /\ R \in SUBSET Dirs
    BY <1>1
  <2> HIDE DEF R
  <2> QED BY <1>4, <2>1 DEF Reached
<1>6. ASSUME NEW sub \in Contents[dir] \cap Dirs PROVE Reached(sub) \subseteq Reached(dir)
  <2>1. SUFFICES ASSUME NEW x \in Reached(sub), NEW S \in SUBSET Dirs,
                        dir \in S, \A y \in S : Contents[y] \cap Dirs \subseteq S
                 PROVE  x \in S
    BY DEF Reached
  <2>2. sub \in S
    BY <2>1
  <2> QED BY <2>1, <2>2 DEF Reached
<1>7. R \subseteq Reached(dir)
  BY <1>2, <1>6
<1> QED BY <1>5, <1>7

LEMMA BelowStep ==
  \A dir \in Dirs :
    Below[dir] = {dir} \union UNION {Below[sub] : sub \in Contents[dir] \cap Dirs}
<1> DEFINE g == [dir \in Dirs |-> Reached(dir)]
<1>1. g = [dir \in Dirs |->
             {dir} \union UNION {g[sub] : sub \in Contents[dir] \cap Dirs}]
  <2>1. ASSUME NEW dir \in Dirs
        PROVE  g[dir] = {dir} \union UNION {g[sub] : sub \in Contents[dir] \cap Dirs}
    <3>1. {g[sub] : sub \in Contents[dir] \cap Dirs} =
            {Reached(sub) : sub \in Contents[dir] \cap Dirs}
      OBVIOUS
    <3>2. g[dir] = Reached(dir)
      OBVIOUS
    <3> HIDE DEF g
    <3> QED BY <3>1, <3>2, ReachedStep
  <2>2. g = [dir \in Dirs |-> g[dir]]
    OBVIOUS
  <2> HIDE DEF g
  <2> QED BY <2>1, <2>2, Zenon
<1> HIDE DEF g
<1>2. \E f : f = [dir \in Dirs |->
                    {dir} \union UNION {f[sub] : sub \in Contents[dir] \cap Dirs}]
  BY <1>1, Zenon
<1>3. Below = [dir \in Dirs |->
                 {dir} \union UNION {Below[sub] : sub \in Contents[dir] \cap Dirs}]
  BY <1>2, Zenon DEF Below
<1> QED BY <1>3, Zenon

\* Below[dir] are directories, dir among them, and with a directory those below.
LEMMA BelowFacts ==
  ASSUME NEW dir \in Dirs
  PROVE  /\ dir \in Below[dir] /\ Below[dir] \subseteq Dirs
         /\ \A d \in Below[dir] : Below[d] \subseteq Below[dir]
         /\ Contents[dir] \cap Dirs \subseteq Below[dir]
<1> DEFINE Junk == {d \in Dirs : ~(Below[d] \subseteq Dirs)}
           Open == {d \in Dirs : \E x \in Below[d] : ~(Below[x] \subseteq Below[d])}
<1>1. \A d \in Dirs : /\ d \in Below[d]
                      /\ \A sub \in Contents[d] \cap Dirs : Below[sub] \subseteq Below[d]
                      /\ \A x \in Below[d] \ {d} :
                           \E sub \in Contents[d] \cap Dirs : x \in Below[sub]
  <2>1. SUFFICES ASSUME NEW d \in Dirs
                 PROVE  /\ d \in Below[d]
                        /\ \A sub \in Contents[d] \cap Dirs : Below[sub] \subseteq Below[d]
                        /\ \A x \in Below[d] \ {d} :
                             \E sub \in Contents[d] \cap Dirs : x \in Below[sub]
    OBVIOUS
  <2>2. Below[d] = {d} \union UNION {Below[sub] : sub \in Contents[d] \cap Dirs}
    BY BelowStep
  <2> QED BY <2>2
<1>2. Junk = {}
  <2>1. SUFFICES ASSUME Junk # {} PROVE FALSE
    OBVIOUS
  <2>2. PICK d \in Junk : Contents[d] \cap Junk = {}
    <3>1. Junk \in SUBSET Dirs
      OBVIOUS
    <3> HIDE DEF Junk
    <3> QED BY <2>1, <3>1, DirsAreTree
  <2>3. PICK x \in Below[d] : x \notin Dirs
    OBVIOUS
  <2>4. PICK sub \in Contents[d] \cap Dirs : x \in Below[sub]
    BY <1>1, <2>3
  <2> QED BY <2>2, <2>3, <2>4
<1>3. Open = {}
  <2>1. SUFFICES ASSUME Open # {} PROVE FALSE
    OBVIOUS
  <2>2. PICK d \in Open : Contents[d] \cap Open = {}
    <3>1. Open \in SUBSET Dirs
      OBVIOUS
    <3> HIDE DEF Open
    <3> QED BY <2>1, <3>1, DirsAreTree
  <2>3. PICK x \in Below[d] : ~(Below[x] \subseteq Below[d])
    OBVIOUS
  <2>4. PICK sub \in Contents[d] \cap Dirs : x \in Below[sub]
    BY <1>1, <2>3
  <2>5. Below[x] \subseteq Below[sub] /\ Below[sub] \subseteq Below[d]
    BY <1>1, <2>2, <2>4
  <2> QED BY <2>3, <2>5
<1>4. Below[dir] \subseteq Dirs /\ \A d \in Below[dir] : Below[d] \subseteq Below[dir]
  BY <1>2, <1>3
<1> QED BY <1>1, <1>4

-----------------------------------------------------------------------------
(* The invariant *)

\* The lists of the cache and those of the listers agree.
RegistryOK(s, dir) == Users(s, dir) = {l \in Listers : dir \in s.lstDirs[l]}

\* What a lister lists is below its url ().
RootOK(s, l) ==
  s.lstDirs[l] # {} => s.url[l] \in s.lstDirs[l] /\ s.lstDirs[l] \subseteq Below[s.url[l]]

\* A CachedItemsJob is that of a directory which its lister lists.
PostedOK(s, l) ==
  s.cachedItemsJob[l] # NoJob =>
    l \in s.listersCurrentlyListing[s.cachedItemsJob[l].url]

\* All but RootOK.
Agreed(s) ==
  /\ s \in States
  /\ \A dir \in Dirs : DirOK(s, dir) /\ CountOK(s, dir) /\ RegistryOK(s, dir)
  /\ \A l \in Listers : PostedOK(s, l)

Consistent(s) == Agreed(s) /\ \A l \in Listers : RootOK(s, l)

LEMMA UrlType ==
  ASSUME NEW s \in States, NEW l \in Listers, s.cachedItemsJob[l] # NoJob
  PROVE  /\ s.cachedItemsJob[l].url \in Dirs
         /\ s.cachedItemsJob[l].items \in SUBSET Contents[s.cachedItemsJob[l].url]
BY DEF States, Posted, CachedItemsJobs

LEMMA QuietKeeps ==
  ASSUME NEW s, NEW t, Quiet(s, t)
  PROVE  /\ Agreed(s) => Agreed(t)
         /\ Consistent(s) => Consistent(t)
<1>1. \A dir \in Dirs : SameDir(s, t, dir)
  BY DEF Quiet, SameUsers, SameItems, SameDir
<1>2. t \in States /\ SameUsers(s, t)
  BY DEF Quiet
<1>3. ASSUME Agreed(s) PROVE Agreed(t)
  <2>1. \A dir \in Dirs : DirOK(t, dir) /\ CountOK(t, dir) /\ Users(t, dir) = Users(s, dir)
    BY <1>1, <1>2, <1>3, SameDirOK DEF Agreed, SameUsers
  <2>2. \A dir \in Dirs : RegistryOK(t, dir)
    BY <1>2, <1>3, <2>1 DEF Agreed, SameUsers, RegistryOK
  <2>3. \A l \in Listers : PostedOK(t, l)
    BY <1>2, <1>3 DEF Agreed, SameUsers, PostedOK
  <2> QED BY <1>2, <2>1, <2>2, <2>3 DEF Agreed
<1>4. ASSUME Consistent(s) PROVE Consistent(t)
  <2>1. \A l \in Listers : RootOK(t, l)
    BY <1>2, <1>4 DEF Consistent, SameUsers, RootOK
  <2> QED BY <1>3, <1>4, <2>1 DEF Consistent
<1> QED BY <1>3, <1>4

\* The lists of a directory may be moved about, and jobs end, without a change
\* of who uses it.
LEMMA MovedOK ==
  ASSUME NEW s \in States, NEW t \in States, NEW d,
         t.itemsInUse[d] = s.itemsInUse[d], t.itemsCached[d] = s.itemsCached[d],
         t.autoUpdate = s.autoUpdate, Users(t, d) = Users(s, d),
         t.listersCurrentlyListing[d] \cap t.listersCurrentlyHolding[d] = {},
         t.job[d] # NoJob => s.job[d] # NoJob \/ Users(s, d) # {}
  PROVE  /\ DirOK(s, d) => DirOK(t, d)
         /\ CountOK(s, d) => CountOK(t, d)
<1>1. AutoUsers(t, d) = AutoUsers(s, d)
  BY DEF AutoUsers
<1> QED BY <1>1, Fields DEF DirOK, CountOK

-----------------------------------------------------------------------------
(* stop *)

LEMMA StopListerFacts ==
  ASSUME NEW s \in States, NEW l \in Listers, NEW dirs
  PROVE  LET t == StopLister(s, l, dirs) IN
         /\ t \in States /\ SameItems(s, t) /\ t.job = s.job
         /\ t.lstDirs = s.lstDirs /\ t.url = s.url /\ t.autoUpdate = s.autoUpdate
         /\ t.cachedItemsJob = s.cachedItemsJob
         /\ t.jobData = s.jobData
         /\ \A d \in Dirs \cap dirs :
              /\ t.listersCurrentlyListing[d] = s.listersCurrentlyListing[d] \ {l}
              /\ t.listersCurrentlyHolding[d] = s.listersCurrentlyHolding[d] \union {l}
         /\ \A d \in Dirs \ dirs :
              /\ t.listersCurrentlyListing[d] = s.listersCurrentlyListing[d]
              /\ t.listersCurrentlyHolding[d] = s.listersCurrentlyHolding[d]
<1> DEFINE listing == [d \in Dirs |-> IF d \in dirs THEN s.listersCurrentlyListing[d] \ {l}
                                                    ELSE s.listersCurrentlyListing[d]]
           holding == [d \in Dirs |-> IF d \in dirs
                                        THEN s.listersCurrentlyHolding[d] \union {l}
                                        ELSE s.listersCurrentlyHolding[d]]
           t == StopLister(s, l, dirs)
<1>1. t = [s EXCEPT !.listersCurrentlyListing = listing,
                    !.listersCurrentlyHolding = holding]
  BY DEF StopLister, States
<1>2. listing \in [Dirs -> SUBSET Listers] /\ holding \in [Dirs -> SUBSET Listers]
  BY DEF States
<1> HIDE DEF listing, holding, t
<1>3. /\ t \in States /\ SameItems(s, t) /\ t.job = s.job
      /\ t.lstDirs = s.lstDirs /\ t.url = s.url /\ t.autoUpdate = s.autoUpdate
      /\ t.cachedItemsJob = s.cachedItemsJob /\ t.jobData = s.jobData
      /\ t.listersCurrentlyListing = listing /\ t.listersCurrentlyHolding = holding
  BY <1>1, <1>2 DEF States, SameItems
<1> QED BY <1>3 DEF t, listing, holding

LEMMA NoCachedItemsJobFacts ==
  ASSUME NEW s \in States, NEW l \in Listers
  PROVE  LET t == NoCachedItemsJob(s, l) IN
         /\ t \in States /\ SameItems(s, t) /\ t.job = s.job
         /\ t.lstDirs = s.lstDirs /\ t.url = s.url /\ t.autoUpdate = s.autoUpdate
         /\ t.listersCurrentlyListing = s.listersCurrentlyListing
         /\ t.listersCurrentlyHolding = s.listersCurrentlyHolding
         /\ t.cachedItemsJob[l] = NoJob
         /\ \A k \in Listers \ {l} : t.cachedItemsJob[k] = s.cachedItemsJob[k]
<1> DEFINE posted == [s.cachedItemsJob EXCEPT ![l] = NoJob]
           t == NoCachedItemsJob(s, l)
<1>1. t = [s EXCEPT !.cachedItemsJob = posted]
  BY DEF NoCachedItemsJob, States
<1>2. posted \in [Listers -> Posted]
  BY DEF States, Posted
<1>3. posted[l] = NoJob /\ \A k \in Listers \ {l} : posted[k] = s.cachedItemsJob[k]
  BY DEF States
<1> HIDE DEF posted, t
<1>4. /\ t \in States /\ SameItems(s, t) /\ t.job = s.job
      /\ t.lstDirs = s.lstDirs /\ t.url = s.url /\ t.autoUpdate = s.autoUpdate
      /\ t.listersCurrentlyListing = s.listersCurrentlyListing
      /\ t.listersCurrentlyHolding = s.listersCurrentlyHolding
      /\ t.cachedItemsJob = posted
  BY <1>1, <1>2 DEF States, SameItems
<1> QED BY <1>3, <1>4 DEF t

LEMMA StopAllFacts ==
  ASSUME NEW s \in States, NEW l \in Listers
  PROVE  LET t == StopAll(s, l) IN
         /\ t \in States /\ SameItems(s, t) /\ t.job = s.job
         /\ t.lstDirs = s.lstDirs /\ t.url = s.url /\ t.autoUpdate = s.autoUpdate
         /\ t.cachedItemsJob[l] = NoJob
         /\ \A k \in Listers \ {l} : t.cachedItemsJob[k] = s.cachedItemsJob[k]
         /\ \A d \in Dirs :
              /\ t.listersCurrentlyListing[d] = s.listersCurrentlyListing[d] \ {l}
              /\ t.listersCurrentlyHolding[d] =
                   s.listersCurrentlyHolding[d] \union ({l} \cap s.listersCurrentlyListing[d])
<1> DEFINE a == StopLister(s, l, ListedBy(s, l))
           b == NoCachedItemsJob(a, l)
           t == StopAll(s, l)
<1>1. /\ a \in States /\ SameItems(s, a) /\ a.job = s.job
      /\ a.lstDirs = s.lstDirs /\ a.url = s.url /\ a.autoUpdate = s.autoUpdate
      /\ a.cachedItemsJob = s.cachedItemsJob
      /\ \A d \in Dirs \cap ListedBy(s, l) :
           /\ a.listersCurrentlyListing[d] = s.listersCurrentlyListing[d] \ {l}
           /\ a.listersCurrentlyHolding[d] = s.listersCurrentlyHolding[d] \union {l}
      /\ \A d \in Dirs \ ListedBy(s, l) :
           /\ a.listersCurrentlyListing[d] = s.listersCurrentlyListing[d]
           /\ a.listersCurrentlyHolding[d] = s.listersCurrentlyHolding[d]
  BY StopListerFacts
<1> HIDE DEF a
<1>2. /\ b \in States /\ SameItems(a, b) /\ b.job = a.job
      /\ b.lstDirs = a.lstDirs /\ b.url = a.url /\ b.autoUpdate = a.autoUpdate
      /\ b.listersCurrentlyListing = a.listersCurrentlyListing
      /\ b.listersCurrentlyHolding = a.listersCurrentlyHolding
      /\ b.cachedItemsJob[l] = NoJob
      /\ \A k \in Listers \ {l} : b.cachedItemsJob[k] = a.cachedItemsJob[k]
  BY <1>1, NoCachedItemsJobFacts
<1> HIDE DEF b
<1>3. Quiet(b, t)
  <2> DEFINE stopped == ListedBy(s, l) # {} \/ s.cachedItemsJob[l] # NoJob
  <2>1. t = [b EXCEPT !.complete[l] = @ \/ stopped]
    BY DEF StopAll, a, b
  <2>2. stopped \in BOOLEAN
    OBVIOUS
  <2> HIDE DEF stopped, t
  <2> QED BY <1>2, <2>1, <2>2 DEF Quiet, States, SameUsers, SameItems
<1> HIDE DEF t
<1>4. /\ t \in States /\ SameItems(s, t) /\ t.job = s.job
      /\ t.lstDirs = s.lstDirs /\ t.url = s.url /\ t.autoUpdate = s.autoUpdate
      /\ t.cachedItemsJob[l] = NoJob
      /\ \A k \in Listers \ {l} : t.cachedItemsJob[k] = s.cachedItemsJob[k]
      /\ t.listersCurrentlyListing = a.listersCurrentlyListing
      /\ t.listersCurrentlyHolding = a.listersCurrentlyHolding
  BY <1>1, <1>2, <1>3 DEF Quiet, SameUsers, SameItems
<1>5. ASSUME NEW d \in Dirs
      PROVE  /\ t.listersCurrentlyListing[d] = s.listersCurrentlyListing[d] \ {l}
             /\ t.listersCurrentlyHolding[d] =
                  s.listersCurrentlyHolding[d] \union ({l} \cap s.listersCurrentlyListing[d])
  BY <1>1, <1>4 DEF ListedBy
<1> QED BY <1>4, <1>5 DEF t

LEMMA StopOneFacts ==
  ASSUME NEW s \in States, NEW l \in Listers, NEW dir \in Dirs
  PROVE  LET t == StopOne(s, l, dir) IN
         /\ t \in States /\ SameItems(s, t) /\ t.job = s.job
         /\ t.lstDirs = s.lstDirs /\ t.url = s.url /\ t.autoUpdate = s.autoUpdate
         /\ t.cachedItemsJob[l] # NoJob => t.cachedItemsJob[l] = s.cachedItemsJob[l]
                                           /\ s.cachedItemsJob[l].url # dir
         /\ \A k \in Listers \ {l} : t.cachedItemsJob[k] = s.cachedItemsJob[k]
         /\ t.listersCurrentlyListing[dir] = s.listersCurrentlyListing[dir] \ {l}
         /\ t.listersCurrentlyHolding[dir] =
              s.listersCurrentlyHolding[dir] \union ({l} \cap s.listersCurrentlyListing[dir])
         /\ \A d \in Dirs \ {dir} :
              /\ t.listersCurrentlyListing[d] = s.listersCurrentlyListing[d]
              /\ t.listersCurrentlyHolding[d] = s.listersCurrentlyHolding[d]
<1> DEFINE a == IF s.cachedItemsJob[l] # NoJob /\ s.cachedItemsJob[l].url = dir
                  THEN NoCachedItemsJob(s, l) ELSE s
           b == StopLister(a, l, {dir})
           t == StopOne(s, l, dir)
<1>1. /\ a \in States /\ SameItems(s, a) /\ a.job = s.job
      /\ a.lstDirs = s.lstDirs /\ a.url = s.url /\ a.autoUpdate = s.autoUpdate
      /\ a.listersCurrentlyListing = s.listersCurrentlyListing
      /\ a.listersCurrentlyHolding = s.listersCurrentlyHolding
      /\ a.cachedItemsJob[l] # NoJob => a.cachedItemsJob[l] = s.cachedItemsJob[l]
                                        /\ s.cachedItemsJob[l].url # dir
      /\ \A k \in Listers \ {l} : a.cachedItemsJob[k] = s.cachedItemsJob[k]
  <2>1. CASE s.cachedItemsJob[l] # NoJob /\ s.cachedItemsJob[l].url = dir
    <3>1. a = NoCachedItemsJob(s, l)
      BY <2>1
    <3> HIDE DEF a
    <3> QED BY <3>1, NoCachedItemsJobFacts
  <2>2. CASE ~(s.cachedItemsJob[l] # NoJob /\ s.cachedItemsJob[l].url = dir)
    <3>1. a = s
      BY <2>2
    <3> HIDE DEF a
    <3> QED BY <2>2, <3>1 DEF SameItems
  <2> QED BY <2>1, <2>2
<1>2. t = IF dir \in ListedBy(a, l) THEN Finished(b, {l}) ELSE a
  BY DEF StopOne
<1> HIDE DEF a
<1>3. CASE dir \notin ListedBy(a, l)
  <2>1. t = a /\ l \notin s.listersCurrentlyListing[dir]
    BY <1>1, <1>2, <1>3 DEF ListedBy
  <2> HIDE DEF t
  <2> QED BY <1>1, <2>1 DEF t
<1>4. CASE dir \in ListedBy(a, l)
  <2>1. /\ b \in States /\ SameItems(a, b) /\ b.job = a.job
        /\ b.lstDirs = a.lstDirs /\ b.url = a.url /\ b.autoUpdate = a.autoUpdate
        /\ b.cachedItemsJob = a.cachedItemsJob
        /\ \A d \in Dirs \cap {dir} :
             /\ b.listersCurrentlyListing[d] = a.listersCurrentlyListing[d] \ {l}
             /\ b.listersCurrentlyHolding[d] = a.listersCurrentlyHolding[d] \union {l}
        /\ \A d \in Dirs \ {dir} :
             /\ b.listersCurrentlyListing[d] = a.listersCurrentlyListing[d]
             /\ b.listersCurrentlyHolding[d] = a.listersCurrentlyHolding[d]
    BY <1>1, StopListerFacts
  <2> HIDE DEF b
  <2>2. Quiet(b, Finished(b, {l}))
    BY <2>1, FinishedQuiet
  <2>3. t = Finished(b, {l}) /\ l \in s.listersCurrentlyListing[dir]
    BY <1>1, <1>2, <1>4 DEF ListedBy
  <2> HIDE DEF t
  <2>4. /\ t \in States /\ SameItems(s, t) /\ t.job = s.job
        /\ t.lstDirs = s.lstDirs /\ t.url = s.url /\ t.autoUpdate = s.autoUpdate
        /\ t.cachedItemsJob = a.cachedItemsJob
        /\ t.listersCurrentlyListing = b.listersCurrentlyListing
        /\ t.listersCurrentlyHolding = b.listersCurrentlyHolding
    BY <1>1, <2>1, <2>2, <2>3 DEF Quiet, SameUsers, SameItems
  <2>5. /\ a.listersCurrentlyListing = s.listersCurrentlyListing
        /\ a.listersCurrentlyHolding = s.listersCurrentlyHolding
    BY <1>1
  <2>6. /\ t.listersCurrentlyListing[dir] = s.listersCurrentlyListing[dir] \ {l}
        /\ t.listersCurrentlyHolding[dir] = s.listersCurrentlyHolding[dir] \union {l}
    BY <2>1, <2>4, <2>5
  <2>7. t.listersCurrentlyHolding[dir] =
          s.listersCurrentlyHolding[dir] \union ({l} \cap s.listersCurrentlyListing[dir])
    BY <2>3, <2>6
  <2>8. \A d \in Dirs \ {dir} :
          /\ t.listersCurrentlyListing[d] = s.listersCurrentlyListing[d]
          /\ t.listersCurrentlyHolding[d] = s.listersCurrentlyHolding[d]
    BY <2>1, <2>4, <2>5
  <2> QED BY <1>1, <2>4, <2>6, <2>7, <2>8 DEF t
<1> QED BY <1>3, <1>4

-----------------------------------------------------------------------------
(* deleteDir *)

\* A lister whose first directory has been deleted, and which has forgotten all
\* others.  Where it lists one of them it is still to be stopped.
Stray(s, l, B) ==
  s.lstDirs[l] = {} /\ s.url[l] \in B /\ l \notin Users(s, s.url[l])

\* While the directories B are deleted one after the other: all is well of
\* the others, but of those only the lists and items agree, and who uses one is
\* registered or has lost its first directory.
Deleting(s, B) ==
  /\ s \in States
  /\ \A d \in Dirs : DirOK(s, d)
  /\ \A d \in Dirs \ B : CountOK(s, d) /\ RegistryOK(s, d)
  /\ \A l \in Listers : PostedOK(s, l) /\ RootOK(s, l)
  /\ \A d \in B : \A l \in Listers :
       /\ d \in s.lstDirs[l] => l \in Users(s, d)
       /\ l \in Users(s, d) => d \in s.lstDirs[l] \/ Stray(s, l, B)

LEMMA ConsistentDeleting ==
  ASSUME NEW s, Consistent(s), NEW B \in SUBSET Dirs
  PROVE  Deleting(s, B)
<1>1. \A d \in B : \A l \in Listers : d \in s.lstDirs[l] <=> l \in Users(s, d)
  <2>1. SUFFICES ASSUME NEW d \in B, NEW l \in Listers
                 PROVE  d \in s.lstDirs[l] <=> l \in Users(s, d)
    OBVIOUS
  <2>2. RegistryOK(s, d)
    BY DEF Consistent, Agreed
  <2> QED BY <2>2 DEF RegistryOK
<1> QED BY <1>1 DEF Consistent, Agreed, Deleting

StopOp(dir, l, t) == StopOne(t, l, dir)

\* The listers D have stopped to list dir; q is the state before and dir.
Stopped(q, D, t) ==
  /\ t \in States /\ SameItems(q[1], t) /\ t.job = q[1].job
  /\ t.lstDirs = q[1].lstDirs /\ t.url = q[1].url /\ t.autoUpdate = q[1].autoUpdate
  /\ t.listersCurrentlyListing[q[2]] = q[1].listersCurrentlyListing[q[2]] \ D
  /\ t.listersCurrentlyHolding[q[2]] = q[1].listersCurrentlyHolding[q[2]] \union D
  /\ \A d \in Dirs \ {q[2]} :
       /\ t.listersCurrentlyListing[d] = q[1].listersCurrentlyListing[d]
       /\ t.listersCurrentlyHolding[d] = q[1].listersCurrentlyHolding[d]
  /\ \A l \in Listers : t.cachedItemsJob[l] # NoJob =>
       /\ t.cachedItemsJob[l] = q[1].cachedItemsJob[l]
       /\ l \in D => t.cachedItemsJob[l].url # q[2]

Stopping == INSTANCE FoldLemmas WITH Op <- StopOp, Inv <- Stopped

LoseOp(dir, l, t) == LoseDir(t, l, dir)

\* The holders D have lost dir; q is the state before, dir and the directories
\* that are being deleted.
Lost(q, D, t) ==
  /\ Deleting(t, q[3])
  /\ t.listersCurrentlyListing = q[1].listersCurrentlyListing
  /\ \A d \in Dirs : t.listersCurrentlyHolding[d] \subseteq q[1].listersCurrentlyHolding[d]
  /\ t.listersCurrentlyHolding[q[2]] = q[1].listersCurrentlyHolding[q[2]] \ D

Losing == INSTANCE FoldLemmas WITH Op <- LoseOp, Inv <- Lost

LEMMA LoseUsersIs ==
  ASSUME NEW s, NEW dir
  PROVE  LoseUsers(s, dir) =
           LET stopped == Stopping!Fold(dir, s, s.listersCurrentlyListing[dir])
           IN  Losing!Fold(dir, stopped, stopped.listersCurrentlyHolding[dir])
BY DEF LoseUsers, StopOp, LoseOp, Stopping!Fold,
       Stopping!MapThenFoldSet, Losing!Fold, Losing!MapThenFoldSet,
       FoldSet, MapThenFoldSet

LEMMA StopStep ==
  ASSUME NEW s \in States, NEW dir \in Dirs,
         NEW D \in SUBSET s.listersCurrentlyListing[dir],
         NEW l \in s.listersCurrentlyListing[dir] \ D, NEW t,
         Stopped(<<s, dir>>, D, t)
  PROVE  Stopped(<<s, dir>>, D \union {l}, StopOp(dir, l, t))
<1> DEFINE u == StopOne(t, l, dir)
<1>1. /\ t \in States /\ SameItems(s, t) /\ t.job = s.job
      /\ t.lstDirs = s.lstDirs /\ t.url = s.url /\ t.autoUpdate = s.autoUpdate
      /\ t.listersCurrentlyListing[dir] = s.listersCurrentlyListing[dir] \ D
      /\ t.listersCurrentlyHolding[dir] = s.listersCurrentlyHolding[dir] \union D
      /\ \A d \in Dirs \ {dir} :
           /\ t.listersCurrentlyListing[d] = s.listersCurrentlyListing[d]
           /\ t.listersCurrentlyHolding[d] = s.listersCurrentlyHolding[d]
      /\ \A k \in Listers : t.cachedItemsJob[k] # NoJob =>
           /\ t.cachedItemsJob[k] = s.cachedItemsJob[k]
           /\ k \in D => t.cachedItemsJob[k].url # dir
  BY DEF Stopped
<1>2. l \in Listers
  BY DEF States
<1>3. /\ u \in States /\ SameItems(t, u) /\ u.job = t.job
      /\ u.lstDirs = t.lstDirs /\ u.url = t.url /\ u.autoUpdate = t.autoUpdate
      /\ u.cachedItemsJob[l] # NoJob => u.cachedItemsJob[l] = t.cachedItemsJob[l]
                                        /\ t.cachedItemsJob[l].url # dir
      /\ \A k \in Listers \ {l} : u.cachedItemsJob[k] = t.cachedItemsJob[k]
      /\ u.listersCurrentlyListing[dir] = t.listersCurrentlyListing[dir] \ {l}
      /\ u.listersCurrentlyHolding[dir] =
           t.listersCurrentlyHolding[dir] \union ({l} \cap t.listersCurrentlyListing[dir])
      /\ \A d \in Dirs \ {dir} :
           /\ u.listersCurrentlyListing[d] = t.listersCurrentlyListing[d]
           /\ u.listersCurrentlyHolding[d] = t.listersCurrentlyHolding[d]
  <2>1. t \in States
    BY <1>1
  <2> QED BY <1>2, <2>1, StopOneFacts
<1> HIDE DEF u
<1>4. /\ u.listersCurrentlyListing[dir] = s.listersCurrentlyListing[dir] \ (D \union {l})
      /\ u.listersCurrentlyHolding[dir] =
           s.listersCurrentlyHolding[dir] \union (D \union {l})
  BY <1>1, <1>3
<1>5. ASSUME NEW k \in Listers, u.cachedItemsJob[k] # NoJob
      PROVE  /\ u.cachedItemsJob[k] = s.cachedItemsJob[k]
             /\ k \in D \union {l} => u.cachedItemsJob[k].url # dir
  <2>1. CASE k = l
    BY <1>1, <1>2, <1>3, <1>5, <2>1
  <2>2. CASE k # l
    BY <1>1, <1>3, <1>5, <2>2
  <2> QED BY <2>1, <2>2
<1>6. Stopped(<<s, dir>>, D \union {l}, u)
  BY <1>1, <1>3, <1>4, <1>5 DEF Stopped, SameItems
<1> QED BY <1>6 DEF u, StopOp

LEMMA TwoElements ==
  ASSUME NEW S, IsFiniteSet(S), NEW a \in S, NEW b \in S, a # b
  PROVE  Cardinality(S) > 1
<1>1. {a, b} \subseteq S /\ Cardinality({a, b}) = 2
  <2>1. IsFiniteSet({a}) /\ Cardinality({a}) = 1
    BY FS_Singleton
  <2>2. Cardinality({a} \union {b}) = Cardinality({a}) + 1
    BY <2>1, OneMore
  <2>3. {a} \union {b} = {a, b}
    OBVIOUS
  <2> QED BY <2>1, <2>2, <2>3
<1>2. Cardinality({a, b}) <= Cardinality(S)
  BY <1>1, FS_Subset
<1>3. Cardinality(S) \in Nat
  BY FS_CardinalityType
<1> QED BY <1>1, <1>2, <1>3

LEMMA EverybodyStops ==
  ASSUME NEW s, NEW B \in SUBSET Dirs, Deleting(s, B), NEW dir \in B
  PROVE  LET t == Stopping!Fold(dir, s, s.listersCurrentlyListing[dir]) IN
         /\ Deleting(t, B) /\ t.listersCurrentlyListing[dir] = {}
         /\ \A d \in Dirs : Users(t, d) = Users(s, d)
<1> DEFINE S == s.listersCurrentlyListing[dir]
           t == Stopping!Fold(dir, s, S)
<1>1. s \in States /\ dir \in Dirs
  BY DEF Deleting
<1>2. S \subseteq Listers /\ IsFiniteSet(S)
  BY <1>1, FiniteAssumption, FS_Subset DEF States
<1>3. Stopped(<<s, dir>>, {}, s)
  BY <1>1 DEF Stopped, SameItems
<1>4. Stopped(<<s, dir>>, S, t)
  <2>1. \A D \in SUBSET S : \A l \in S \ D : \A v :
          Stopped(<<s, dir>>, D, v) => Stopped(<<s, dir>>, D \union {l}, StopOp(dir, l, v))
    BY <1>1, StopStep
  <2> HIDE DEF S
  <2> QED BY <1>2, <1>3, <2>1, Stopping!FoldKeeps, FiniteGrounded, Zenon
          DEF Stopping!Grounded
<1> HIDE DEF t
<1>5. /\ t \in States /\ SameItems(s, t) /\ t.job = s.job
      /\ t.lstDirs = s.lstDirs /\ t.url = s.url /\ t.autoUpdate = s.autoUpdate
      /\ t.listersCurrentlyListing[dir] = {}
      /\ t.listersCurrentlyHolding[dir] =
           s.listersCurrentlyHolding[dir] \union s.listersCurrentlyListing[dir]
      /\ \A d \in Dirs \ {dir} :
           /\ t.listersCurrentlyListing[d] = s.listersCurrentlyListing[d]
           /\ t.listersCurrentlyHolding[d] = s.listersCurrentlyHolding[d]
      /\ \A l \in Listers : t.cachedItemsJob[l] # NoJob =>
           /\ t.cachedItemsJob[l] = s.cachedItemsJob[l]
           /\ l \in S => t.cachedItemsJob[l].url # dir
  BY <1>4 DEF Stopped
<1>6. ASSUME NEW d \in Dirs
      PROVE  /\ Users(t, d) = Users(s, d)
             /\ t.listersCurrentlyListing[d] \cap t.listersCurrentlyHolding[d] = {}
  <2>1. CASE d = dir
    BY <1>5, <2>1 DEF Users
  <2>2. CASE d # dir
    <3>1. DirOK(s, d)
      BY DEF Deleting
    <3> QED BY <1>5, <2>2, <3>1 DEF Users, DirOK
  <2> QED BY <2>1, <2>2
<1>7. ASSUME NEW d \in Dirs
      PROVE  /\ DirOK(t, d)
             /\ CountOK(s, d) => CountOK(t, d)
             /\ RegistryOK(s, d) => RegistryOK(t, d)
  <2>1. DirOK(s, d)
    BY DEF Deleting
  <2>2. /\ t.itemsInUse[d] = s.itemsInUse[d] /\ t.itemsCached[d] = s.itemsCached[d]
        /\ t.job[d] = s.job[d]
    BY <1>5 DEF SameItems
  <2>3. DirOK(t, d) /\ (CountOK(s, d) => CountOK(t, d))
    BY <1>1, <1>5, <1>6, <2>1, <2>2, MovedOK
  <2>4. RegistryOK(s, d) => RegistryOK(t, d)
    BY <1>5, <1>6 DEF RegistryOK
  <2> QED BY <2>3, <2>4
<1>8. ASSUME NEW l \in Listers PROVE PostedOK(t, l) /\ RootOK(t, l)
  <2>1. PostedOK(s, l) /\ RootOK(s, l)
    BY DEF Deleting
  <2>2. RootOK(t, l)
    BY <1>5, <2>1 DEF RootOK
  <2>3. ASSUME t.cachedItemsJob[l] # NoJob
        PROVE  l \in t.listersCurrentlyListing[t.cachedItemsJob[l].url]
    <3> DEFINE url == s.cachedItemsJob[l].url
    <3>1. /\ t.cachedItemsJob[l] = s.cachedItemsJob[l]
          /\ s.cachedItemsJob[l] # NoJob
          /\ l \in S => url # dir
      BY <1>5, <2>3
    <3>2. url \in Dirs
      BY <1>1, <3>1, UrlType
    <3>3. l \in s.listersCurrentlyListing[url]
      BY <2>1, <3>1 DEF PostedOK
    <3>4. url # dir
      BY <3>1, <3>3
    <3> QED BY <1>5, <3>1, <3>2, <3>3, <3>4
  <2> QED BY <2>2, <2>3 DEF PostedOK
<1>9. ASSUME NEW d \in B, NEW l \in Listers
      PROVE  /\ d \in t.lstDirs[l] => l \in Users(t, d)
             /\ l \in Users(t, d) => d \in t.lstDirs[l] \/ Stray(t, l, B)
  <2>1. /\ d \in s.lstDirs[l] => l \in Users(s, d)
        /\ l \in Users(s, d) => d \in s.lstDirs[l] \/ Stray(s, l, B)
    BY DEF Deleting
  <2>2. Stray(s, l, B) => Stray(t, l, B)
    <3>1. ASSUME Stray(s, l, B) PROVE Users(t, s.url[l]) = Users(s, s.url[l])
      BY <1>6, <3>1 DEF Stray
    <3> QED BY <1>5, <3>1 DEF Stray
  <2> QED BY <1>5, <1>6, <2>1, <2>2
<1>10. Deleting(t, B)
  <2>1. \A d \in Dirs \ B : CountOK(t, d) /\ RegistryOK(t, d)
    BY <1>7 DEF Deleting
  <2> QED BY <1>5, <1>7, <1>8, <1>9, <2>1 DEF Deleting
<1> QED BY <1>5, <1>6, <1>10 DEF t

\* One holder loses dir.
LEMMA LoseDirFacts ==
  ASSUME NEW s, NEW B \in SUBSET Dirs, Deleting(s, B), NEW dir \in B,
         Below[dir] \subseteq B, s.listersCurrentlyListing[dir] = {},
         NEW l \in s.listersCurrentlyHolding[dir]
  PROVE  LET t == LoseDir(s, l, dir) IN
         /\ Deleting(t, B)
         /\ t.listersCurrentlyListing = s.listersCurrentlyListing
         /\ \A d \in Dirs : t.listersCurrentlyHolding[d] \subseteq s.listersCurrentlyHolding[d]
         /\ t.listersCurrentlyHolding[dir] = s.listersCurrentlyHolding[dir] \ {l}
<1> DEFINE t == LoseDir(s, l, dir)
           treeview == Cardinality(s.lstDirs[l]) > 1
           one == [s EXCEPT !.lstDirs[l] = @ \ {dir}]
           none == [s EXCEPT !.lstDirs[l] = {}]
           e == IF treeview THEN one ELSE ClearAll(none, l)
           u == ForgetDir(e, l, dir, treeview)
<1>1. t = IF s.url[l] = dir THEN ForgetAll(s, l) ELSE u
  BY DEF LoseDir
<1>2. s \in States /\ dir \in Dirs /\ l \in Listers /\ l \in Users(s, dir)
  BY DEF Deleting, States, Users
<1>3. /\ \A d \in Dirs : DirOK(s, d)
      /\ \A d \in Dirs \ B : CountOK(s, d) /\ RegistryOK(s, d)
      /\ \A k \in Listers : PostedOK(s, k) /\ RootOK(s, k)
      /\ \A d \in B : \A k \in Listers :
           /\ d \in s.lstDirs[k] => k \in Users(s, d)
           /\ k \in Users(s, d) => d \in s.lstDirs[k] \/ Stray(s, k, B)
  BY DEF Deleting
<1>4. s.lstDirs[l] \subseteq Dirs /\ IsFiniteSet(s.lstDirs[l])
  BY <1>2, FiniteAssumption, FS_Subset DEF States
\* What both ways of losing it have in common.
<1>5. ASSUME NEW v, v \in States, \A d \in Dirs : DirOK(v, d),
             v.listersCurrentlyListing = s.listersCurrentlyListing,
             v.url = s.url, v.autoUpdate = s.autoUpdate,
             v.cachedItemsJob = s.cachedItemsJob,
             \A k \in Listers \ {l} : v.lstDirs[k] = s.lstDirs[k],
             v.lstDirs[l] \subseteq s.lstDirs[l], v.lstDirs[l] # {} => RootOK(v, l),
             \A d \in Dirs :
               /\ v.listersCurrentlyHolding[d] \subseteq s.listersCurrentlyHolding[d]
               /\ s.listersCurrentlyHolding[d] \ {l} \subseteq v.listersCurrentlyHolding[d],
             \A d \in Dirs \ B :
               /\ CountOK(v, d) /\ v.listersCurrentlyHolding[d] = s.listersCurrentlyHolding[d]
               /\ d \in s.lstDirs[l] => d \in v.lstDirs[l],
             \A d \in B :
               /\ d \in v.lstDirs[l] => l \in Users(v, d)
               /\ l \in Users(v, d) => d \in v.lstDirs[l] \/ Stray(v, l, B)
      PROVE  Deleting(v, B)
  <2>1. \A d \in Dirs : Users(v, d) \subseteq Users(s, d) /\ Users(s, d) \ {l} \subseteq Users(v, d)
    BY <1>5 DEF Users
  <2>2. ASSUME NEW d \in Dirs \ B PROVE RegistryOK(v, d)
    <3>1. RegistryOK(s, d) /\ Users(v, d) = Users(s, d)
      BY <1>3, <1>5 DEF Users
    <3>2. \A k \in Listers : d \in v.lstDirs[k] <=> d \in s.lstDirs[k]
      BY <1>5
    <3> QED BY <3>1, <3>2 DEF RegistryOK
  <2>3. ASSUME NEW k \in Listers PROVE PostedOK(v, k) /\ RootOK(v, k)
    <3>1. PostedOK(s, k) /\ RootOK(s, k)
      BY <1>3
    <3>2. PostedOK(v, k)
      BY <1>5, <3>1 DEF PostedOK
    <3>3. CASE k = l
      BY <1>5, <3>2, <3>3 DEF RootOK
    <3>4. CASE k # l
      BY <1>5, <3>1, <3>2, <3>4 DEF RootOK
    <3> QED BY <3>3, <3>4
  <2>4. ASSUME NEW d \in B, NEW k \in Listers
        PROVE  /\ d \in v.lstDirs[k] => k \in Users(v, d)
               /\ k \in Users(v, d) => d \in v.lstDirs[k] \/ Stray(v, k, B)
    <3>1. CASE k = l
      BY <1>5, <3>1
    <3>2. CASE k # l
      <4>1. v.lstDirs[k] = s.lstDirs[k] /\ v.url = s.url
        BY <1>5, <3>2
      <4>2. k \in Users(v, d) <=> k \in Users(s, d)
        BY <2>1, <3>2
      <4>3. Stray(s, k, B) => Stray(v, k, B)
        BY <2>1, <4>1 DEF Stray
      <4> QED BY <1>3, <4>1, <4>2, <4>3
    <3> QED BY <3>1, <3>2
  <2> QED BY <1>5, <2>2, <2>3, <2>4 DEF Deleting
<1>6. CASE s.url[l] = dir
  <2>1. t = ForgetAll(s, l)
    BY <1>1, <1>6
  <2>2. dir \in s.lstDirs[l]
    BY <1>2, <1>3, <1>6 DEF Stray
  <2>3. s.lstDirs[l] \subseteq B
    BY <1>2, <1>3, <1>6, <2>2 DEF RootOK
  <2> HIDE DEF t
  <2>4. /\ t \in States
        /\ t.listersCurrentlyListing = s.listersCurrentlyListing
        /\ t.url = s.url /\ t.autoUpdate = s.autoUpdate
        /\ t.cachedItemsJob = s.cachedItemsJob
        /\ t.lstDirs[l] = {} /\ \A k \in Listers \ {l} : t.lstDirs[k] = s.lstDirs[k]
        /\ \A d \in Dirs :
             /\ DirOK(t, d)
             /\ d \notin s.lstDirs[l] => SameDir(s, t, d)
             /\ d \in s.lstDirs[l] =>
                  t.listersCurrentlyHolding[d] = s.listersCurrentlyHolding[d] \ {l}
             /\ CountOK(s, d) /\ (d \in s.lstDirs[l] => l \in s.listersCurrentlyHolding[d])
                  => CountOK(t, d)
    BY <1>2, <1>3, <2>1, ForgetAllFacts
  <2>5. \A d \in Dirs :
          /\ t.listersCurrentlyHolding[d] \subseteq s.listersCurrentlyHolding[d]
          /\ s.listersCurrentlyHolding[d] \ {l} \subseteq t.listersCurrentlyHolding[d]
    BY <2>4 DEF SameDir
  <2>6. \A d \in Dirs \ B :
          /\ CountOK(t, d) /\ t.listersCurrentlyHolding[d] = s.listersCurrentlyHolding[d]
          /\ d \in s.lstDirs[l] => d \in t.lstDirs[l]
    BY <1>3, <2>3, <2>4 DEF SameDir
  <2>7. Stray(t, l, B)
    <3>1. l \notin Users(t, dir)
      BY <1>2, <2>2, <2>4 DEF Users
    <3> QED BY <1>6, <2>4, <3>1 DEF Stray
  <2>8. Deleting(t, B)
    BY <1>5, <2>4, <2>5, <2>6, <2>7
  <2> QED BY <1>2, <2>2, <2>4, <2>5, <2>8 DEF t
<1>7. CASE s.url[l] # dir
  <2>1. t = u
    BY <1>1, <1>7
  <2>2. /\ e \in States /\ SameItems(s, e) /\ e.job = s.job
        /\ e.listersCurrentlyListing = s.listersCurrentlyListing
        /\ e.listersCurrentlyHolding = s.listersCurrentlyHolding
        /\ e.url = s.url /\ e.autoUpdate = s.autoUpdate
        /\ e.cachedItemsJob = s.cachedItemsJob
        /\ \A k \in Listers \ {l} : e.lstDirs[k] = s.lstDirs[k]
        /\ e.lstDirs[l] = IF treeview THEN s.lstDirs[l] \ {dir} ELSE {}
    <3>1. CASE treeview
      <4>1. e = one
        BY <3>1
      <4> HIDE DEF e, treeview
      <4> QED BY <1>2, <3>1, <4>1 DEF States, SameItems
    <3>2. CASE ~treeview
      <4>1. e = ClearAll(none, l)
        BY <3>2
      <4>2. /\ none \in States /\ SameItems(s, none) /\ none.job = s.job
            /\ none.listersCurrentlyListing = s.listersCurrentlyListing
            /\ none.listersCurrentlyHolding = s.listersCurrentlyHolding
            /\ none.url = s.url /\ none.autoUpdate = s.autoUpdate
            /\ none.cachedItemsJob = s.cachedItemsJob
            /\ \A k \in Listers \ {l} : none.lstDirs[k] = s.lstDirs[k]
            /\ none.lstDirs[l] = {}
        BY <1>2 DEF States, SameItems
      <4> HIDE DEF e, treeview, none
      <4>3. Quiet(none, e)
        BY <1>2, <4>1, <4>2, ClearAllQuiet
      <4> QED BY <3>2, <4>2, <4>3 DEF Quiet, SameUsers, SameItems
    <3> QED BY <3>1, <3>2
  <2>3. treeview \/ s.lstDirs[l] = {}
    <3>1. SUFFICES ASSUME s.lstDirs[l] # {} PROVE treeview
      OBVIOUS
    <3>2. s.url[l] \in s.lstDirs[l]
      BY <1>2, <1>3, <3>1 DEF RootOK
    <3>3. dir \in s.lstDirs[l]
      BY <1>2, <1>3, <3>1 DEF Stray
    <3> QED BY <1>4, <1>7, <3>2, <3>3, TwoElements
  <2>4. e.lstDirs[l] = s.lstDirs[l] \ {dir}
    BY <2>2, <2>3
  <2> HIDE DEF e, treeview
  <2>5. \A d \in Dirs : /\ SameDir(s, e, d) /\ DirOK(e, d)
                        /\ CountOK(s, d) => CountOK(e, d)
    <3>1. \A d \in Dirs : SameDir(s, e, d)
      BY <2>2 DEF SameDir, SameItems
    <3> QED BY <1>2, <1>3, <2>2, <3>1, SameDirOK
  <2>6. /\ u \in States /\ SameButHolding(e, u)
        /\ u.listersCurrentlyHolding[dir] = e.listersCurrentlyHolding[dir] \ {l}
        /\ \A d \in Dirs \ {dir} : SameDir(e, u, d)
        /\ DirOK(u, dir)
    <3>1. e \in States /\ dir \in Dirs /\ dir \notin e.lstDirs[l] /\ DirOK(e, dir)
      BY <1>2, <2>2, <2>4, <2>5
    <3> QED BY <1>2, <3>1, ForgetDirFacts
  <2> HIDE DEF u, t
  <2>7. /\ u.listersCurrentlyListing = s.listersCurrentlyListing
        /\ u.url = s.url /\ u.autoUpdate = s.autoUpdate
        /\ u.cachedItemsJob = s.cachedItemsJob
        /\ \A k \in Listers \ {l} : u.lstDirs[k] = s.lstDirs[k]
        /\ u.lstDirs[l] = s.lstDirs[l] \ {dir}
        /\ u.listersCurrentlyHolding[dir] = s.listersCurrentlyHolding[dir] \ {l}
    BY <2>2, <2>4, <2>6 DEF SameButHolding
  <2>8. ASSUME NEW d \in Dirs \ {dir}
        PROVE  /\ u.listersCurrentlyHolding[d] = s.listersCurrentlyHolding[d]
               /\ DirOK(u, d) /\ (CountOK(s, d) => CountOK(u, d))
    <3>1. SameDir(e, u, d) /\ SameDir(s, e, d) /\ u.autoUpdate = e.autoUpdate
      BY <2>5, <2>6 DEF SameButHolding
    <3>2. DirOK(u, d) /\ (CountOK(e, d) => CountOK(u, d))
      BY <2>2, <2>5, <2>6, <3>1, SameDirOK
    <3> QED BY <2>5, <3>1, <3>2 DEF SameDir
  <2>9. u.lstDirs[l] # {} => RootOK(u, l)
    <3>1. RootOK(s, l)
      BY <1>2, <1>3
    <3> QED BY <1>7, <2>7, <3>1 DEF RootOK
  <2>10. ASSUME NEW d \in B
         PROVE  /\ d \in u.lstDirs[l] => l \in Users(u, d)
                /\ l \in Users(u, d) => d \in u.lstDirs[l] \/ Stray(u, l, B)
    <3>1. CASE d = dir
      BY <2>7, <3>1 DEF Users
    <3>2. CASE d # dir
      <4>1. Users(u, d) = Users(s, d)
        BY <2>7, <2>8, <3>2 DEF Users
      <4>2. Stray(s, l, B) => Stray(u, l, B)
        <5>1. ASSUME Stray(s, l, B) PROVE l \notin Users(u, s.url[l])
          BY <2>7, <2>8, <1>7, <5>1 DEF Stray, Users
        <5> QED BY <2>7, <5>1 DEF Stray
      <4> QED BY <1>2, <1>3, <2>7, <3>2, <4>1, <4>2
    <3> QED BY <3>1, <3>2
  <2>11. \A d \in Dirs :
           /\ u.listersCurrentlyHolding[d] \subseteq s.listersCurrentlyHolding[d]
           /\ s.listersCurrentlyHolding[d] \ {l} \subseteq u.listersCurrentlyHolding[d]
    BY <2>7, <2>8
  <2>12. \A d \in Dirs : DirOK(u, d)
    BY <2>6, <2>8
  <2>13. \A d \in Dirs \ B :
           /\ CountOK(u, d) /\ u.listersCurrentlyHolding[d] = s.listersCurrentlyHolding[d]
           /\ d \in s.lstDirs[l] => d \in u.lstDirs[l]
    BY <1>3, <2>7, <2>8
  <2>14. Deleting(u, B)
    BY <1>5, <2>6, <2>7, <2>9, <2>10, <2>11, <2>12, <2>13
  <2> QED BY <2>1, <2>7, <2>11, <2>14 DEF t
<1> QED BY <1>6, <1>7

LEMMA LoseUsersFacts ==
  ASSUME NEW s, NEW B \in SUBSET Dirs, Deleting(s, B), NEW dir \in B,
         Below[dir] \subseteq B
  PROVE  LET t == LoseUsers(s, dir) IN
         /\ Deleting(t, B) /\ Users(t, dir) = {}
         /\ \A d \in Dirs : Users(t, d) \subseteq Users(s, d)
<1> DEFINE e == Stopping!Fold(dir, s, s.listersCurrentlyListing[dir])
           S == e.listersCurrentlyHolding[dir]
           t == Losing!Fold(dir, e, S)
<1>1. /\ Deleting(e, B) /\ e.listersCurrentlyListing[dir] = {}
      /\ \A d \in Dirs : Users(e, d) = Users(s, d)
  BY EverybodyStops
<1>2. LoseUsers(s, dir) = t
  BY LoseUsersIs
<1> HIDE DEF e
<1>3. e \in States /\ dir \in Dirs
  BY <1>1 DEF Deleting
<1>4. S \subseteq Listers /\ IsFiniteSet(S)
  BY <1>3, FiniteAssumption, FS_Subset DEF States
<1>5. Lost(<<e, dir, B>>, {}, e)
  BY <1>1 DEF Lost
<1>6. ASSUME NEW D \in SUBSET S, NEW l \in S \ D, NEW v, Lost(<<e, dir, B>>, D, v)
      PROVE  Lost(<<e, dir, B>>, D \union {l}, LoseOp(dir, l, v))
  <2> DEFINE w == LoseDir(v, l, dir)
  <2>1. /\ Deleting(v, B)
        /\ v.listersCurrentlyListing = e.listersCurrentlyListing
        /\ \A d \in Dirs : v.listersCurrentlyHolding[d] \subseteq e.listersCurrentlyHolding[d]
        /\ v.listersCurrentlyHolding[dir] = e.listersCurrentlyHolding[dir] \ D
    BY <1>6 DEF Lost
  <2>2. l \in v.listersCurrentlyHolding[dir] /\ v.listersCurrentlyListing[dir] = {}
    BY <1>1, <2>1
  <2>3. /\ Deleting(w, B)
        /\ w.listersCurrentlyListing = v.listersCurrentlyListing
        /\ \A d \in Dirs : w.listersCurrentlyHolding[d] \subseteq v.listersCurrentlyHolding[d]
        /\ w.listersCurrentlyHolding[dir] = v.listersCurrentlyHolding[dir] \ {l}
    BY <2>1, <2>2, LoseDirFacts
  <2> HIDE DEF w
  <2>4. w.listersCurrentlyHolding[dir] = e.listersCurrentlyHolding[dir] \ (D \union {l})
    BY <2>1, <2>3
  <2>5. Lost(<<e, dir, B>>, D \union {l}, w)
    BY <2>1, <2>3, <2>4 DEF Lost
  <2> QED BY <2>5 DEF w, LoseOp
<1>7. Lost(<<e, dir, B>>, S, t)
  <2>1. \A D \in SUBSET S : \A l \in S \ D : \A v :
          Lost(<<e, dir, B>>, D, v) => Lost(<<e, dir, B>>, D \union {l}, LoseOp(dir, l, v))
    BY <1>6
  <2> HIDE DEF S
  <2> QED BY <1>4, <1>5, <2>1, Losing!FoldKeeps, FiniteGrounded, Zenon DEF Losing!Grounded
<1> HIDE DEF t
<1>8. /\ Deleting(t, B)
      /\ t.listersCurrentlyListing = e.listersCurrentlyListing
      /\ \A d \in Dirs : t.listersCurrentlyHolding[d] \subseteq e.listersCurrentlyHolding[d]
      /\ t.listersCurrentlyHolding[dir] = {}
  BY <1>7 DEF Lost
<1>9. Users(t, dir) = {} /\ \A d \in Dirs : Users(t, d) \subseteq Users(e, d)
  BY <1>1, <1>8 DEF Users
<1> QED BY <1>1, <1>2, <1>8, <1>9

EveryOp(p, d, t) == LoseUsers(t, d)

\* Nobody uses the directories D any more; B are being deleted.
Unregistered(B, D, t) == Deleting(t, B) /\ \A d \in D : Users(t, d) = {}

Every == INSTANCE FoldLemmas WITH Op <- EveryOp, Inv <- Unregistered

RemoveOp(p, d, t) == Deleted([t EXCEPT !.itemsInUse[d] = NoItem], "itemsCached", d)

\* The items of the directories D are gone; q is the state before.
Removed(q, D, t) ==
  /\ t \in States /\ SameUsers(q, t) /\ t.job = q.job
  /\ \A d \in D : t.itemsInUse[d] = NoItem /\ t.itemsCached[d] = NoItem
  /\ \A d \in Dirs \ D :
       t.itemsInUse[d] = q.itemsInUse[d] /\ t.itemsCached[d] = q.itemsCached[d]

Removing == INSTANCE FoldLemmas WITH Op <- RemoveOp, Inv <- Removed

LEMMA DeleteDirIs ==
  ASSUME NEW s, NEW dir
  PROVE  DeleteDir(s, dir) =
           Removing!Fold(0, Every!Fold(0, s, Below[dir]), Below[dir])
BY DEF DeleteDir, EveryOp, RemoveOp, Every!Fold, Every!MapThenFoldSet,
       Removing!Fold, Removing!MapThenFoldSet, FoldSet, MapThenFoldSet

LEMMA RemoveStep ==
  ASSUME NEW s \in States, NEW D \in SUBSET Dirs, NEW dir \in Dirs \ D, NEW t,
         Removed(s, D, t)
  PROVE  Removed(s, D \union {dir}, RemoveOp(0, dir, t))
<1> DEFINE e == [t EXCEPT !.itemsInUse[dir] = NoItem]
           u == Deleted(e, "itemsCached", dir)
<1>1. /\ t \in States /\ SameUsers(s, t) /\ t.job = s.job
      /\ \A d \in D : t.itemsInUse[d] = NoItem /\ t.itemsCached[d] = NoItem
      /\ \A d \in Dirs \ D :
           t.itemsInUse[d] = s.itemsInUse[d] /\ t.itemsCached[d] = s.itemsCached[d]
  BY DEF Removed
<1>2. /\ e \in States /\ SameUsers(t, e) /\ e.job = t.job
      /\ e.itemsInUse[dir] = NoItem /\ e.itemsCached = t.itemsCached
      /\ \A d \in Dirs \ {dir} : e.itemsInUse[d] = t.itemsInUse[d]
  <2> DEFINE m == [t.itemsInUse EXCEPT ![dir] = NoItem]
  <2>1. m \in ItemMaps /\ m[dir] = NoItem /\ \A d \in Dirs \ {dir} : m[d] = t.itemsInUse[d]
    BY <1>1 DEF States, ItemMaps
  <2>2. e = [t EXCEPT !.itemsInUse = m]
    BY <1>1 DEF States
  <2> HIDE DEF m, e
  <2> QED BY <1>1, <2>1, <2>2 DEF States, SameUsers
<1> HIDE DEF e
<1>3. /\ u \in States /\ SameUsers(e, u) /\ u.job = e.job
      /\ u.itemsInUse = e.itemsInUse
      /\ u.itemsCached[dir] = NoItem
      /\ \A d \in Dirs \ {dir} : u.itemsCached[d] = e.itemsCached[d]
  <2>1. "itemsCached" \in Places /\ "itemsInUse" \in Places \ {"itemsCached"}
    BY DEF Places
  <2>2. /\ u \in States /\ SameUsers(e, u) /\ u.job = e.job
        /\ u["itemsCached"] = [e["itemsCached"] EXCEPT ![dir] = NoItem]
        /\ u["itemsInUse"] = e["itemsInUse"]
    BY <1>2, <2>1, DeletedFacts
  <2> HIDE DEF u
  <2>3. /\ u["itemsCached"] = u.itemsCached /\ u["itemsInUse"] = u.itemsInUse
        /\ e["itemsCached"] = e.itemsCached /\ e["itemsInUse"] = e.itemsInUse
    BY <1>2, <2>2, Fields
  <2>4. u.itemsCached = [e.itemsCached EXCEPT ![dir] = NoItem]
    BY <2>2, <2>3
  <2>5. /\ u.itemsCached[dir] = NoItem
        /\ \A d \in Dirs \ {dir} : u.itemsCached[d] = e.itemsCached[d]
    BY <1>2, <2>4 DEF States, ItemMaps
  <2> QED BY <2>2, <2>3, <2>5
<1> HIDE DEF u
<1>4. SameUsers(s, u)
  BY <1>1, <1>2, <1>3 DEF SameUsers
<1>5. \A d \in D \union {dir} : u.itemsInUse[d] = NoItem /\ u.itemsCached[d] = NoItem
  BY <1>1, <1>2, <1>3
<1>6. \A d \in Dirs \ (D \union {dir}) :
        u.itemsInUse[d] = s.itemsInUse[d] /\ u.itemsCached[d] = s.itemsCached[d]
  BY <1>1, <1>2, <1>3
<1>7. Removed(s, D \union {dir}, u)
  BY <1>1, <1>2, <1>3, <1>4, <1>5, <1>6 DEF Removed
<1> QED BY <1>7 DEF u, e, RemoveOp

LEMMA DeleteDirKeeps ==
  ASSUME NEW s, Consistent(s), NEW dir \in Dirs
  PROVE  Consistent(DeleteDir(s, dir))
<1> DEFINE B == Below[dir]
           e == Every!Fold(0, s, B)
           t == Removing!Fold(0, e, B)
<1>1. /\ B \in SUBSET Dirs /\ IsFiniteSet(B) /\ \A d \in B : Below[d] \subseteq B
  BY BelowFacts, FiniteAssumption, FS_Subset
<1>2. DeleteDir(s, dir) = t
  BY DeleteDirIs
<1> HIDE DEF B
<1>3. Unregistered(B, B, e)
  <2>1. Unregistered(B, {}, s)
    BY <1>1, ConsistentDeleting DEF Unregistered
  <2>2. ASSUME NEW D \in SUBSET B, NEW x \in B \ D, NEW v, Unregistered(B, D, v)
        PROVE  Unregistered(B, D \union {x}, EveryOp(0, x, v))
    <3> DEFINE w == LoseUsers(v, x)
    <3>1. /\ Deleting(w, B) /\ Users(w, x) = {}
          /\ \A d \in Dirs : Users(w, d) \subseteq Users(v, d)
      <4>1. Deleting(v, B)
        BY <2>2 DEF Unregistered
      <4> QED BY <1>1, <4>1, LoseUsersFacts
    <3> HIDE DEF w
    <3>2. \A d \in D \union {x} : Users(w, d) = {}
      BY <1>1, <2>2, <3>1 DEF Unregistered
    <3> QED BY <3>1, <3>2 DEF Unregistered, EveryOp, w
  <2>3. \A D \in SUBSET B : \A x \in B \ D : \A v :
          Unregistered(B, D, v) => Unregistered(B, D \union {x}, EveryOp(0, x, v))
    BY <2>2
  <2> QED BY <1>1, <2>1, <2>3, Every!FoldKeeps, FiniteGrounded, Zenon DEF Every!Grounded
<1> HIDE DEF e
<1>4. Deleting(e, B) /\ \A d \in B : Users(e, d) = {}
  BY <1>3 DEF Unregistered
<1>5. e \in States
  BY <1>4 DEF Deleting
<1>6. Removed(e, B, t)
  <2>1. Removed(e, {}, e)
    BY <1>5 DEF Removed, SameUsers
  <2>2. \A D \in SUBSET B : \A x \in B \ D : \A v :
          Removed(e, D, v) => Removed(e, D \union {x}, RemoveOp(0, x, v))
    BY <1>1, <1>5, RemoveStep
  <2> QED BY <1>1, <2>1, <2>2, Removing!FoldKeeps, FiniteGrounded, Zenon DEF Removing!Grounded
<1> HIDE DEF t
<1>7. /\ t \in States /\ SameUsers(e, t) /\ t.job = e.job
      /\ \A d \in B : t.itemsInUse[d] = NoItem /\ t.itemsCached[d] = NoItem
      /\ \A d \in Dirs \ B :
           t.itemsInUse[d] = e.itemsInUse[d] /\ t.itemsCached[d] = e.itemsCached[d]
  BY <1>6 DEF Removed
<1>8. \A d \in Dirs : Users(t, d) = Users(e, d)
  BY <1>7 DEF SameUsers, Users
<1>9. ASSUME NEW d \in Dirs PROVE DirOK(t, d) /\ CountOK(t, d) /\ RegistryOK(t, d)
  <2>1. DirOK(e, d)
    BY <1>4 DEF Deleting
  <2>2. CASE d \in B
    <3>1. Users(t, d) = {} /\ t.job[d] = NoJob
      BY <1>4, <1>7, <1>8, <2>1, <2>2 DEF DirOK
    <3>2. ~HasDirItem(t, "itemsInUse", d) /\ ~HasDirItem(t, "itemsCached", d)
      BY <1>7, <2>2, Fields
    <3>3. DirOK(t, d) /\ CountOK(t, d)
      BY <3>1, <3>2 DEF DirOK, CountOK, Users
    <3>4. \A l \in Listers : d \notin t.lstDirs[l]
      <4>1. \A l \in Listers : d \in e.lstDirs[l] => l \in Users(e, d)
        BY <1>4, <2>2 DEF Deleting
      <4> QED BY <1>4, <1>7, <2>2, <4>1 DEF SameUsers
    <3> QED BY <3>1, <3>3, <3>4 DEF RegistryOK
  <2>3. CASE d \notin B
    <3>1. CountOK(e, d) /\ RegistryOK(e, d)
      BY <1>4, <2>3 DEF Deleting
    <3>2. SameDir(e, t, d) /\ t.autoUpdate = e.autoUpdate
      BY <1>7, <2>3 DEF SameDir, SameUsers
    <3>3. DirOK(t, d) /\ CountOK(t, d)
      BY <1>5, <1>7, <2>1, <3>1, <3>2, SameDirOK
    <3>4. RegistryOK(t, d)
      BY <1>7, <1>8, <3>1 DEF RegistryOK, SameUsers
    <3> QED BY <3>3, <3>4
  <2> QED BY <2>2, <2>3
<1>10. ASSUME NEW l \in Listers PROVE PostedOK(t, l) /\ RootOK(t, l)
  <2>1. PostedOK(e, l) /\ RootOK(e, l)
    BY <1>4 DEF Deleting
  <2> QED BY <1>7, <2>1 DEF PostedOK, RootOK, SameUsers
<1>11. Consistent(t)
  BY <1>7, <1>9, <1>10 DEF Consistent, Agreed
<1> QED BY <1>2, <1>11

-----------------------------------------------------------------------------
(* Steps that leave the registers alone *)

CachedOK(s, d) ==
  s.itemsCached[d] # NoItem =>
    s.itemsCached[d].autoUpdates = IF s.itemsCached[d].complete THEN 1 ELSE 0

\* Nobody comes and nobody goes; what is in use stays so and is watched as
\* before; jobs are started only for somebody.
Harmless(s, t) ==
  /\ t \in States
  /\ t.lstDirs = s.lstDirs /\ t.url = s.url /\ t.autoUpdate = s.autoUpdate
  /\ \A l \in Listers : PostedOK(s, l) => PostedOK(t, l)
  /\ \A d \in Dirs :
       /\ Users(t, d) = Users(s, d)
       /\ s.listersCurrentlyListing[d] \cap s.listersCurrentlyHolding[d] = {}
            => t.listersCurrentlyListing[d] \cap t.listersCurrentlyHolding[d] = {}
       /\ t.itemsInUse[d] = NoItem <=> s.itemsInUse[d] = NoItem
       /\ t.itemsInUse[d] # NoItem =>
            t.itemsInUse[d].autoUpdates = s.itemsInUse[d].autoUpdates
       /\ t.itemsCached[d] # NoItem => s.itemsCached[d] # NoItem
       /\ CachedOK(s, d) => CachedOK(t, d)
       /\ t.job[d] # NoJob => s.job[d] # NoJob \/ Users(s, d) # {}

LEMMA HarmlessKeeps ==
  ASSUME NEW s, NEW t, Agreed(s), Harmless(s, t)
  PROVE  Agreed(t) /\ (Consistent(s) => Consistent(t))
<1>1. s \in States /\ t \in States
  BY DEF Agreed, Harmless
<1>2. ASSUME NEW d \in Dirs PROVE DirOK(t, d) /\ CountOK(t, d) /\ RegistryOK(t, d)
  <2>1. DirOK(s, d) /\ CountOK(s, d) /\ RegistryOK(s, d)
    BY DEF Agreed
  <2>2. /\ Users(t, d) = Users(s, d)
        /\ s.listersCurrentlyListing[d] \cap s.listersCurrentlyHolding[d] = {}
             => t.listersCurrentlyListing[d] \cap t.listersCurrentlyHolding[d] = {}
        /\ t.itemsInUse[d] = NoItem <=> s.itemsInUse[d] = NoItem
        /\ t.itemsInUse[d] # NoItem =>
             t.itemsInUse[d].autoUpdates = s.itemsInUse[d].autoUpdates
        /\ t.itemsCached[d] # NoItem => s.itemsCached[d] # NoItem
        /\ CachedOK(s, d) => CachedOK(t, d)
        /\ t.job[d] # NoJob => s.job[d] # NoJob \/ Users(s, d) # {}
        /\ t.autoUpdate = s.autoUpdate /\ t.lstDirs = s.lstDirs
    BY DEF Harmless
  <2>3. AutoUsers(t, d) = AutoUsers(s, d)
    BY <2>2 DEF AutoUsers
  <2>4. DirOK(t, d)
    BY <1>1, <2>1, <2>2, Fields DEF DirOK
  <2>5. CountOK(t, d)
    BY <1>1, <2>1, <2>2, <2>3, Fields DEF CountOK, CachedOK
  <2>6. RegistryOK(t, d)
    BY <2>1, <2>2 DEF RegistryOK
  <2> QED BY <2>4, <2>5, <2>6
<1>3. \A l \in Listers : PostedOK(t, l)
  BY DEF Agreed, Harmless
<1>4. Agreed(t)
  BY <1>1, <1>2, <1>3 DEF Agreed
<1>5. ASSUME Consistent(s) PROVE Consistent(t)
  <2>1. \A l \in Listers : RootOK(t, l)
    BY <1>5 DEF Consistent, RootOK, Harmless
  <2> QED BY <1>4, <2>1 DEF Consistent
<1> QED BY <1>4, <1>5

LEMMA HarmlessTwice ==
  ASSUME NEW s, NEW t, NEW u, Harmless(s, t), Harmless(t, u)
  PROVE  Harmless(s, u)
<1>1. ASSUME NEW d \in Dirs
      PROVE  /\ Users(u, d) = Users(s, d)
             /\ s.listersCurrentlyListing[d] \cap s.listersCurrentlyHolding[d] = {}
                  => u.listersCurrentlyListing[d] \cap u.listersCurrentlyHolding[d] = {}
             /\ u.itemsInUse[d] = NoItem <=> s.itemsInUse[d] = NoItem
             /\ u.itemsInUse[d] # NoItem =>
                  u.itemsInUse[d].autoUpdates = s.itemsInUse[d].autoUpdates
             /\ u.itemsCached[d] # NoItem => s.itemsCached[d] # NoItem
             /\ CachedOK(s, d) => CachedOK(u, d)
             /\ u.job[d] # NoJob => s.job[d] # NoJob \/ Users(s, d) # {}
  BY DEF Harmless
<1> QED BY <1>1 DEF Harmless

LEMMA QuietHarmless ==
  ASSUME NEW s, NEW t, Quiet(s, t)
  PROVE  Harmless(s, t)
<1>1. \A d \in Dirs : Users(t, d) = Users(s, d)
  BY DEF Quiet, SameUsers, Users
<1> QED BY <1>1 DEF Quiet, SameUsers, SameItems, Harmless, PostedOK, CachedOK

LEMMA JobGoneHarmless ==
  ASSUME NEW s \in States, NEW dir \in Dirs
  PROVE  Harmless(s, JobGone(s, dir))
<1> DEFINE t == JobGone(s, dir)
<1>1. /\ t \in States /\ SameUsers(s, t) /\ SameItems(s, t)
      /\ t.job = [s.job EXCEPT ![dir] = NoJob]
  BY JobGoneFacts
<1> HIDE DEF t
<1>2. \A d \in Dirs : t.job[d] # NoJob => s.job[d] # NoJob
  BY <1>1 DEF States, JobMaps
<1>3. \A d \in Dirs : Users(t, d) = Users(s, d)
  BY <1>1 DEF SameUsers, Users
<1>4. Harmless(s, t)
  BY <1>1, <1>2, <1>3 DEF SameUsers, SameItems, Harmless, PostedOK, CachedOK
<1> QED BY <1>4 DEF t

LEMMA NewJobHarmless ==
  ASSUME NEW s \in States, NEW dir \in Dirs, NEW kind \in {"list", "update"},
         Users(s, dir) # {}
  PROVE  Harmless(s, NewJob(s, dir, kind))
<1> DEFINE t == NewJob(s, dir, kind)
           new == [kind |-> kind, read |-> FALSE, left |-> {}, buffer |-> {}]
<1>1. /\ t \in States /\ SameUsers(s, t) /\ SameItems(s, t)
      /\ t.job = [s.job EXCEPT ![dir] = new]
  BY NewJobFacts
<1> HIDE DEF t, new
<1>2. \A d \in Dirs : t.job[d] # NoJob => s.job[d] # NoJob \/ Users(s, d) # {}
  BY <1>1 DEF States, JobMaps
<1>3. \A d \in Dirs : Users(t, d) = Users(s, d)
  BY <1>1 DEF SameUsers, Users
<1>4. Harmless(s, t)
  BY <1>1, <1>2, <1>3 DEF SameUsers, SameItems, Harmless, PostedOK, CachedOK
<1> QED BY <1>4 DEF t

Put(m, dir, n, complete, items) ==
  [m EXCEPT ![dir] = [autoUpdates |-> n, complete |-> complete, items |-> items]]

LEMMA ItemPut ==
  ASSUME NEW m \in ItemMaps, NEW dir \in Dirs, NEW n \in Nat,
         NEW complete \in BOOLEAN, NEW items \in SUBSET Contents[dir]
  PROVE  LET k == Put(m, dir, n, complete, items) IN
         /\ k \in ItemMaps /\ k[dir] # NoItem
         /\ k[dir].autoUpdates = n /\ k[dir].complete = complete /\ k[dir].items = items
         /\ \A d \in Dirs \ {dir} : k[d] = m[d]
<1> DEFINE new == [autoUpdates |-> n, complete |-> complete, items |-> items]
           k == Put(m, dir, n, complete, items)
<1>1. k \in ItemMaps
  BY ItemMapWith DEF Put
<1>2. items \in SUBSET Items
  BY ContentsAreItems
<1>3. new # NoItem
  BY <1>2, NoItemIsNone
<1>4. /\ new.autoUpdates = n /\ new.complete = complete /\ new.items = items
      /\ k = [m EXCEPT ![dir] = new]
  BY DEF Put
<1> HIDE DEF new, k
<1>5. k[dir] = new /\ \A d \in Dirs \ {dir} : k[d] = m[d]
  BY <1>4 DEF ItemMaps
<1>6. /\ k \in ItemMaps /\ k[dir] # NoItem
      /\ k[dir].autoUpdates = n /\ k[dir].complete = complete /\ k[dir].items = items
      /\ \A d \in Dirs \ {dir} : k[d] = m[d]
  BY <1>1, <1>3, <1>4, <1>5
<1> QED BY <1>6 DEF k

LEMMA PutIs ==
  ASSUME NEW m \in ItemMaps, NEW dir \in Dirs, m[dir] # NoItem
  PROVE  /\ \A items : [m EXCEPT ![dir].items = items] =
                       Put(m, dir, m[dir].autoUpdates, m[dir].complete, items)
         /\ \A complete : [m EXCEPT ![dir].complete = complete] =
                       Put(m, dir, m[dir].autoUpdates, complete, m[dir].items)
<1>1. m[dir] \in [autoUpdates : Nat, complete : BOOLEAN, items : SUBSET Items]
  BY ItemType
<1>2. /\ \A items : [m[dir] EXCEPT !.items = items] =
           [autoUpdates |-> m[dir].autoUpdates, complete |-> m[dir].complete,
            items |-> items]
      /\ \A complete : [m[dir] EXCEPT !.complete = complete] =
           [autoUpdates |-> m[dir].autoUpdates, complete |-> complete,
            items |-> m[dir].items]
  BY <1>1
<1> QED BY <1>2 DEF Put

\* The items of one directory and its state change.
WithItem(s, where, dir, complete, items) ==
  [s EXCEPT ![where] = Put(s[where], dir, s[where][dir].autoUpdates, complete, items)]

LEMMA ItemHarmless ==
  ASSUME NEW s \in States, NEW where \in Places, NEW dir \in Dirs,
         s[where][dir] # NoItem, NEW complete \in BOOLEAN,
         NEW items \in SUBSET Contents[dir],
         where = "itemsInUse" \/ complete = s[where][dir].complete
  PROVE  LET t == WithItem(s, where, dir, complete, items) IN
         /\ Harmless(s, t) /\ SameUsers(s, t) /\ t.job = s.job
         /\ \A other \in Places \ {where} : t[other] = s[other]
         /\ t[where][dir] # NoItem
         /\ t[where][dir].complete = complete /\ t[where][dir].items = items
         /\ \A d \in Dirs \ {dir} : t[where][d] = s[where][d]
<1> DEFINE old == s[where]
           n == old[dir].autoUpdates
           m == Put(old, dir, n, complete, items)
           t == WithItem(s, where, dir, complete, items)
<1>1. old \in ItemMaps
  BY DEF States, Places
<1>2. n \in Nat
  BY <1>1, ItemType
<1>3. /\ m \in ItemMaps /\ m[dir] # NoItem
      /\ m[dir].autoUpdates = n /\ m[dir].complete = complete /\ m[dir].items = items
      /\ \A d \in Dirs \ {dir} : m[d] = old[d]
  <2> HIDE DEF n, old
  <2> QED BY <1>1, <1>2, ItemPut
<1> HIDE DEF m
<1>4. /\ t \in States /\ t[where] = m
      /\ \A other \in Places \ {where} : t[other] = s[other]
      /\ SameUsers(s, t) /\ t.job = s.job
  <2> DEFINE e == [s EXCEPT ![where] = m]
  <2>1. t = e
    BY DEF WithItem, m, old, n
  <2>2. /\ e \in States /\ e[where] = m
        /\ \A other \in Places \ {where} : e[other] = s[other]
        /\ SameUsers(s, e) /\ e.job = s.job
    BY <1>3, PutItems
  <2> HIDE DEF t, e
  <2> QED BY <2>1, <2>2
<1> HIDE DEF t
<1>5. ASSUME NEW d \in Dirs
      PROVE  /\ t.itemsInUse[d] = NoItem <=> s.itemsInUse[d] = NoItem
             /\ t.itemsInUse[d] # NoItem =>
                  t.itemsInUse[d].autoUpdates = s.itemsInUse[d].autoUpdates
             /\ t.itemsCached[d] # NoItem => s.itemsCached[d] # NoItem
             /\ CachedOK(s, d) => CachedOK(t, d)
  <2>1. CASE where = "itemsInUse"
    <3>1. t.itemsInUse = m /\ t.itemsCached = s.itemsCached /\ old = s.itemsInUse
      BY <1>4, <2>1, Fields DEF Places
    <3>2. CASE d = dir
      BY <1>3, <3>1, <3>2 DEF CachedOK
    <3>3. CASE d # dir
      BY <1>3, <3>1, <3>3 DEF CachedOK
    <3> QED BY <3>2, <3>3
  <2>2. CASE where = "itemsCached"
    <3>1. t.itemsCached = m /\ t.itemsInUse = s.itemsInUse /\ old = s.itemsCached
      BY <1>4, <2>2, Fields DEF Places
    <3>2. CASE d = dir
      <4>1. m[dir].complete = s.itemsCached[dir].complete
        BY <1>3, <2>2, <3>1
      <4> QED BY <1>3, <3>1, <3>2, <4>1 DEF CachedOK
    <3>3. CASE d # dir
      BY <1>3, <3>1, <3>3 DEF CachedOK
    <3> QED BY <3>2, <3>3
  <2> QED BY <2>1, <2>2 DEF Places
<1>6. \A d \in Dirs : Users(t, d) = Users(s, d)
  BY <1>4 DEF SameUsers, Users
<1>7. Harmless(s, t)
  BY <1>4, <1>5, <1>6 DEF SameUsers, Harmless, PostedOK
<1> QED BY <1>3, <1>4, <1>7 DEF t

-----------------------------------------------------------------------------
(* Items that are gone *)

DeleteOp(p, d, t) == DeleteDir(t, d)

StillConsistent(q, D, t) == Consistent(t)

Sweeping == INSTANCE FoldLemmas WITH Op <- DeleteOp, Inv <- StillConsistent

LEMMA ItemsDeletedIs ==
  ASSUME NEW s, NEW listers, NEW dir, NEW items
  PROVE  ItemsDeleted(s, listers, dir, items) =
           Sweeping!Fold(0, Retract(s, listers, dir, items), items \cap Dirs)
BY DEF ItemsDeleted, DeleteOp, Sweeping!Fold,
       Sweeping!MapThenFoldSet, FoldSet, MapThenFoldSet

LEMMA ItemsDeletedKeeps ==
  ASSUME NEW s, Consistent(s), NEW listers, NEW dir, NEW items
  PROVE  Consistent(ItemsDeleted(s, listers, dir, items))
<1> DEFINE S == items \cap Dirs
           b == Retract(s, listers, dir, items)
           t == Sweeping!Fold(0, b, S)
<1>1. ItemsDeleted(s, listers, dir, items) = t
  BY ItemsDeletedIs
<1>2. IsFiniteSet(S) /\ S \subseteq Dirs
  BY FiniteAssumption, FS_Subset
<1>3. Consistent(b)
  <2>1. s \in States
    BY DEF Consistent, Agreed
  <2>2. Quiet(s, b)
    BY <2>1, RetractQuiet
  <2> HIDE DEF b
  <2> QED BY <2>2, QuietKeeps
<1> HIDE DEF S, b
<1>4. StillConsistent(0, {}, b)
  BY <1>3 DEF StillConsistent
<1>5. \A D \in SUBSET S : \A x \in S \ D : \A v :
        StillConsistent(0, D, v) => StillConsistent(0, D \union {x}, DeleteOp(0, x, v))
  BY <1>2, DeleteDirKeeps DEF StillConsistent, DeleteOp
<1>6. StillConsistent(0, S, t)
  BY <1>2, <1>4, <1>5, Sweeping!FoldKeeps, FiniteGrounded, Zenon DEF Sweeping!Grounded
<1> HIDE DEF t
<1> QED BY <1>1, <1>6 DEF StillConsistent

\* An item is taken out of the item of dir.
LEMMA ItemGoneHarmless ==
  ASSUME NEW s \in States, NEW where \in Places, NEW dir \in Dirs,
         s[where][dir] # NoItem, NEW item
  PROVE  Harmless(s, [s EXCEPT ![where][dir].items = @ \ {item}])
<1> DEFINE a == [s EXCEPT ![where][dir].items = @ \ {item}]
           complete == s[where][dir].complete
           items == s[where][dir].items \ {item}
<1>1. s[where] \in ItemMaps
  BY DEF States, Places
<1>2. complete \in BOOLEAN /\ items \in SUBSET Contents[dir]
  BY <1>1, ItemType
<1>3. a = WithItem(s, where, dir, complete, items)
  <2> DEFINE m == s[where]
  <2>1. [m EXCEPT ![dir].items = items] = Put(m, dir, m[dir].autoUpdates, complete, items)
    <3>1. m \in ItemMaps /\ m[dir] # NoItem /\ complete = m[dir].complete
      BY <1>1
    <3> HIDE DEF m, items, complete
    <3>2. [m EXCEPT ![dir].items = items] =
            Put(m, dir, m[dir].autoUpdates, m[dir].complete, items)
      BY <3>1, PutIs
    <3> QED BY <3>1, <3>2
  <2>2. a = [s EXCEPT ![where] = [s[where] EXCEPT ![dir].items = items]]
    OBVIOUS
  <2> HIDE DEF a, complete, items
  <2> QED BY <2>1, <2>2 DEF WithItem
<1>4. where = "itemsInUse" \/ complete = s[where][dir].complete
  OBVIOUS
<1> HIDE DEF a, complete, items
<1>5. Harmless(s, WithItem(s, where, dir, complete, items))
  BY <1>2, <1>4, ItemHarmless
<1> QED BY <1>3, <1>5 DEF a

LEMMA FilesRemovedKeeps ==
  ASSUME NEW s, Consistent(s), NEW dir \in Dirs, NEW item
  PROVE  Consistent(FilesRemoved(s, dir, item))
<1> DEFINE where == IF HasDirItem(s, "itemsInUse", dir) THEN "itemsInUse"
                                                        ELSE "itemsCached"
           known == HasDirItem(s, where, dir) /\ item \in s[where][dir].items
           a == [s EXCEPT ![where][dir].items = @ \ {item}]
           b == Retract(a, s.listersCurrentlyHolding[dir], dir, {item})
           t == IF ~known THEN s ELSE b
           deletes == item \in Dirs /\ (known \/ Users(s, item) # {}
                                              \/ HasDirItem(s, "itemsCached", item))
<1>1. FilesRemoved(s, dir, item) = IF deletes THEN DeleteDir(t, item) ELSE t
  BY DEF FilesRemoved
<1>2. where \in Places
  BY DEF Places
<1>3. ASSUME known PROVE Consistent(b)
  <2>1. s \in States /\ s[where][dir] # NoItem
    BY <1>3 DEF Consistent, Agreed, HasDirItem
  <2> HIDE DEF where, known
  <2>2. Harmless(s, a)
    BY <1>2, <2>1, ItemGoneHarmless
  <2> HIDE DEF a
  <2>3. Consistent(a) /\ a \in States
    BY <2>2, HarmlessKeeps DEF Consistent, Harmless
  <2>4. Quiet(a, b)
    BY <2>3, RetractQuiet
  <2> HIDE DEF b
  <2> QED BY <2>3, <2>4, QuietKeeps
<1> HIDE DEF known, b
<1>4. Consistent(t)
  BY <1>3
<1> HIDE DEF t, deletes
<1>5. deletes => item \in Dirs
  BY DEF deletes
<1>6. deletes => Consistent(DeleteDir(t, item))
  BY <1>4, <1>5, DeleteDirKeeps
<1> QED BY <1>1, <1>4, <1>6
-----------------------------------------------------------------------------
(* updateDirectory *)

LEMMA MarkDirtyHarmless ==
  ASSUME NEW s \in States, NEW dir \in Dirs
  PROVE  Harmless(s, MarkDirty(s, dir)) /\ SameUsers(s, MarkDirty(s, dir))
<1> DEFINE e == [s EXCEPT !.itemsCached[dir].complete = FALSE]
           m == s.itemsCached
           n == m[dir].autoUpdates
           items == m[dir].items
           new == Put(m, dir, n, FALSE, items)
           u == DecAutoUpdate(e, "itemsCached", dir)
           t == MarkDirty(s, dir)
<1>1. t = IF HasDirItem(s, "itemsCached", dir) /\ m[dir].complete THEN u ELSE s
  BY DEF MarkDirty
<1>2. CASE ~(HasDirItem(s, "itemsCached", dir) /\ m[dir].complete)
  <2>1. t = s
    BY <1>1, <1>2
  <2>2. Harmless(s, s) /\ SameUsers(s, s)
    BY QuietNothing, QuietHarmless DEF Quiet
  <2> HIDE DEF t
  <2> QED BY <2>1, <2>2 DEF t
<1>3. CASE HasDirItem(s, "itemsCached", dir) /\ m[dir].complete
  <2>1. t = u
    BY <1>1, <1>3
  <2>2. m \in ItemMaps /\ m[dir] # NoItem
    BY <1>3, Fields DEF States
  <2>3. n \in Nat /\ items \in SUBSET Contents[dir]
    BY <2>2, ItemType
  <2>4. e = [s EXCEPT !.itemsCached = new]
    <3>1. [m EXCEPT ![dir].complete = FALSE] = new
      BY <2>2, PutIs
    <3> HIDE DEF new
    <3> QED BY <3>1 DEF States
  <2>5. /\ new \in ItemMaps /\ new[dir] # NoItem
        /\ new[dir].autoUpdates = n /\ new[dir].complete = FALSE
        /\ \A d \in Dirs \ {dir} : new[d] = m[d]
    <3> HIDE DEF n, m, items
    <3>1. \A b \in BOOLEAN :
            /\ Put(m, dir, n, b, items) \in ItemMaps /\ Put(m, dir, n, b, items)[dir] # NoItem
            /\ Put(m, dir, n, b, items)[dir].autoUpdates = n
            /\ Put(m, dir, n, b, items)[dir].complete = b
            /\ \A d \in Dirs \ {dir} : Put(m, dir, n, b, items)[d] = m[d]
      BY <2>2, <2>3, ItemPut
    <3> QED BY <3>1, Zenon
  <2> HIDE DEF new, e
  <2>6. /\ e \in States /\ SameUsers(s, e) /\ e.job = s.job
        /\ e.itemsInUse = s.itemsInUse /\ e.itemsCached = new
    BY <2>4, <2>5 DEF States, SameUsers
  <2>7. HasDirItem(e, "itemsCached", dir) /\ "itemsCached" \in Places
        /\ "itemsInUse" \in Places \ {"itemsCached"}
    BY <2>5, <2>6, Fields DEF Places
  <2>8. /\ u \in States /\ SameUsers(e, u) /\ u.job = e.job
        /\ u["itemsInUse"] = e["itemsInUse"]
        /\ \A d \in Dirs \ {dir} : u["itemsCached"][d] = e["itemsCached"][d]
        /\ HasDirItem(u, "itemsCached", dir)
        /\ u["itemsCached"][dir].autoUpdates =
             IF e["itemsCached"][dir].autoUpdates = 0 THEN 0
             ELSE e["itemsCached"][dir].autoUpdates - 1
        /\ u["itemsCached"][dir].complete = e["itemsCached"][dir].complete
    BY <2>6, <2>7, DecAt
  <2> HIDE DEF u
  <2>9. /\ u.itemsInUse = s.itemsInUse
        /\ \A d \in Dirs \ {dir} : u.itemsCached[d] = m[d]
        /\ u.itemsCached[dir].autoUpdates = IF n = 0 THEN 0 ELSE n - 1
        /\ u.itemsCached[dir].complete = FALSE
    BY <2>5, <2>6, <2>8, Fields
  <2>10. CachedOK(s, dir) => CachedOK(u, dir)
    <3>1. CachedOK(s, dir) => n = 1
      BY <1>3, <2>2 DEF CachedOK
    <3> QED BY <2>9, <3>1 DEF CachedOK
  <2>11. \A d \in Dirs \ {dir} : CachedOK(s, d) => CachedOK(u, d)
    BY <2>9 DEF CachedOK
  <2>12. \A d \in Dirs : Users(u, d) = Users(s, d)
    BY <2>6, <2>8 DEF SameUsers, Users
  <2>13. Harmless(s, u) /\ SameUsers(s, u)
    <3>1. \A d \in Dirs : u.itemsCached[d] # NoItem => s.itemsCached[d] # NoItem
      BY <2>2, <2>9
    <3>2. \A d \in Dirs : CachedOK(s, d) => CachedOK(u, d)
      BY <2>10, <2>11
    <3>3. u \in States /\ SameUsers(s, u) /\ u.job = s.job /\ u.itemsInUse = s.itemsInUse
      BY <2>6, <2>8, <2>9 DEF SameUsers
    <3> QED BY <2>12, <3>1, <3>2, <3>3 DEF SameUsers, Harmless, PostedOK
  <2> HIDE DEF t
  <2> QED BY <2>1, <2>13 DEF t
<1> QED BY <1>2, <1>3

LEMMA EmitFacts ==
  ASSUME NEW s \in States, NEW l \in Listers, s.cachedItemsJob[l] # NoJob
  PROVE  LET t == EmitCachedItems(s, l) IN
         /\ Harmless(s, t) /\ t.job = s.job /\ SameItems(s, t)
         /\ t.listersCurrentlyListing = s.listersCurrentlyListing
         /\ t.listersCurrentlyHolding = s.listersCurrentlyHolding
         /\ t.cachedItemsJob[l] = NoJob
         /\ \A k \in Listers \ {l} : t.cachedItemsJob[k] = s.cachedItemsJob[k]
<1> DEFINE a == NoCachedItemsJob(s, l)
           b == [a EXCEPT !.complete[l] = FALSE]
           url == s.cachedItemsJob[l].url
           items == s.cachedItemsJob[l].items
           t == EmitCachedItems(s, l)
<1>1. /\ a \in States /\ SameItems(s, a) /\ a.job = s.job
      /\ a.lstDirs = s.lstDirs /\ a.url = s.url /\ a.autoUpdate = s.autoUpdate
      /\ a.listersCurrentlyListing = s.listersCurrentlyListing
      /\ a.listersCurrentlyHolding = s.listersCurrentlyHolding
      /\ a.cachedItemsJob[l] = NoJob
      /\ \A k \in Listers \ {l} : a.cachedItemsJob[k] = s.cachedItemsJob[k]
  BY NoCachedItemsJobFacts
<1> HIDE DEF a
<1>2. Quiet(a, b)
  BY <1>1 DEF Quiet, States, SameUsers, SameItems
<1>3. url \in Dirs /\ items \in SUBSET Contents[url]
  BY UrlType
<1>4. t = Announce(b, {l}, url, items)
  BY DEF EmitCachedItems, a
<1> HIDE DEF b, url, items, t
<1>5. Quiet(b, t)
  <2>1. b \in States /\ {l} \in SUBSET Listers
    BY <1>2 DEF Quiet
  <2> QED BY <1>3, <1>4, <2>1, AnnounceQuiet
<1>6. Quiet(a, t)
  BY <1>2, <1>5, QuietTwice
<1>7. /\ t \in States /\ SameItems(s, t) /\ t.job = s.job
      /\ t.lstDirs = s.lstDirs /\ t.url = s.url /\ t.autoUpdate = s.autoUpdate
      /\ t.listersCurrentlyListing = s.listersCurrentlyListing
      /\ t.listersCurrentlyHolding = s.listersCurrentlyHolding
      /\ t.cachedItemsJob[l] = NoJob
      /\ \A k \in Listers \ {l} : t.cachedItemsJob[k] = s.cachedItemsJob[k]
  BY <1>1, <1>6 DEF Quiet, SameUsers, SameItems
<1>8. \A k \in Listers : PostedOK(s, k) => PostedOK(t, k)
  <2>1. SUFFICES ASSUME NEW k \in Listers, PostedOK(s, k) PROVE PostedOK(t, k)
    OBVIOUS
  <2>2. CASE k = l
    BY <1>7, <2>2 DEF PostedOK
  <2>3. CASE k # l
    BY <1>7, <2>1, <2>3 DEF PostedOK
  <2> QED BY <2>2, <2>3
<1>9. Harmless(s, t)
  <2>1. \A d \in Dirs : Users(t, d) = Users(s, d)
    BY <1>7 DEF Users
  <2> QED BY <1>7, <1>8, <2>1 DEF Harmless, SameItems, CachedOK
<1> QED BY <1>7, <1>9 DEF t

EmitOp(p, l, t) == EmitCachedItems(t, l)

\* The listers D have got their items; q is the state before and those who are
\* to get theirs.
Emitted(q, D, t) ==
  /\ Harmless(q[1], t)
  /\ \A l \in q[2] \ D : t.cachedItemsJob[l] # NoJob

Emitting == INSTANCE FoldLemmas WITH Op <- EmitOp, Inv <- Emitted

LEMMA RestartIs ==
  ASSUME NEW s, NEW dir
  PROVE  Restart(s, dir) =
           IF s.job[dir] # NoJob THEN JobGone(JobDone(s, Users(s, dir), dir), dir)
           ELSE Emitting!Fold(0, s, {l \in s.listersCurrentlyListing[dir] :
                                       s.cachedItemsJob[l] # NoJob})
BY DEF Restart, EmitOp, Emitting!Fold, Emitting!MapThenFoldSet,
       FoldSet, MapThenFoldSet

LEMMA RestartHarmless ==
  ASSUME NEW s \in States, NEW dir \in Dirs
  PROVE  Harmless(s, Restart(s, dir))
<1> DEFINE S == {l \in s.listersCurrentlyListing[dir] : s.cachedItemsJob[l] # NoJob}
           a == JobDone(s, Users(s, dir), dir)
           b == JobGone(a, dir)
           e == Emitting!Fold(0, s, S)
           t == Restart(s, dir)
<1>1. t = IF s.job[dir] # NoJob THEN b ELSE e
  BY RestartIs
<1>2. Harmless(s, b)
  <2>1. Quiet(s, a)
    BY JobDoneQuiet
  <2> HIDE DEF a
  <2>2. Harmless(s, a) /\ a \in States
    BY <2>1, QuietHarmless DEF Quiet
  <2>3. Harmless(a, b)
    BY <2>2, JobGoneHarmless
  <2> HIDE DEF b
  <2> QED BY <2>2, <2>3, HarmlessTwice
<1>3. Harmless(s, e)
  <2>1. S \subseteq Listers /\ IsFiniteSet(S) /\ \A l \in S : s.cachedItemsJob[l] # NoJob
    <3>1. S \subseteq Listers /\ \A l \in S : s.cachedItemsJob[l] # NoJob
      BY DEF States
    <3> HIDE DEF S
    <3> QED BY <3>1, FiniteAssumption, FS_Subset
  <2> HIDE DEF S
  <2>2. Emitted(<<s, S>>, {}, s)
    BY <2>1, QuietNothing, QuietHarmless DEF Emitted
  <2>3. ASSUME NEW D \in SUBSET S, NEW l \in S \ D, NEW v, Emitted(<<s, S>>, D, v)
        PROVE  Emitted(<<s, S>>, D \union {l}, EmitOp(0, l, v))
    <3> DEFINE w == EmitCachedItems(v, l)
    <3>1. Harmless(s, v) /\ \A k \in S \ D : v.cachedItemsJob[k] # NoJob
      BY <2>3 DEF Emitted
    <3>2. v \in States /\ l \in Listers /\ v.cachedItemsJob[l] # NoJob
      BY <2>1, <3>1 DEF Harmless
    <3>3. /\ Harmless(v, w)
          /\ \A k \in Listers \ {l} : w.cachedItemsJob[k] = v.cachedItemsJob[k]
      BY <3>2, EmitFacts
    <3> HIDE DEF w
    <3>4. Harmless(s, w)
      BY <3>1, <3>3, HarmlessTwice
    <3>5. \A k \in S \ (D \union {l}) : w.cachedItemsJob[k] # NoJob
      BY <2>1, <3>1, <3>3
    <3>6. Emitted(<<s, S>>, D \union {l}, w)
      BY <3>4, <3>5 DEF Emitted
    <3> QED BY <3>6 DEF w, EmitOp
  <2>4. \A D \in SUBSET S : \A l \in S \ D : \A v :
          Emitted(<<s, S>>, D, v) => Emitted(<<s, S>>, D \union {l}, EmitOp(0, l, v))
    BY <2>3
  <2>5. Emitted(<<s, S>>, S, e)
    BY <2>1, <2>2, <2>4, Emitting!FoldKeeps, FiniteGrounded, Zenon DEF Emitting!Grounded
  <2> HIDE DEF e
  <2> QED BY <2>5 DEF Emitted
<1> HIDE DEF b, e, t
<1> QED BY <1>1, <1>2, <1>3 DEF t

LEMMA UpdateDirectoryHarmless ==
  ASSUME NEW s \in States, NEW dir \in Dirs, DirOK(s, dir)
  PROVE  Harmless(s, UpdateDirectory(s, dir))
<1> DEFINE t == UpdateDirectory(s, dir)
           a == Restart(s, dir)
           b == NewJob(a, dir, "update")
           e == JobStarted(b, Users(s, dir), dir)
<1>1. t = IF ~HasDirItem(s, "itemsInUse", dir) THEN MarkDirty(s, dir) ELSE e
  BY DEF UpdateDirectory
<1>2. CASE ~HasDirItem(s, "itemsInUse", dir)
  <2>1. t = MarkDirty(s, dir)
    BY <1>1, <1>2
  <2> HIDE DEF t
  <2>2. Harmless(s, t)
    BY <2>1, MarkDirtyHarmless
  <2> QED BY <2>2 DEF t
<1>3. CASE HasDirItem(s, "itemsInUse", dir)
  <2>1. Users(s, dir) # {}
    BY <1>3 DEF DirOK
  <2>2. Harmless(s, a)
    BY RestartHarmless
  <2> HIDE DEF a
  <2>3. a \in States /\ Users(a, dir) # {} /\ "update" \in {"list", "update"}
    BY <2>1, <2>2 DEF Harmless
  <2>4. Harmless(a, b)
    BY <2>3, NewJobHarmless
  <2> HIDE DEF b
  <2>5. b \in States
    BY <2>4 DEF Harmless
  <2>6. Quiet(b, e)
    BY <2>5, JobStartedQuiet
  <2> HIDE DEF e
  <2>7. Harmless(s, e)
    BY <2>2, <2>4, <2>6, QuietHarmless, HarmlessTwice
  <2>8. t = e
    BY <1>1, <1>3
  <2> HIDE DEF t
  <2> QED BY <2>7, <2>8 DEF t
<1> QED BY <1>2, <1>3

LEMMA UpdateDirectoryKeeps ==
  ASSUME NEW s, Consistent(s), NEW dir \in Dirs
  PROVE  Consistent(UpdateDirectory(s, dir))
<1>1. s \in States /\ DirOK(s, dir) /\ Agreed(s)
  BY DEF Consistent, Agreed
<1>2. Harmless(s, UpdateDirectory(s, dir))
  BY <1>1, UpdateDirectoryHarmless
<1> QED BY <1>1, <1>2, HarmlessKeeps

-----------------------------------------------------------------------------
(* The event loop *)

LEMMA HoldFacts ==
  ASSUME NEW s \in States, NEW dir \in Dirs,
         NEW listers \in SUBSET s.listersCurrentlyListing[dir],
         \A l \in listers : s.cachedItemsJob[l] = NoJob
  PROVE  LET t == Hold(s, listers, dir) IN
         /\ Harmless(s, t) /\ SameItems(s, t) /\ t.job = s.job
         /\ t.cachedItemsJob = s.cachedItemsJob
<1> DEFINE listing == [s.listersCurrentlyListing EXCEPT ![dir] = @ \ listers]
           holding == [s.listersCurrentlyHolding EXCEPT ![dir] = @ \union listers]
           t == Hold(s, listers, dir)
<1>1. t = [s EXCEPT !.listersCurrentlyListing = listing,
                    !.listersCurrentlyHolding = holding]
  BY DEF Hold, States
<1>2. /\ listing \in [Dirs -> SUBSET Listers] /\ holding \in [Dirs -> SUBSET Listers]
      /\ listing[dir] = s.listersCurrentlyListing[dir] \ listers
      /\ holding[dir] = s.listersCurrentlyHolding[dir] \union listers
      /\ \A d \in Dirs \ {dir} : /\ listing[d] = s.listersCurrentlyListing[d]
                                /\ holding[d] = s.listersCurrentlyHolding[d]
  BY DEF States
<1> HIDE DEF listing, holding, t
<1>3. /\ t \in States /\ SameItems(s, t) /\ t.job = s.job
      /\ t.lstDirs = s.lstDirs /\ t.url = s.url /\ t.autoUpdate = s.autoUpdate
      /\ t.cachedItemsJob = s.cachedItemsJob
      /\ t.listersCurrentlyListing = listing /\ t.listersCurrentlyHolding = holding
  BY <1>1, <1>2 DEF States, SameItems
<1>4. ASSUME NEW d \in Dirs
      PROVE  /\ Users(t, d) = Users(s, d)
             /\ s.listersCurrentlyListing[d] \cap s.listersCurrentlyHolding[d] = {}
                  => t.listersCurrentlyListing[d] \cap t.listersCurrentlyHolding[d] = {}
  <2>1. CASE d = dir
    BY <1>2, <1>3, <2>1 DEF Users
  <2>2. CASE d # dir
    BY <1>2, <1>3, <2>2 DEF Users
  <2> QED BY <2>1, <2>2
<1>5. ASSUME NEW l \in Listers, PostedOK(s, l) PROVE PostedOK(t, l)
  <2>1. SUFFICES ASSUME s.cachedItemsJob[l] # NoJob
                 PROVE  l \in t.listersCurrentlyListing[s.cachedItemsJob[l].url]
    BY <1>3 DEF PostedOK
  <2>2. l \notin listers /\ s.cachedItemsJob[l].url \in Dirs
    BY <2>1, UrlType
  <2>3. l \in s.listersCurrentlyListing[s.cachedItemsJob[l].url]
    BY <1>5, <2>1 DEF PostedOK
  <2> QED BY <1>2, <1>3, <2>2, <2>3
<1>6. Harmless(s, t)
  BY <1>3, <1>4, <1>5 DEF Harmless, SameItems, CachedOK
<1> QED BY <1>3, <1>6 DEF t

LEMMA CachedItemsDoneKeeps ==
  ASSUME Consistent(c), NEW l \in Listers, CachedItemsDone(l)
  PROVE  Consistent(c')
<1> DEFINE dir == c.cachedItemsJob[l].url
           t == EmitCachedItems(c, l)
           a == Hold(t, {l}, dir)
           held == [a EXCEPT !.complete[l] = TRUE]
<1>1. /\ c \in States /\ Agreed(c) /\ c.cachedItemsJob[l] # NoJob /\ PostedOK(c, l)
      /\ \/ c' = t \/ c' = UpdateDirectory(held, dir) \/ c' = held
  BY DEF Consistent, Agreed, CachedItemsDone
<1>2. dir \in Dirs
  BY <1>1, UrlType
<1>3. /\ Harmless(c, t) /\ t.cachedItemsJob[l] = NoJob
      /\ t.listersCurrentlyListing = c.listersCurrentlyListing
  BY <1>1, EmitFacts
<1>4. l \in c.listersCurrentlyListing[dir]
  BY <1>1 DEF PostedOK
<1> HIDE DEF t, dir
<1>5. t \in States /\ {l} \in SUBSET t.listersCurrentlyListing[dir]
      /\ \A k \in {l} : t.cachedItemsJob[k] = NoJob
  BY <1>3, <1>4 DEF Harmless
<1>6. Harmless(t, a)
  BY <1>2, <1>5, HoldFacts
<1> HIDE DEF a
<1>7. Quiet(a, held)
  BY <1>6 DEF Harmless, Quiet, States, SameUsers, SameItems
<1> HIDE DEF held
<1>8. Consistent(t)
  BY <1>1, <1>3, HarmlessKeeps
<1>9. Consistent(a)
  BY <1>6, <1>8, HarmlessKeeps DEF Consistent
<1>10. Consistent(held)
  BY <1>7, <1>9, QuietKeeps
<1>11. Consistent(UpdateDirectory(held, dir))
  BY <1>2, <1>10, UpdateDirectoryKeeps
<1> QED BY <1>1, <1>8, <1>10, <1>11

\* A job is there when it was, and does the same.
SameKind(j, k) == /\ k # NoJob <=> j # NoJob
                  /\ j # NoJob => k.kind = j.kind

\* The same jobs run, whatever they have sent, and the listers count the same.
SameJobs(s, t) ==
  /\ t.jobData = s.jobData
  /\ \A d \in Dirs : SameKind(s.job[d], t.job[d])

LEMMA SameJobsAt ==
  ASSUME NEW s, NEW t, SameJobs(s, t), NEW d \in Dirs
  PROVE  /\ t.job[d] # NoJob <=> s.job[d] # NoJob
         /\ s.job[d] # NoJob => t.job[d].kind = s.job[d].kind
<1>1. SameKind(s.job[d], t.job[d])
  BY DEF SameJobs
<1> QED BY <1>1 DEF SameKind

LEMMA SameJobsTwice ==
  ASSUME NEW s, NEW t, NEW u, SameJobs(s, t), SameJobs(t, u)
  PROVE  SameJobs(s, u)
<1>1. u.jobData = s.jobData
  BY DEF SameJobs
<1>2. ASSUME NEW d \in Dirs PROVE SameKind(s.job[d], u.job[d])
  <2>1. SameKind(s.job[d], t.job[d]) /\ SameKind(t.job[d], u.job[d])
    BY DEF SameJobs
  <2> QED BY <2>1 DEF SameKind
<1> QED BY <1>1, <1>2 DEF SameJobs

JobPut(s, dir, kind, read, left, buffer) ==
  [s EXCEPT !.job[dir] =
     [kind |-> kind, read |-> read, left |-> left, buffer |-> buffer]]

LEMMA JobPutFacts ==
  ASSUME NEW s \in States, NEW dir \in Dirs, s.job[dir] # NoJob,
         NEW kind \in {"list", "update"}, NEW read \in BOOLEAN,
         NEW left \in SUBSET Contents[dir], NEW buffer \in SUBSET Contents[dir]
  PROVE  LET t == JobPut(s, dir, kind, read, left, buffer) IN
         /\ Harmless(s, t) /\ t.job[dir] # NoJob
         /\ t.job[dir].kind = kind /\ t.job[dir].buffer = buffer
         /\ SameUsers(s, t) /\ (kind = s.job[dir].kind => SameJobs(s, t))
<1> DEFINE new == [kind |-> kind, read |-> read, left |-> left, buffer |-> buffer]
           job == [s.job EXCEPT ![dir] = new]
           t == JobPut(s, dir, kind, read, left, buffer)
<1>1. t = [s EXCEPT !.job = job]
  BY DEF JobPut, States
<1>2. new \in ListJobs
  BY ContentsAreItems DEF ListJobs
<1>3. new # NoJob
  <2> HIDE DEF new
  <2> QED BY <1>2, NoJobAssumption
<1>4. /\ new.left \subseteq Contents[dir] /\ new.buffer \subseteq Contents[dir]
      /\ new.kind = kind /\ new.buffer = buffer
  OBVIOUS
<1> HIDE DEF new
<1>5. job \in JobMaps /\ job[dir] = new /\ \A d \in Dirs \ {dir} : job[d] = s.job[d]
  BY <1>2, <1>3, <1>4 DEF States, JobMaps
<1> HIDE DEF job, t
<1>6. t \in States /\ SameUsers(s, t) /\ SameItems(s, t) /\ t.job = job
      /\ t.jobData = s.jobData
  BY <1>1, <1>5 DEF States, SameUsers, SameItems
<1>7. Harmless(s, t)
  <2>1. \A d \in Dirs : t.job[d] # NoJob => s.job[d] # NoJob
    BY <1>5, <1>6
  <2>2. \A d \in Dirs : Users(t, d) = Users(s, d)
    BY <1>6 DEF SameUsers, Users
  <2> QED BY <1>6, <2>1, <2>2 DEF SameUsers, SameItems, Harmless, PostedOK, CachedOK
<1>8. t.job[dir] # NoJob /\ t.job[dir].kind = kind /\ t.job[dir].buffer = buffer
  BY <1>3, <1>4, <1>5, <1>6
<1>9. kind = s.job[dir].kind => SameJobs(s, t)
  BY <1>3, <1>4, <1>5, <1>6 DEF SameJobs, SameKind
<1> QED BY <1>6, <1>7, <1>8, <1>9 DEF t

LEMMA JobType ==
  ASSUME NEW s \in States, NEW dir \in Dirs, s.job[dir] # NoJob
  PROVE  /\ s.job[dir] \in [kind : {"list", "update"}, read : BOOLEAN,
                            left : SUBSET Items, buffer : SUBSET Items]
         /\ s.job[dir].kind \in {"list", "update"} /\ s.job[dir].read \in BOOLEAN
         /\ s.job[dir].left \in SUBSET Contents[dir]
         /\ s.job[dir].buffer \in SUBSET Contents[dir]
<1>1. s.job[dir] \in ListJobs
  BY DEF States, JobMaps
<1>2. /\ s.job[dir].left \in SUBSET Contents[dir]
      /\ s.job[dir].buffer \in SUBSET Contents[dir]
  BY DEF States, JobMaps
<1> QED BY <1>1, <1>2 DEF ListJobs

LEMMA JobRecord ==
  ASSUME NEW r \in [kind : {"list", "update"}, read : BOOLEAN,
                    left : SUBSET Items, buffer : SUBSET Items], NEW left
  PROVE  [r EXCEPT !.read = TRUE, !.left = left] =
           [kind |-> r.kind, read |-> TRUE, left |-> left, buffer |-> r.buffer]
<1>1. ASSUME NEW yes
      PROVE  [r EXCEPT !.read = yes, !.left = left] =
               [kind |-> r.kind, read |-> yes, left |-> left, buffer |-> r.buffer]
  <2> DEFINE q == [r EXCEPT !.read = yes]
  <2>1. /\ q \in [kind : {"list", "update"}, read : {yes},
                  left : SUBSET Items, buffer : SUBSET Items]
        /\ q.kind = r.kind /\ q.read = yes /\ q.left = r.left /\ q.buffer = r.buffer
    OBVIOUS
  <2>2. [r EXCEPT !.read = yes, !.left = left] = [q EXCEPT !.left = left]
    OBVIOUS
  <2> HIDE DEF q
  <2>3. [q EXCEPT !.left = left] =
          [kind |-> q.kind, read |-> q.read, left |-> left, buffer |-> q.buffer]
    BY <2>1
  <2> QED BY <2>1, <2>2, <2>3
<1> QED BY <1>1, Zenon

LEMMA ItemRecord ==
  ASSUME NEW r \in [autoUpdates : Nat, complete : BOOLEAN, items : SUBSET Items],
         NEW items
  PROVE  [r EXCEPT !.items = items, !.complete = TRUE] =
           [autoUpdates |-> r.autoUpdates, complete |-> TRUE, items |-> items]
<1>1. ASSUME NEW yes
      PROVE  [r EXCEPT !.items = items, !.complete = yes] =
               [autoUpdates |-> r.autoUpdates, complete |-> yes, items |-> items]
  <2> DEFINE q == [r EXCEPT !.items = items]
  <2>1. /\ q \in [autoUpdates : Nat, complete : BOOLEAN, items : {items}]
        /\ q.autoUpdates = r.autoUpdates /\ q.complete = r.complete /\ q.items = items
    OBVIOUS
  <2>2. [r EXCEPT !.items = items, !.complete = yes] = [q EXCEPT !.complete = yes]
    OBVIOUS
  <2> HIDE DEF q
  <2>3. [q EXCEPT !.complete = yes] =
          [autoUpdates |-> q.autoUpdates, complete |-> yes, items |-> q.items]
    BY <2>1
  <2> QED BY <2>1, <2>2, <2>3
<1> QED BY <1>1, Zenon

LEMMA JobPutIs ==
  ASSUME NEW s \in States, NEW dir \in Dirs, s.job[dir] # NoJob
  PROVE  /\ \A left : [s EXCEPT !.job[dir].read = TRUE, !.job[dir].left = left] =
              JobPut(s, dir, s.job[dir].kind, TRUE, left, s.job[dir].buffer)
         /\ \A buffer : [s EXCEPT !.job[dir].buffer = buffer] =
              JobPut(s, dir, s.job[dir].kind, s.job[dir].read, s.job[dir].left, buffer)
<1>1. s.job[dir] \in [kind : {"list", "update"}, read : BOOLEAN,
                      left : SUBSET Items, buffer : SUBSET Items]
  BY JobType
<1>2. /\ \A left : [s.job[dir] EXCEPT !.read = TRUE, !.left = left] =
           [kind |-> s.job[dir].kind, read |-> TRUE, left |-> left,
            buffer |-> s.job[dir].buffer]
      /\ \A buffer : [s.job[dir] EXCEPT !.buffer = buffer] =
           [kind |-> s.job[dir].kind, read |-> s.job[dir].read,
            left |-> s.job[dir].left, buffer |-> buffer]
  <2> DEFINE r == s.job[dir]
  <2> HIDE DEF r
  <2>1. \A left : [r EXCEPT !.read = TRUE, !.left = left] =
          [kind |-> r.kind, read |-> TRUE, left |-> left, buffer |-> r.buffer]
    BY <1>1, JobRecord DEF r
  <2>2. \A buffer : [r EXCEPT !.buffer = buffer] =
          [kind |-> r.kind, read |-> r.read, left |-> r.left, buffer |-> buffer]
    BY <1>1 DEF r
  <2> QED BY <2>1, <2>2 DEF r
<1>3. "job" \in DOMAIN s /\ dir \in DOMAIN s.job
  BY DEF States, JobMaps
<1>4. ASSUME NEW left
      PROVE  [s EXCEPT !.job[dir].read = TRUE, !.job[dir].left = left] =
               [s EXCEPT !.job[dir] = [s.job[dir] EXCEPT !.read = TRUE, !.left = left]]
  BY <1>3
<1>5. ASSUME NEW buffer
      PROVE  [s EXCEPT !.job[dir].buffer = buffer] =
               [s EXCEPT !.job[dir] = [s.job[dir] EXCEPT !.buffer = buffer]]
  BY <1>3
<1> QED BY <1>2, <1>4, <1>5 DEF JobPut

LEMMA WithItemIs ==
  ASSUME NEW s \in States, NEW dir \in Dirs, s.itemsInUse[dir] # NoItem
  PROVE  /\ \A items : [s EXCEPT !.itemsInUse[dir].items = items] =
              WithItem(s, "itemsInUse", dir, s.itemsInUse[dir].complete, items)
         /\ \A complete : [s EXCEPT !.itemsInUse[dir].complete = complete] =
              WithItem(s, "itemsInUse", dir, complete, s.itemsInUse[dir].items)
         /\ \A items : [s EXCEPT !.itemsInUse[dir].items = items,
                                !.itemsInUse[dir].complete = TRUE] =
              WithItem(s, "itemsInUse", dir, TRUE, items)
<1> DEFINE item == s.itemsInUse[dir]
<1>1. item \in [autoUpdates : Nat, complete : BOOLEAN, items : SUBSET Items]
  BY ItemType DEF States
<1>2. /\ \A items : [item EXCEPT !.items = items] =
           [autoUpdates |-> item.autoUpdates, complete |-> item.complete, items |-> items]
      /\ \A complete : [item EXCEPT !.complete = complete] =
           [autoUpdates |-> item.autoUpdates, complete |-> complete, items |-> item.items]
      /\ \A items : [item EXCEPT !.items = items, !.complete = TRUE] =
           [autoUpdates |-> item.autoUpdates, complete |-> TRUE, items |-> items]
  <2> HIDE DEF item
  <2>1. /\ \A items : [item EXCEPT !.items = items] =
             [autoUpdates |-> item.autoUpdates, complete |-> item.complete, items |-> items]
        /\ \A complete : [item EXCEPT !.complete = complete] =
             [autoUpdates |-> item.autoUpdates, complete |-> complete, items |-> item.items]
    BY <1>1
  <2>2. \A items : [item EXCEPT !.items = items, !.complete = TRUE] =
             [autoUpdates |-> item.autoUpdates, complete |-> TRUE, items |-> items]
    BY <1>1, ItemRecord
  <2> QED BY <2>1, <2>2
<1>3. "itemsInUse" \in DOMAIN s /\ dir \in DOMAIN s.itemsInUse
  BY DEF States, ItemMaps
<1> DEFINE at(x) == [s EXCEPT !.itemsInUse[dir] = x]
<1>4. /\ \A items : [s EXCEPT !.itemsInUse[dir].items = items] =
           at([item EXCEPT !.items = items])
      /\ \A complete : [s EXCEPT !.itemsInUse[dir].complete = complete] =
           at([item EXCEPT !.complete = complete])
      /\ \A items : [s EXCEPT !.itemsInUse[dir].items = items,
                              !.itemsInUse[dir].complete = TRUE] =
           at([item EXCEPT !.items = items, !.complete = TRUE])
  BY <1>3
<1>5. s["itemsInUse"] = s.itemsInUse
  BY Fields
<1>6. \A complete, items : WithItem(s, "itemsInUse", dir, complete, items) =
        at([autoUpdates |-> item.autoUpdates, complete |-> complete, items |-> items])
  BY <1>5 DEF WithItem, Put
<1> HIDE DEF item, at
<1>7. ASSUME NEW items
      PROVE  [s EXCEPT !.itemsInUse[dir].items = items] =
               WithItem(s, "itemsInUse", dir, item.complete, items)
  <2> DEFINE x == [item EXCEPT !.items = items]
             y == [autoUpdates |-> item.autoUpdates, complete |-> item.complete, items |-> items]
             t == [s EXCEPT !.itemsInUse[dir].items = items]
  <2>1. t = at(x)
    BY <1>4
  <2>2. x = y
    BY <1>2
  <2>3. WithItem(s, "itemsInUse", dir, item.complete, items) = at(y)
    BY <1>6
  <2> HIDE DEF x, y, t
  <2>4. t = WithItem(s, "itemsInUse", dir, item.complete, items)
    BY <2>1, <2>2, <2>3
  <2> QED BY <2>4 DEF t
<1>8. ASSUME NEW complete
      PROVE  [s EXCEPT !.itemsInUse[dir].complete = complete] =
               WithItem(s, "itemsInUse", dir, complete, item.items)
  <2> DEFINE x == [item EXCEPT !.complete = complete]
             y == [autoUpdates |-> item.autoUpdates, complete |-> complete, items |-> item.items]
             t == [s EXCEPT !.itemsInUse[dir].complete = complete]
  <2>1. t = at(x)
    BY <1>4
  <2>2. x = y
    BY <1>2
  <2>3. WithItem(s, "itemsInUse", dir, complete, item.items) = at(y)
    BY <1>6
  <2> HIDE DEF x, y, t
  <2>4. t = WithItem(s, "itemsInUse", dir, complete, item.items)
    BY <2>1, <2>2, <2>3
  <2> QED BY <2>4 DEF t
<1>9. ASSUME NEW items
      PROVE  [s EXCEPT !.itemsInUse[dir].items = items, !.itemsInUse[dir].complete = TRUE] =
               WithItem(s, "itemsInUse", dir, TRUE, items)
  <2> DEFINE x == [item EXCEPT !.items = items, !.complete = TRUE]
             y == [autoUpdates |-> item.autoUpdates, complete |-> TRUE, items |-> items]
             t == [s EXCEPT !.itemsInUse[dir].items = items, !.itemsInUse[dir].complete = TRUE]
  <2>1. t = at(x)
    BY <1>4
  <2>2. x = y
    BY <1>2
  <2>3. WithItem(s, "itemsInUse", dir, TRUE, items) = at(y)
    BY <1>6
  <2> HIDE DEF x, y, t
  <2>4. t = WithItem(s, "itemsInUse", dir, TRUE, items)
    BY <2>1, <2>2, <2>3
  <2> QED BY <2>4 DEF t
<1> QED BY <1>7, <1>8, <1>9 DEF item

\* A directory has only what may be in it.
DiskOK == \A dir \in Dirs : disk[dir] \subseteq Contents[dir]

LEMMA JobIsUsed ==
  ASSUME NEW s, Consistent(s), NEW dir \in Dirs, s.job[dir] # NoJob
  PROVE  /\ s \in States /\ Agreed(s) /\ Users(s, dir) # {}
         /\ s.itemsInUse[dir] # NoItem /\ s["itemsInUse"] = s.itemsInUse
<1>1. s \in States /\ Agreed(s) /\ DirOK(s, dir)
  BY DEF Consistent, Agreed
<1> QED BY <1>1, Fields DEF DirOK

\* What is used is replaced by other items, and its state.
LEMMA InUseHarmless ==
  ASSUME NEW s \in States, NEW dir \in Dirs, s.itemsInUse[dir] # NoItem,
         NEW complete \in BOOLEAN, NEW items \in SUBSET Contents[dir]
  PROVE  LET t == WithItem(s, "itemsInUse", dir, complete, items) IN
         /\ Harmless(s, t) /\ SameUsers(s, t) /\ t.job = s.job
         /\ t.itemsInUse[dir] # NoItem
<1> DEFINE t == WithItem(s, "itemsInUse", dir, complete, items)
<1>1. "itemsInUse" \in Places /\ s["itemsInUse"][dir] # NoItem
  BY Fields DEF Places
<1>2. Harmless(s, t) /\ SameUsers(s, t) /\ t.job = s.job /\ t["itemsInUse"][dir] # NoItem
  BY <1>1, ItemHarmless
<1> HIDE DEF t
<1>3. t.itemsInUse[dir] # NoItem
  BY <1>2, Fields DEF Harmless
<1> QED BY <1>2, <1>3 DEF t

LEMMA ReceiveFacts ==
  ASSUME Consistent(c), NEW dir \in Dirs, c.job[dir] # NoJob,
         NEW items \in SUBSET Contents[dir]
  PROVE  LET t == Receive(dir, items) IN
         /\ Harmless(c, t) /\ t.job[dir] # NoJob
         /\ SameUsers(c, t) /\ SameJobs(c, t)
<1> DEFINE a == [c EXCEPT !.itemsInUse[dir].items = @ \union items]
           listers == c.listersCurrentlyListing[dir]
           b == Announce(a, listers, dir, items)
           e == [c EXCEPT !.job[dir].buffer = @ \union items]
           t == Receive(dir, items)
           job == c.job[dir]
           item == c.itemsInUse[dir]
<1>1. t = IF job.kind = "list" THEN b ELSE e
  BY DEF Receive
<1>2. c \in States /\ item # NoItem
  BY JobIsUsed
<1>3. Harmless(c, b) /\ b.job = c.job /\ SameUsers(c, b) /\ b.jobData = c.jobData
  <2> DEFINE complete == item.complete
             all == item.items \union items
  <2>1. complete \in BOOLEAN /\ all \in SUBSET Contents[dir]
    BY <1>2, ItemType DEF States
  <2>2. a = WithItem(c, "itemsInUse", dir, complete, all)
    <3> DEFINE d == [c EXCEPT !.itemsInUse[dir].items = all]
    <3>1. a = d
      BY <1>2 DEF States, ItemMaps
    <3> HIDE DEF all
    <3>2. d = WithItem(c, "itemsInUse", dir, complete, all)
      <4>1. \A i : [c EXCEPT !.itemsInUse[dir].items = i] =
              WithItem(c, "itemsInUse", dir, c.itemsInUse[dir].complete, i)
        BY <1>2, WithItemIs
      <4> QED BY <4>1, Zenon
    <3> HIDE DEF a, d, complete
    <3> QED BY <3>1, <3>2
  <2>7. a.jobData = c.jobData
    BY <1>2 DEF States
  <2> HIDE DEF a, complete, all
  <2>3. Harmless(c, a) /\ SameUsers(c, a) /\ a.job = c.job
    BY <1>2, <2>1, <2>2, InUseHarmless
  <2>4. a \in States /\ listers \in SUBSET Listers
    BY <1>2, <2>3 DEF Harmless, States
  <2> HIDE DEF listers
  <2>5. Quiet(a, b)
    BY <2>4, AnnounceQuiet
  <2>8. b.jobData = a.jobData
    BY <2>4 DEF Announce, States
  <2> HIDE DEF b
  <2>6. Harmless(c, b)
    BY <2>3, <2>5, QuietHarmless, HarmlessTwice
  <2> QED BY <2>3, <2>5, <2>6, <2>7, <2>8 DEF Quiet, SameUsers
<1>4. Harmless(c, e) /\ e.job[dir] # NoJob /\ SameUsers(c, e) /\ SameJobs(c, e)
  <2> DEFINE kind == job.kind
             read == job.read
             left == job.left
             buffer == job.buffer \union items
  <2>1. /\ kind \in {"list", "update"} /\ read \in BOOLEAN
        /\ left \in SUBSET Contents[dir] /\ buffer \in SUBSET Contents[dir]
    BY <1>2, JobType
  <2>2. e = JobPut(c, dir, kind, read, left, buffer)
    <3> DEFINE d == [c EXCEPT !.job[dir].buffer = buffer]
    <3>1. e = d
      BY <1>2 DEF States, JobMaps
    <3> HIDE DEF buffer
    <3>2. d = JobPut(c, dir, kind, read, left, buffer)
      <4>1. \A i : [c EXCEPT !.job[dir].buffer = i] =
              JobPut(c, dir, c.job[dir].kind, c.job[dir].read, c.job[dir].left, i)
        BY <1>2, JobPutIs
      <4> QED BY <4>1, Zenon
    <3> HIDE DEF e, d, kind, read, left
    <3> QED BY <3>1, <3>2
  <2>3. kind = c.job[dir].kind
    OBVIOUS
  <2> HIDE DEF e, kind, read, left, buffer
  <2> QED BY <1>2, <2>1, <2>2, <2>3, JobPutFacts
<1> HIDE DEF b, e, t
<1>5. SameJobs(c, b)
  BY <1>3 DEF SameJobs, SameKind
<1>6. Harmless(c, t) /\ t.job[dir] # NoJob /\ SameUsers(c, t) /\ SameJobs(c, t)
  BY <1>1, <1>3, <1>4, <1>5
<1> QED BY <1>6 DEF t

LEMMA EntriesFacts ==
  ASSUME Consistent(c), DiskOK, NEW dir \in Dirs, NEW items, Entries(dir, items)
  PROVE  Harmless(c, c') /\ SameUsers(c, c') /\ SameJobs(c, c')
<1> DEFINE r == Receive(dir, items)
           job == r.job[dir]
           unread == IF c.job[dir].read THEN c.job[dir].left ELSE disk[dir]
           left == unread \ items
           t == [r EXCEPT !.job[dir].read = TRUE, !.job[dir].left = left]
<1>1. /\ c.job[dir] # NoJob /\ c' = t
      /\ items \subseteq unread
  BY DEF Entries
<1>2. left \in SUBSET Contents[dir] /\ items \in SUBSET Contents[dir]
  <2>1. c \in States
    BY DEF Consistent, Agreed
  <2>2. c.job[dir].left \subseteq Contents[dir] /\ disk[dir] \subseteq Contents[dir]
    BY <1>1, <2>1, JobType DEF DiskOK
  <2> QED BY <1>1, <2>2
<1>3. Harmless(c, r) /\ r.job[dir] # NoJob /\ SameUsers(c, r) /\ SameJobs(c, r)
  BY <1>1, <1>2, ReceiveFacts
<1> HIDE DEF r, left, unread
<1> DEFINE kind == job.kind
           buffer == job.buffer
<1>4. r \in States
  BY <1>3 DEF Harmless
<1>5. kind \in {"list", "update"} /\ buffer \in SUBSET Contents[dir]
  BY <1>3, <1>4, JobType
<1>6. t = JobPut(r, dir, kind, TRUE, left, buffer) /\ kind = r.job[dir].kind
  BY <1>3, <1>4, JobPutIs
<1> HIDE DEF kind, buffer, t
<1>7. Harmless(r, t) /\ SameUsers(r, t) /\ SameJobs(r, t)
  <2>1. \A read \in BOOLEAN :
          LET u == JobPut(r, dir, kind, read, left, buffer) IN
          Harmless(r, u) /\ SameUsers(r, u) /\ SameJobs(r, u)
    BY <1>2, <1>3, <1>4, <1>5, <1>6, JobPutFacts
  <2> QED BY <1>6, <2>1
<1>8. Harmless(c, t)
  BY <1>3, <1>7, HarmlessTwice
<1>9. SameUsers(c, t)
  BY <1>3, <1>7 DEF SameUsers
<1>10. SameJobs(c, t)
  BY <1>3, <1>7, SameJobsTwice
<1> QED BY <1>1, <1>8, <1>9, <1>10

LEMMA EntriesKeeps ==
  ASSUME Consistent(c), DiskOK, NEW dir \in Dirs, NEW items, Entries(dir, items)
  PROVE  Consistent(c')
BY EntriesFacts, HarmlessKeeps DEF Consistent

LEMMA JobEndsHarmless ==
  ASSUME NEW s \in States, NEW listers, NEW dir \in Dirs
  PROVE  Harmless(s, JobEnds(s, listers, dir))
<1> DEFINE a == JobDone(s, listers, dir)
           b == JobGone(a, dir)
           t == Finished(b, listers)
<1>1. Quiet(s, a)
  BY JobDoneQuiet
<1> HIDE DEF a
<1>2. Harmless(s, a) /\ a \in States
  BY <1>1, QuietHarmless DEF Quiet
<1>3. Harmless(a, b)
  BY <1>2, JobGoneHarmless
<1> HIDE DEF b
<1>4. b \in States
  BY <1>3 DEF Harmless
<1>5. Quiet(b, t)
  BY <1>4, FinishedQuiet
<1> HIDE DEF t
<1>6. Harmless(s, t)
  BY <1>2, <1>3, <1>5, QuietHarmless, HarmlessTwice
<1> QED BY <1>6 DEF JobEnds, t, b, a

LEMMA MoveListersFacts ==
  ASSUME NEW s \in States, NEW dir \in Dirs
  PROVE  LET t == MoveListers(s, dir) IN
         Harmless(s, t) /\ SameItems(s, t) /\ t.job = s.job
<1> DEFINE listers == {l \in s.listersCurrentlyListing[dir] : s.cachedItemsJob[l] = NoJob}
<1>1. /\ listers \in SUBSET s.listersCurrentlyListing[dir]
      /\ \A l \in listers : s.cachedItemsJob[l] = NoJob
  OBVIOUS
<1>2. MoveListers(s, dir) = Hold(s, listers, dir)
  BY DEF MoveListers
<1> HIDE DEF listers
<1> QED BY <1>1, <1>2, HoldFacts

\* The item of a new directory is complete when the job has ended without error.
LEMMA SlotResultMoved ==
  ASSUME NEW s \in States, NEW dir \in Dirs, s.itemsInUse[dir] # NoItem,
         NEW error \in BOOLEAN
  PROVE  LET a == MoveListers(s, dir) IN
         Harmless(s, [a EXCEPT !.itemsInUse[dir].complete = @ \/ ~error])
<1> DEFINE a == MoveListers(s, dir)
           item == a.itemsInUse[dir]
           moved == [a EXCEPT !.itemsInUse[dir].complete = @ \/ ~error]
<1>1. Harmless(s, a) /\ SameItems(s, a)
  BY MoveListersFacts
<1> HIDE DEF a
<1>2. a \in States /\ item # NoItem
  BY <1>1 DEF Harmless, SameItems
<1> DEFINE complete == item.complete \/ ~error
           items == item.items
<1>3. complete \in BOOLEAN /\ items \in SUBSET Contents[dir]
  BY <1>2, ItemType DEF States
<1>4. moved = WithItem(a, "itemsInUse", dir, complete, items)
  <2> DEFINE d == [a EXCEPT !.itemsInUse[dir].complete = complete]
  <2>1. moved = d
    BY <1>2 DEF States, ItemMaps
  <2> HIDE DEF complete
  <2>2. d = WithItem(a, "itemsInUse", dir, complete, items)
    <3>1. \A i : [a EXCEPT !.itemsInUse[dir].complete = i] =
            WithItem(a, "itemsInUse", dir, i, a.itemsInUse[dir].items)
      BY <1>2, WithItemIs
    <3> QED BY <3>1, Zenon
  <2> HIDE DEF moved, d, items
  <2> QED BY <2>1, <2>2
<1> HIDE DEF moved, complete, items
<1>5. Harmless(a, moved)
  BY <1>2, <1>3, <1>4, InUseHarmless
<1>6. Harmless(s, moved)
  BY <1>1, <1>5, HarmlessTwice
<1> QED BY <1>6 DEF moved, a

LEMMA SlotResultKeeps ==
  ASSUME Consistent(c), NEW dir \in Dirs, NEW error \in BOOLEAN, SlotResult(dir, error)
  PROVE  Consistent(c')
<1> DEFINE a == MoveListers(c, dir)
           moved == [a EXCEPT !.itemsInUse[dir].complete = @ \/ ~error]
           listers == c.listersCurrentlyListing[dir]
           t == JobEnds(moved, listers, dir)
<1>1. c.job[dir] # NoJob /\ c' = t
  BY DEF SlotResult
<1>2. c \in States /\ c.itemsInUse[dir] # NoItem
  BY <1>1, JobIsUsed
<1>3. Harmless(c, moved)
  BY <1>2, SlotResultMoved
<1> HIDE DEF moved, listers
<1>4. moved \in States
  BY <1>3 DEF Harmless
<1>5. Harmless(moved, t)
  BY <1>4, JobEndsHarmless
<1> HIDE DEF t
<1>6. Harmless(c, t)
  BY <1>3, <1>5, HarmlessTwice
<1> QED BY <1>1, <1>6, HarmlessKeeps DEF Consistent

LEMMA MergeKeeps ==
  ASSUME NEW s, Consistent(s), NEW dir \in Dirs, s.itemsInUse[dir] # NoItem,
         NEW listers \in SUBSET Listers, NEW new \in SUBSET Contents[dir]
  PROVE  Consistent(Merge(s, listers, dir, new))
<1> DEFINE old == s.itemsInUse[dir].items
           a == [s EXCEPT !.itemsInUse[dir].items = new, !.itemsInUse[dir].complete = TRUE]
           gone == old \ new
           b == ItemsDeleted(a, listers, dir, gone)
           more == new \ old
           t == Announce(b, listers, dir, more)
<1>1. Merge(s, listers, dir, new) = t
  BY DEF Merge
<1>2. s \in States /\ Agreed(s)
  BY DEF Consistent, Agreed
<1>3. a = WithItem(s, "itemsInUse", dir, TRUE, new)
  <2>1. \A i : [s EXCEPT !.itemsInUse[dir].items = i, !.itemsInUse[dir].complete = TRUE] =
          WithItem(s, "itemsInUse", dir, TRUE, i)
    BY <1>2, WithItemIs
  <2> QED BY <2>1, Zenon
<1> HIDE DEF a
<1>4. Harmless(s, a)
  <2>1. \A complete \in BOOLEAN : Harmless(s, WithItem(s, "itemsInUse", dir, complete, new))
    BY <1>2, InUseHarmless
  <2> QED BY <1>3, <2>1
<1>5. Consistent(a) /\ a \in States
  BY <1>2, <1>4, HarmlessKeeps DEF Harmless
<1>6. more \in SUBSET Contents[dir]
  OBVIOUS
<1> HIDE DEF more, gone
<1>7. Consistent(b)
  BY <1>5, ItemsDeletedKeeps
<1> HIDE DEF b
<1>8. Quiet(b, t)
  BY <1>6, <1>7, AnnounceQuiet DEF Consistent, Agreed
<1> HIDE DEF t
<1>9. Consistent(t)
  BY <1>7, <1>8, QuietKeeps
<1> QED BY <1>1, <1>9

LEMMA NoJobHarmless ==
  ASSUME NEW s \in States, NEW dir \in Dirs
  PROVE  LET t == [s EXCEPT !.job[dir] = NoJob] IN Harmless(s, t) /\ SameItems(s, t)
<1> DEFINE job == [s.job EXCEPT ![dir] = NoJob]
           t == [s EXCEPT !.job[dir] = NoJob]
<1>1. t = [s EXCEPT !.job = job]
  BY DEF States
<1>2. job \in JobMaps /\ \A d \in Dirs : job[d] # NoJob => s.job[d] # NoJob
  BY DEF States, JobMaps
<1> HIDE DEF job, t
<1>3. t \in States /\ SameUsers(s, t) /\ SameItems(s, t) /\ t.job = job
  BY <1>1, <1>2 DEF States, SameUsers, SameItems
<1>4. \A d \in Dirs : Users(t, d) = Users(s, d)
  BY <1>3 DEF SameUsers, Users
<1>5. Harmless(s, t)
  BY <1>2, <1>3, <1>4 DEF SameUsers, SameItems, Harmless, PostedOK, CachedOK
<1> QED BY <1>3, <1>5 DEF t

LEMMA SlotUpdateResultKeeps ==
  ASSUME Consistent(c), NEW dir \in Dirs, NEW error \in BOOLEAN,
         SlotUpdateResult(dir, error)
  PROVE  Consistent(c')
<1> DEFINE moved == MoveListers(c, dir)
           listers == Users(moved, dir)
           a == [moved EXCEPT !.job[dir] = NoJob]
           new == c.job[dir].buffer
           merged == Merge(a, listers, dir, new)
           b == IF error THEN moved ELSE merged
           t == JobEnds(b, listers, dir)
<1>1. c.job[dir] # NoJob /\ c' = t
  BY DEF SlotUpdateResult
<1>2. /\ c \in States /\ Agreed(c) /\ c.itemsInUse[dir] # NoItem
      /\ new \in SUBSET Contents[dir]
  BY <1>1, JobIsUsed, JobType
<1>3. Harmless(c, moved) /\ SameItems(c, moved)
  BY <1>2, MoveListersFacts
<1> HIDE DEF moved
<1>4. moved \in States /\ Consistent(moved) /\ Agreed(moved)
  BY <1>2, <1>3, HarmlessKeeps DEF Harmless
<1>5. listers \in SUBSET Listers
  BY <1>4, UsersFinite
<1>6. Harmless(moved, a) /\ SameItems(moved, a)
  BY <1>4, NoJobHarmless
<1> HIDE DEF a, new, listers
<1>7. Consistent(a) /\ a.itemsInUse[dir] # NoItem
  BY <1>2, <1>3, <1>4, <1>6, HarmlessKeeps DEF SameItems
<1>8. Consistent(merged)
  BY <1>2, <1>5, <1>7, MergeKeeps
<1> HIDE DEF merged
<1>9. Consistent(b)
  BY <1>4, <1>8
<1> HIDE DEF b
<1>10. b \in States /\ Agreed(b)
  BY <1>9 DEF Consistent, Agreed
<1>11. Harmless(b, t)
  BY <1>10, JobEndsHarmless
<1> HIDE DEF t
<1> QED BY <1>1, <1>9, <1>10, <1>11, HarmlessKeeps

LEMMA ParentFacts ==
  ASSUME NEW dir \in Dirs, ~Exists(dir)
  PROVE  Parent(dir) \in Dirs
BY DirsAreTree DEF Parent, Exists

LEMMA WatchReportsKeeps ==
  ASSUME Consistent(c), NEW dir \in Dirs, WatchReports(dir)
  PROVE  Consistent(c')
<1> DEFINE s == [c EXCEPT !.dirty[dir] = FALSE]
<1>1. c' = IF Exists(dir) THEN UpdateDirectory(s, dir)
                          ELSE FilesRemoved(s, Parent(dir), dir)
  BY DEF WatchReports
<1>2. Quiet(c, s)
  <2>1. c \in States
    BY DEF Consistent, Agreed
  <2> QED BY <2>1 DEF Quiet, States, SameUsers, SameItems
<1> HIDE DEF s
<1>3. Consistent(s)
  BY <1>2, QuietKeeps
<1>4. CASE Exists(dir)
  BY <1>1, <1>3, <1>4, UpdateDirectoryKeeps
<1>5. CASE ~Exists(dir)
  BY <1>1, <1>3, <1>5, ParentFacts, FilesRemovedKeeps
<1> QED BY <1>4, <1>5

LEMMA NotifiedKeeps ==
  ASSUME Consistent(c), signals \subseteq Signals, NEW signal \in signals, Notified(signal)
  PROVE  Consistent(c')
<1>1. signal.dir \in Dirs
  BY DEF Signals
<1>2. c' = IF signal.type = "added" THEN UpdateDirectory(c, signal.dir)
                                    ELSE FilesRemoved(c, signal.dir, signal.item)
  BY DEF Notified
<1>3. Consistent(UpdateDirectory(c, signal.dir))
  BY <1>1, UpdateDirectoryKeeps
<1>4. Consistent(FilesRemoved(c, signal.dir, signal.item))
  BY <1>1, FilesRemovedKeeps
<1> QED BY <1>2, <1>3, <1>4

LEMMA EvictKeeps ==
  ASSUME Consistent(c), NEW dir \in Dirs, Evict(dir)
  PROVE  Consistent(c')
<1> DEFINE t == Deleted(c, "itemsCached", dir)
<1>1. c' = t /\ c \in States /\ Agreed(c)
  BY DEF Evict, Consistent, Agreed
<1>2. "itemsCached" \in Places /\ "itemsInUse" \in Places \ {"itemsCached"}
  BY DEF Places
<1>3. /\ t \in States /\ SameUsers(c, t) /\ t.job = c.job
      /\ t["itemsCached"] = [c["itemsCached"] EXCEPT ![dir] = NoItem]
      /\ t["itemsInUse"] = c["itemsInUse"]
  BY <1>1, <1>2, DeletedFacts
<1> HIDE DEF t
<1>4. t.itemsInUse = c.itemsInUse /\ t.itemsCached = [c.itemsCached EXCEPT ![dir] = NoItem]
  BY <1>1, <1>3, Fields
<1>5. t.itemsCached[dir] = NoItem /\ \A d \in Dirs \ {dir} : t.itemsCached[d] = c.itemsCached[d]
  BY <1>1, <1>4 DEF States, ItemMaps
<1>6. \A d \in Dirs : /\ t.itemsCached[d] # NoItem => c.itemsCached[d] # NoItem
                     /\ CachedOK(c, d) => CachedOK(t, d)
  BY <1>5 DEF CachedOK
<1>7. \A d \in Dirs : Users(t, d) = Users(c, d)
  BY <1>3 DEF SameUsers, Users
<1>8. Harmless(c, t)
  BY <1>3, <1>4, <1>6, <1>7 DEF Harmless, SameUsers, PostedOK
<1> QED BY <1>1, <1>8, HarmlessKeeps

LEMMA TouchedKeeps ==
  ASSUME Consistent(c), NEW dirs
  PROVE  Consistent(Touched(c, dirs))
<1> DEFINE dirty == [d \in Dirs |-> c.dirty[d] \/ (d \in dirs /\ Watched(c, d))]
           t == Touched(c, dirs)
<1>1. c \in States
  BY DEF Consistent, Agreed
<1>2. t = [c EXCEPT !.dirty = dirty]
  BY <1>1 DEF Touched, States
<1>3. dirty \in [Dirs -> BOOLEAN]
  BY <1>1 DEF States
<1> HIDE DEF dirty, t
<1>4. Quiet(c, t)
  BY <1>1, <1>2, <1>3 DEF Quiet, States, SameUsers, SameItems
<1>5. Consistent(t)
  BY <1>4, QuietKeeps
<1> QED BY <1>5 DEF t

-----------------------------------------------------------------------------
(* The application *)

LEMMA StopAllHarmless ==
  ASSUME NEW s \in States, NEW l \in Listers
  PROVE  Harmless(s, StopAll(s, l))
<1> DEFINE t == StopAll(s, l)
<1>1. /\ t \in States /\ SameItems(s, t) /\ t.job = s.job
      /\ t.lstDirs = s.lstDirs /\ t.url = s.url /\ t.autoUpdate = s.autoUpdate
      /\ t.cachedItemsJob[l] = NoJob
      /\ \A k \in Listers \ {l} : t.cachedItemsJob[k] = s.cachedItemsJob[k]
      /\ \A d \in Dirs :
           /\ t.listersCurrentlyListing[d] = s.listersCurrentlyListing[d] \ {l}
           /\ t.listersCurrentlyHolding[d] =
                s.listersCurrentlyHolding[d] \union ({l} \cap s.listersCurrentlyListing[d])
  BY StopAllFacts
<1> HIDE DEF t
<1>2. ASSUME NEW d \in Dirs
      PROVE  /\ Users(t, d) = Users(s, d)
             /\ s.listersCurrentlyListing[d] \cap s.listersCurrentlyHolding[d] = {}
                  => t.listersCurrentlyListing[d] \cap t.listersCurrentlyHolding[d] = {}
  BY <1>1 DEF Users
<1>3. ASSUME NEW k \in Listers, PostedOK(s, k) PROVE PostedOK(t, k)
  <2>1. SUFFICES ASSUME t.cachedItemsJob[k] # NoJob
                 PROVE  k \in t.listersCurrentlyListing[t.cachedItemsJob[k].url]
    BY DEF PostedOK
  <2>2. k # l /\ s.cachedItemsJob[k] # NoJob /\ t.cachedItemsJob[k] = s.cachedItemsJob[k]
    BY <1>1, <2>1
  <2>3. s.cachedItemsJob[k].url \in Dirs
    BY <2>2, UrlType
  <2> QED BY <1>1, <1>3, <2>2, <2>3 DEF PostedOK
<1>4. Harmless(s, t)
  BY <1>1, <1>2, <1>3 DEF Harmless, SameItems, CachedOK
<1> QED BY <1>4 DEF t

LEMMA StopOneHarmless ==
  ASSUME NEW s \in States, NEW l \in Listers, NEW dir \in Dirs
  PROVE  Harmless(s, StopOne(s, l, dir))
<1> DEFINE t == StopOne(s, l, dir)
<1>1. /\ t \in States /\ SameItems(s, t) /\ t.job = s.job
      /\ t.lstDirs = s.lstDirs /\ t.url = s.url /\ t.autoUpdate = s.autoUpdate
      /\ t.cachedItemsJob[l] # NoJob => t.cachedItemsJob[l] = s.cachedItemsJob[l]
                                        /\ s.cachedItemsJob[l].url # dir
      /\ \A k \in Listers \ {l} : t.cachedItemsJob[k] = s.cachedItemsJob[k]
      /\ t.listersCurrentlyListing[dir] = s.listersCurrentlyListing[dir] \ {l}
      /\ t.listersCurrentlyHolding[dir] =
           s.listersCurrentlyHolding[dir] \union ({l} \cap s.listersCurrentlyListing[dir])
      /\ \A d \in Dirs \ {dir} :
           /\ t.listersCurrentlyListing[d] = s.listersCurrentlyListing[d]
           /\ t.listersCurrentlyHolding[d] = s.listersCurrentlyHolding[d]
  BY StopOneFacts
<1> HIDE DEF t
<1>2. ASSUME NEW d \in Dirs
      PROVE  /\ Users(t, d) = Users(s, d)
             /\ s.listersCurrentlyListing[d] \cap s.listersCurrentlyHolding[d] = {}
                  => t.listersCurrentlyListing[d] \cap t.listersCurrentlyHolding[d] = {}
  <2>1. CASE d = dir
    BY <1>1, <2>1 DEF Users
  <2>2. CASE d # dir
    BY <1>1, <2>2 DEF Users
  <2> QED BY <2>1, <2>2
<1>3. ASSUME NEW k \in Listers, PostedOK(s, k) PROVE PostedOK(t, k)
  <2>1. SUFFICES ASSUME t.cachedItemsJob[k] # NoJob
                 PROVE  k \in t.listersCurrentlyListing[t.cachedItemsJob[k].url]
    BY DEF PostedOK
  <2>2. /\ s.cachedItemsJob[k] # NoJob /\ t.cachedItemsJob[k] = s.cachedItemsJob[k]
        /\ k = l => s.cachedItemsJob[k].url # dir
    BY <1>1, <2>1
  <2>3. s.cachedItemsJob[k].url \in Dirs
    BY <2>2, UrlType
  <2>4. k \in s.listersCurrentlyListing[s.cachedItemsJob[k].url]
    BY <1>3, <2>2 DEF PostedOK
  <2>5. CASE s.cachedItemsJob[k].url = dir
    BY <1>1, <2>2, <2>4, <2>5
  <2>6. CASE s.cachedItemsJob[k].url # dir
    BY <1>1, <2>2, <2>3, <2>4, <2>6
  <2> QED BY <2>5, <2>6
<1>4. Harmless(s, t)
  BY <1>1, <1>2, <1>3 DEF Harmless, SameItems, CachedOK
<1> QED BY <1>4 DEF t

LEMMA StopKeeps ==
  ASSUME Consistent(c), NEW l \in Listers,
         Stop(l) \/ \E dir \in Dirs : StopUrl(l, dir)
  PROVE  Consistent(c')
<1>1. c \in States /\ Agreed(c)
  BY DEF Consistent, Agreed
<1>2. CASE Stop(l)
  <2>1. c' = StopAll(c, l)
    BY <1>2 DEF Stop
  <2> QED BY <1>1, <2>1, StopAllHarmless, HarmlessKeeps
<1>3. ASSUME NEW dir \in Dirs, StopUrl(l, dir) PROVE Consistent(c')
  <2>1. c' = StopOne(c, l, dir)
    BY <1>3 DEF StopUrl
  <2> QED BY <1>1, <2>1, StopOneHarmless, HarmlessKeeps
<1> QED BY <1>2, <1>3

\* A lister leaves all its directories.
LEMMA LeaveAllFacts ==
  ASSUME NEW s, Consistent(s), NEW l \in Listers
  PROVE  LET t == ForgetAll(StopAll(s, l), l) IN
         /\ Consistent(t) /\ t.lstDirs[l] = {} /\ t.cachedItemsJob[l] = NoJob
         /\ t.url = s.url /\ t.autoUpdate = s.autoUpdate
         /\ \A d \in Dirs : l \notin Users(t, d)
<1> DEFINE a == StopAll(s, l)
           t == ForgetAll(a, l)
<1>1. s \in States /\ Agreed(s)
  BY DEF Consistent, Agreed
<1>2. Harmless(s, a)
  BY <1>1, StopAllHarmless
<1>3. /\ a.lstDirs = s.lstDirs /\ a.url = s.url /\ a.autoUpdate = s.autoUpdate
      /\ a.cachedItemsJob[l] = NoJob
      /\ \A d \in Dirs : a.listersCurrentlyListing[d] = s.listersCurrentlyListing[d] \ {l}
  BY <1>1, StopAllFacts
<1> HIDE DEF a
<1>4. Consistent(a)
  BY <1>1, <1>2, HarmlessKeeps
<1>5. /\ a \in States
      /\ \A d \in Dirs : DirOK(a, d) /\ CountOK(a, d) /\ RegistryOK(a, d)
      /\ \A k \in Listers : PostedOK(a, k) /\ RootOK(a, k)
  BY <1>4 DEF Consistent, Agreed
<1>6. \A d \in Dirs : d \in a.lstDirs[l] => l \in a.listersCurrentlyHolding[d]
  BY <1>3, <1>5 DEF RegistryOK, Users
<1>7. /\ t \in States
      /\ t.listersCurrentlyListing = a.listersCurrentlyListing
      /\ t.url = a.url /\ t.autoUpdate = a.autoUpdate
      /\ t.cachedItemsJob = a.cachedItemsJob
      /\ t.lstDirs[l] = {} /\ \A k \in Listers \ {l} : t.lstDirs[k] = a.lstDirs[k]
      /\ \A d \in Dirs :
           /\ DirOK(t, d)
           /\ d \notin a.lstDirs[l] => SameDir(a, t, d)
           /\ d \in a.lstDirs[l] =>
                t.listersCurrentlyHolding[d] = a.listersCurrentlyHolding[d] \ {l}
           /\ CountOK(a, d) /\ (d \in a.lstDirs[l] => l \in a.listersCurrentlyHolding[d])
                => CountOK(t, d)
  BY <1>5, ForgetAllFacts
<1> HIDE DEF t
<1>8. ASSUME NEW d \in Dirs PROVE RegistryOK(t, d)
  <2>1. Users(a, d) = {k \in Listers : d \in a.lstDirs[k]}
    BY <1>5 DEF RegistryOK
  <2>2. CASE d \notin a.lstDirs[l]
    <3>1. Users(t, d) = Users(a, d)
      BY <1>7, <2>2 DEF SameDir, Users
    <3>2. \A k \in Listers : d \in t.lstDirs[k] <=> d \in a.lstDirs[k]
      BY <1>7, <2>2
    <3> QED BY <2>1, <3>1, <3>2 DEF RegistryOK
  <2>3. CASE d \in a.lstDirs[l]
    <3>1. Users(t, d) = Users(a, d) \ {l}
      BY <1>3, <1>7, <2>3 DEF Users
    <3>2. \A k \in Listers : d \in t.lstDirs[k] <=> d \in a.lstDirs[k] /\ k # l
      BY <1>7, <2>3
    <3> QED BY <2>1, <3>1, <3>2 DEF RegistryOK
  <2> QED BY <2>2, <2>3
<1>9. \A d \in Dirs : CountOK(t, d)
  BY <1>5, <1>6, <1>7
<1>10. ASSUME NEW k \in Listers PROVE PostedOK(t, k) /\ RootOK(t, k)
  <2>1. PostedOK(t, k)
    BY <1>5, <1>7 DEF PostedOK
  <2>2. CASE k = l
    BY <1>7, <2>1, <2>2 DEF RootOK
  <2>3. CASE k # l
    BY <1>5, <1>7, <2>1, <2>3 DEF RootOK
  <2> QED BY <2>2, <2>3
<1>11. Consistent(t)
  BY <1>7, <1>8, <1>9, <1>10 DEF Consistent, Agreed
<1>12. \A d \in Dirs : l \notin Users(t, d)
  BY <1>7, <1>8 DEF RegistryOK
<1> QED BY <1>3, <1>7, <1>11, <1>12 DEF t, a

LEMMA CloseKeeps ==
  ASSUME Consistent(c), NEW l \in Listers, Close(l)
  PROVE  Consistent(c')
<1> DEFINE a == ForgetAll(StopAll(c, l), l)
           url == [a.url EXCEPT ![l] = NoDir]
           auto == [a.autoUpdate EXCEPT ![l] = TRUE]
           t == [a EXCEPT !.url[l] = NoDir, !.complete[l] = TRUE, !.jobData[l] = {},
                          !.autoUpdate[l] = TRUE]
<1>1. c' = t
  BY DEF Close
<1>2. /\ Consistent(a) /\ a.lstDirs[l] = {} /\ a.cachedItemsJob[l] = NoJob
      /\ \A d \in Dirs : l \notin Users(a, d)
  BY LeaveAllFacts
<1> HIDE DEF a
<1>3. /\ a \in States
      /\ \A d \in Dirs : DirOK(a, d) /\ CountOK(a, d) /\ RegistryOK(a, d)
      /\ \A k \in Listers : PostedOK(a, k) /\ RootOK(a, k)
  BY <1>2 DEF Consistent, Agreed
<1>4. /\ url \in [Listers -> Dirs \union {NoDir}] /\ auto \in [Listers -> BOOLEAN]
      /\ \A k \in Listers \ {l} : url[k] = a.url[k] /\ auto[k] = a.autoUpdate[k]
  BY <1>3 DEF States
<1>5. /\ t \in States /\ SameItems(a, t) /\ t.job = a.job
      /\ t.url = url /\ t.autoUpdate = auto
      /\ t.lstDirs = a.lstDirs /\ t.cachedItemsJob = a.cachedItemsJob
      /\ t.listersCurrentlyListing = a.listersCurrentlyListing
      /\ t.listersCurrentlyHolding = a.listersCurrentlyHolding
  <2> DEFINE complete == [a.complete EXCEPT ![l] = TRUE]
             data == [a.jobData EXCEPT ![l] = {}]
  <2>1. t = [a EXCEPT !.url = url, !.complete = complete, !.jobData = data,
                      !.autoUpdate = auto]
    BY <1>3 DEF States
  <2>2. complete \in [Listers -> BOOLEAN]
        /\ data \in [Listers -> SUBSET (Dirs \union {Ended})]
    BY <1>3 DEF States
  <2> HIDE DEF url, complete, data, auto, t
  <2> QED BY <1>3, <1>4, <2>1, <2>2 DEF States, SameItems
<1> HIDE DEF t, url, auto
<1>6. ASSUME NEW d \in Dirs PROVE DirOK(t, d) /\ CountOK(t, d) /\ RegistryOK(t, d)
  <2>1. Users(t, d) = Users(a, d)
    BY <1>5 DEF Users
  <2>2. Users(a, d) \subseteq Listers \ {l}
    BY <1>2, <1>3, UsersFinite
  <2>3. AutoUsers(t, d) = AutoUsers(a, d)
    BY <1>4, <1>5, <2>1, <2>2 DEF AutoUsers
  <2>4. DirOK(t, d)
    BY <1>3, <1>5, <2>1, Fields DEF DirOK, SameItems
  <2>5. CountOK(t, d)
    BY <1>3, <1>5, <2>3, Fields DEF CountOK, SameItems
  <2>6. RegistryOK(t, d)
    BY <1>3, <1>5, <2>1 DEF RegistryOK
  <2> QED BY <2>4, <2>5, <2>6
<1>7. ASSUME NEW k \in Listers PROVE PostedOK(t, k) /\ RootOK(t, k)
  <2>1. PostedOK(t, k)
    BY <1>3, <1>5 DEF PostedOK
  <2>2. CASE k = l
    BY <1>2, <1>5, <2>1, <2>2 DEF RootOK
  <2>3. CASE k # l
    BY <1>3, <1>4, <1>5, <2>1, <2>3 DEF RootOK
  <2> QED BY <2>2, <2>3
<1>8. Consistent(t)
  BY <1>5, <1>6, <1>7 DEF Consistent, Agreed
<1> QED BY <1>1, <1>8

AutoOp(enable, dir, s) == IF enable THEN IncAutoUpdate(s, "itemsInUse", dir)
                                    ELSE DecAutoUpdate(s, "itemsInUse", dir)

\* The counts of the directories D are as q[2] says; q[1] is the state before.
Recounted(q, D, t) ==
  /\ t \in States /\ SameUsers(q[1], t) /\ t.job = q[1].job
  /\ t.jobData = q[1].jobData /\ t.itemsCached = q[1].itemsCached
  /\ \A d \in D : t.itemsInUse[d] # NoItem /\ t.itemsInUse[d].autoUpdates = q[2][d]
  /\ \A d \in Dirs \ D : t.itemsInUse[d] = q[1].itemsInUse[d]

Counting == INSTANCE FoldLemmas WITH Op <- AutoOp, Inv <- Recounted

LEMMA SetAutoUpdateIs ==
  ASSUME NEW l, NEW enable, SetAutoUpdate(l, enable)
  PROVE  c' = Counting!Fold(enable, [c EXCEPT !.autoUpdate[l] = enable], c.lstDirs[l])
BY DEF SetAutoUpdate, AutoOp, Counting!Fold,
       Counting!MapThenFoldSet, FoldSet, MapThenFoldSet

LEMMA AutoOpFacts ==
  ASSUME NEW s \in States, NEW dir \in Dirs, s.itemsInUse[dir] # NoItem,
         NEW enable \in BOOLEAN
  PROVE  LET t == AutoOp(enable, dir, s)
             n == s.itemsInUse[dir].autoUpdates
         IN
         /\ t \in States /\ SameUsers(s, t) /\ t.job = s.job
         /\ t.itemsCached = s.itemsCached /\ t.jobData = s.jobData
         /\ \A d \in Dirs \ {dir} : t.itemsInUse[d] = s.itemsInUse[d]
         /\ t.itemsInUse[dir] # NoItem /\ n \in Nat
         /\ enable => t.itemsInUse[dir].autoUpdates = n + 1
         /\ ~enable => t.itemsInUse[dir].autoUpdates = IF n = 0 THEN 0 ELSE n - 1
<1> DEFINE t == AutoOp(enable, dir, s)
           n == s.itemsInUse[dir].autoUpdates
<1>1. /\ HasDirItem(s, "itemsInUse", dir) /\ "itemsInUse" \in Places
      /\ "itemsCached" \in Places \ {"itemsInUse"}
      /\ s["itemsInUse"] = s.itemsInUse /\ s["itemsCached"] = s.itemsCached
  BY Fields DEF Places
<1>2. t.jobData = s.jobData
  BY DEF AutoOp, IncAutoUpdate, DecAutoUpdate, Unwatched, States
<1>3. CASE enable
  <2> DEFINE u == IncAutoUpdate(s, "itemsInUse", dir)
  <2>1. /\ u \in States /\ SameUsers(s, u) /\ u.job = s.job
        /\ u["itemsCached"] = s["itemsCached"]
        /\ \A d \in Dirs \ {dir} : u["itemsInUse"][d] = s["itemsInUse"][d]
        /\ HasDirItem(u, "itemsInUse", dir) /\ s["itemsInUse"][dir].autoUpdates \in Nat
        /\ u["itemsInUse"][dir].autoUpdates = s["itemsInUse"][dir].autoUpdates + 1
    BY <1>1, IncAt
  <2>2. t = u
    BY <1>3 DEF AutoOp
  <2> HIDE DEF u, t
  <2>3. u["itemsInUse"] = u.itemsInUse /\ u["itemsCached"] = u.itemsCached
    BY <2>1, Fields
  <2>4. /\ u \in States /\ SameUsers(s, u) /\ u.job = s.job
        /\ u.itemsCached = s.itemsCached
        /\ \A d \in Dirs \ {dir} : u.itemsInUse[d] = s.itemsInUse[d]
        /\ u.itemsInUse[dir] # NoItem /\ n \in Nat
        /\ u.itemsInUse[dir].autoUpdates = n + 1
    BY <1>1, <2>1, <2>3 DEF HasDirItem
  <2> HIDE DEF n
  <2>5. /\ t \in States /\ SameUsers(s, t) /\ t.job = s.job
        /\ t.itemsCached = s.itemsCached /\ t.jobData = s.jobData
        /\ \A d \in Dirs \ {dir} : t.itemsInUse[d] = s.itemsInUse[d]
        /\ t.itemsInUse[dir] # NoItem /\ n \in Nat
        /\ enable => t.itemsInUse[dir].autoUpdates = n + 1
        /\ ~enable => t.itemsInUse[dir].autoUpdates = IF n = 0 THEN 0 ELSE n - 1
    BY <1>2, <1>3, <2>2, <2>4
  <2> QED BY <2>5 DEF t, n
<1>4. CASE ~enable
  <2> DEFINE u == DecAutoUpdate(s, "itemsInUse", dir)
  <2>1. /\ u \in States /\ SameUsers(s, u) /\ u.job = s.job
        /\ u["itemsCached"] = s["itemsCached"]
        /\ \A d \in Dirs \ {dir} : u["itemsInUse"][d] = s["itemsInUse"][d]
        /\ HasDirItem(u, "itemsInUse", dir) /\ s["itemsInUse"][dir].autoUpdates \in Nat
        /\ u["itemsInUse"][dir].autoUpdates =
             IF s["itemsInUse"][dir].autoUpdates = 0 THEN 0
             ELSE s["itemsInUse"][dir].autoUpdates - 1
    BY <1>1, DecAt
  <2>2. t = u
    BY <1>4 DEF AutoOp
  <2> HIDE DEF u, t
  <2>3. u["itemsInUse"] = u.itemsInUse /\ u["itemsCached"] = u.itemsCached
    BY <2>1, Fields
  <2>4. /\ u \in States /\ SameUsers(s, u) /\ u.job = s.job
        /\ u.itemsCached = s.itemsCached
        /\ \A d \in Dirs \ {dir} : u.itemsInUse[d] = s.itemsInUse[d]
        /\ u.itemsInUse[dir] # NoItem /\ n \in Nat
        /\ u.itemsInUse[dir].autoUpdates = IF n = 0 THEN 0 ELSE n - 1
    BY <1>1, <2>1, <2>3 DEF HasDirItem
  <2> HIDE DEF n
  <2>5. /\ t \in States /\ SameUsers(s, t) /\ t.job = s.job
        /\ t.itemsCached = s.itemsCached /\ t.jobData = s.jobData
        /\ \A d \in Dirs \ {dir} : t.itemsInUse[d] = s.itemsInUse[d]
        /\ t.itemsInUse[dir] # NoItem /\ n \in Nat
        /\ enable => t.itemsInUse[dir].autoUpdates = n + 1
        /\ ~enable => t.itemsInUse[dir].autoUpdates = IF n = 0 THEN 0 ELSE n - 1
    BY <1>2, <1>4, <2>2, <2>4
  <2> QED BY <2>5 DEF t, n
<1> QED BY <1>2, <1>3, <1>4

LEMMA SetAutoUpdateKeeps ==
  ASSUME Consistent(c), NEW l \in Listers, NEW enable \in BOOLEAN,
         SetAutoUpdate(l, enable)
  PROVE  /\ Consistent(c')
         /\ c'.listersCurrentlyListing = c.listersCurrentlyListing
         /\ c'.listersCurrentlyHolding = c.listersCurrentlyHolding
         /\ c'.cachedItemsJob = c.cachedItemsJob
         /\ c'.job = c.job /\ c'.jobData = c.jobData
<1> DEFINE S == c.lstDirs[l]
           b == [c EXCEPT !.autoUpdate[l] = enable]
           want == [d \in Dirs |-> Cardinality(AutoUsers(b, d))]
           t == Counting!Fold(enable, b, S)
<1>1. c' = t
  BY SetAutoUpdateIs
<1>2. /\ c \in States
      /\ \A d \in Dirs : DirOK(c, d) /\ CountOK(c, d) /\ RegistryOK(c, d)
      /\ \A k \in Listers : PostedOK(c, k) /\ RootOK(c, k)
  BY DEF Consistent, Agreed
<1>3. S \subseteq Dirs /\ IsFiniteSet(S)
  <2>1. S \subseteq Dirs
    BY <1>2 DEF States
  <2> HIDE DEF S
  <2> QED BY <2>1, FiniteAssumption, FS_Subset
<1>4. /\ b \in States /\ SameItems(c, b) /\ b.job = c.job /\ b.jobData = c.jobData
      /\ b.listersCurrentlyListing = c.listersCurrentlyListing
      /\ b.listersCurrentlyHolding = c.listersCurrentlyHolding
      /\ b.lstDirs = c.lstDirs /\ b.url = c.url /\ b.cachedItemsJob = c.cachedItemsJob
      /\ b.autoUpdate[l] = enable
      /\ \A k \in Listers \ {l} : b.autoUpdate[k] = c.autoUpdate[k]
  <2> DEFINE auto == [c.autoUpdate EXCEPT ![l] = enable]
  <2>1. /\ auto \in [Listers -> BOOLEAN] /\ auto[l] = enable
        /\ \A k \in Listers \ {l} : auto[k] = c.autoUpdate[k]
    BY <1>2 DEF States
  <2>2. b = [c EXCEPT !.autoUpdate = auto]
    BY <1>2 DEF States
  <2> HIDE DEF auto, b
  <2>3. b \in States /\ b.autoUpdate = auto
    BY <1>2, <2>1, <2>2 DEF States
  <2>4. /\ SameItems(c, b) /\ b.job = c.job /\ b.jobData = c.jobData
        /\ b.listersCurrentlyListing = c.listersCurrentlyListing
        /\ b.listersCurrentlyHolding = c.listersCurrentlyHolding
        /\ b.lstDirs = c.lstDirs /\ b.url = c.url /\ b.cachedItemsJob = c.cachedItemsJob
    BY <1>2, <2>2 DEF States, SameItems
  <2> QED BY <2>1, <2>3, <2>4
<1>5. c.autoUpdate[l] # enable /\ c.autoUpdate[l] \in BOOLEAN
  BY <1>2 DEF SetAutoUpdate, States
<1> HIDE DEF b
<1>6. \A d \in Dirs : Users(b, d) = Users(c, d)
  BY <1>4 DEF Users
<1>7. ASSUME NEW d \in S
      PROVE  /\ c.itemsInUse[d] # NoItem
             /\ enable => want[d] = c.itemsInUse[d].autoUpdates + 1
             /\ ~enable => want[d] = IF c.itemsInUse[d].autoUpdates = 0 THEN 0
                                     ELSE c.itemsInUse[d].autoUpdates - 1
  <2> DEFINE A == AutoUsers(c, d)
             B == AutoUsers(b, d)
  <2>1. d \in Dirs /\ l \in Users(c, d)
    BY <1>2, <1>3 DEF RegistryOK
  <2>2. c.itemsInUse[d] # NoItem /\ c.itemsInUse[d].autoUpdates = Cardinality(A)
    BY <1>2, <2>1, Fields DEF DirOK, CountOK
  <2>3. want[d] = Cardinality(B)
    BY <2>1
  <2>4. /\ IsFiniteSet(A) /\ Cardinality(A) \in Nat /\ Cardinality(B) \in Nat
    BY <1>2, <1>4, <2>1, UsersFinite
  <2>5. CASE enable
    <3>0. b.autoUpdate[l] /\ ~c.autoUpdate[l]
      BY <1>4, <1>5, <2>5
    <3>1. l \notin A /\ B = A \union {l}
      BY <1>2, <1>4, <1>6, <2>1, <3>0, UsersFinite DEF AutoUsers
    <3> HIDE DEF A, B, want
    <3>2. Cardinality(B) = Cardinality(A) + 1
      BY <2>4, <3>1, OneMore
    <3> QED BY <2>2, <2>3, <2>5, <3>2
  <2>6. CASE ~enable
    <3>0. ~b.autoUpdate[l] /\ c.autoUpdate[l]
      BY <1>4, <1>5, <2>6
    <3>1. l \in A /\ B = A \ {l}
      BY <1>2, <1>4, <1>6, <2>1, <3>0, UsersFinite DEF AutoUsers
    <3> HIDE DEF A, B, want
    <3>2. Cardinality(B) = Cardinality(A) - 1
      BY <2>4, <3>1, OneLess
    <3> QED BY <2>2, <2>3, <2>4, <2>6, <3>2
  <2> QED BY <2>5, <2>6
<1> HIDE DEF S, want
<1>8. Recounted(<<b, want>>, {}, b)
  BY <1>4 DEF Recounted, SameUsers
<1>9. ASSUME NEW D \in SUBSET S, NEW x \in S \ D, NEW v, Recounted(<<b, want>>, D, v)
      PROVE  Recounted(<<b, want>>, D \union {x}, AutoOp(enable, x, v))
  <2> DEFINE u == AutoOp(enable, x, v)
  <2>1. /\ v \in States /\ SameUsers(b, v) /\ v.job = b.job
        /\ v.jobData = b.jobData /\ v.itemsCached = b.itemsCached
        /\ \A d \in D : v.itemsInUse[d] # NoItem /\ v.itemsInUse[d].autoUpdates = want[d]
        /\ \A d \in Dirs \ D : v.itemsInUse[d] = b.itemsInUse[d]
    BY <1>9 DEF Recounted
  <2>2. x \in Dirs /\ v.itemsInUse[x] = c.itemsInUse[x] /\ c.itemsInUse[x] # NoItem
    BY <1>3, <1>4, <1>7, <2>1 DEF SameItems
  <2>3. /\ u \in States /\ SameUsers(v, u) /\ u.job = v.job
        /\ u.itemsCached = v.itemsCached /\ u.jobData = v.jobData
        /\ \A d \in Dirs \ {x} : u.itemsInUse[d] = v.itemsInUse[d]
        /\ u.itemsInUse[x] # NoItem
        /\ enable => u.itemsInUse[x].autoUpdates = v.itemsInUse[x].autoUpdates + 1
        /\ ~enable => u.itemsInUse[x].autoUpdates =
                        IF v.itemsInUse[x].autoUpdates = 0 THEN 0
                        ELSE v.itemsInUse[x].autoUpdates - 1
    <3>1. v \in States /\ v.itemsInUse[x] # NoItem
      BY <2>1, <2>2
    <3> QED BY <2>2, <3>1, AutoOpFacts
  <2> HIDE DEF u
  <2>4. u.itemsInUse[x].autoUpdates = want[x]
    BY <1>7, <2>2, <2>3
  <2>5. \A d \in D \union {x} : u.itemsInUse[d] # NoItem /\ u.itemsInUse[d].autoUpdates = want[d]
    BY <1>3, <2>1, <2>3, <2>4
  <2>6. \A d \in Dirs \ (D \union {x}) : u.itemsInUse[d] = b.itemsInUse[d]
    BY <2>1, <2>3
  <2>7. Recounted(<<b, want>>, D \union {x}, u)
    BY <2>1, <2>3, <2>5, <2>6 DEF Recounted, SameUsers
  <2> QED BY <2>7 DEF u
<1>10. \A D \in SUBSET S : \A x \in S \ D : \A v :
         Recounted(<<b, want>>, D, v) =>
           Recounted(<<b, want>>, D \union {x}, AutoOp(enable, x, v))
  BY <1>9
<1>11. Recounted(<<b, want>>, S, t)
  BY <1>3, <1>8, <1>10, Counting!FoldKeeps, FiniteGrounded, Zenon DEF Counting!Grounded
<1> HIDE DEF t
<1>12. /\ t \in States /\ SameUsers(b, t) /\ t.job = c.job /\ t.jobData = c.jobData
       /\ t.itemsCached = c.itemsCached
       /\ \A d \in S : t.itemsInUse[d] # NoItem /\ t.itemsInUse[d].autoUpdates = want[d]
       /\ \A d \in Dirs \ S : t.itemsInUse[d] = c.itemsInUse[d]
  BY <1>4, <1>11 DEF Recounted, SameItems
<1>13. \A d \in Dirs : Users(t, d) = Users(c, d) /\ AutoUsers(t, d) = AutoUsers(b, d)
  BY <1>6, <1>12 DEF SameUsers, Users, AutoUsers
<1>14. ASSUME NEW d \in Dirs PROVE DirOK(t, d) /\ CountOK(t, d) /\ RegistryOK(t, d)
  <2>1. DirOK(c, d) /\ CountOK(c, d) /\ RegistryOK(c, d)
    BY <1>2
  <2>2. t.itemsInUse[d] # NoItem <=> c.itemsInUse[d] # NoItem
    BY <1>7, <1>12
  <2>3. DirOK(t, d)
    BY <1>2, <1>4, <1>12, <1>13, <2>1, <2>2, Fields DEF DirOK, SameUsers
  <2>4. RegistryOK(t, d)
    BY <1>4, <1>12, <1>13, <2>1 DEF RegistryOK, SameUsers
  <2>5. CountOK(t, d)
    <3>1. CASE d \in S
      <4>1. t.itemsInUse[d].autoUpdates = Cardinality(AutoUsers(t, d))
        BY <1>12, <1>13, <3>1 DEF want
      <4> QED BY <1>2, <1>12, <2>1, <4>1, Fields DEF CountOK
    <3>2. CASE d \notin S
      <4>1. l \notin Users(c, d)
        BY <1>2, <3>2 DEF RegistryOK, S
      <4>2. Users(c, d) \subseteq Listers
        BY <1>2, UsersFinite
      <4>3. AutoUsers(t, d) = AutoUsers(c, d)
        BY <1>4, <1>6, <1>13, <4>1, <4>2 DEF AutoUsers
      <4> QED BY <1>2, <1>12, <2>1, <3>2, <4>3, Fields DEF CountOK
    <3> QED BY <3>1, <3>2
  <2> QED BY <2>3, <2>4, <2>5
<1>15. \A k \in Listers : PostedOK(t, k) /\ RootOK(t, k)
  BY <1>2, <1>4, <1>12 DEF PostedOK, RootOK, SameUsers
<1>16. Consistent(t)
  BY <1>12, <1>14, <1>15 DEF Consistent, Agreed
<1> QED BY <1>1, <1>4, <1>12, <1>16 DEF SameUsers

-----------------------------------------------------------------------------
(* openUrl *)

\* A lister leaves a directory that it is to list again.
LeaveOne(s, l, dir) ==
  ForgetDir([StopOne(s, l, dir) EXCEPT !.lstDirs[l] = @ \ {dir}], l, dir, TRUE)

LEMMA LeaveOneFacts ==
  ASSUME NEW s, Consistent(s), NEW l \in Listers, NEW dir \in s.lstDirs[l]
  PROVE  LET t == LeaveOne(s, l, dir) IN
         /\ Agreed(t) /\ \A k \in Listers \ {l} : RootOK(t, k)
         /\ t.url = s.url /\ t.lstDirs[l] = s.lstDirs[l] \ {dir}
<1> DEFINE a == StopOne(s, l, dir)
           b == [a EXCEPT !.lstDirs[l] = @ \ {dir}]
           t == ForgetDir(b, l, dir, TRUE)
<1>1. s \in States /\ Agreed(s) /\ dir \in Dirs
  BY DEF Consistent, Agreed, States
<1>2. Harmless(s, a)
  BY <1>1, StopOneHarmless
<1>3. /\ a.lstDirs = s.lstDirs /\ a.url = s.url
      /\ a.listersCurrentlyListing[dir] = s.listersCurrentlyListing[dir] \ {l}
  BY <1>1, StopOneFacts
<1> HIDE DEF a
<1>4. /\ a \in States
      /\ \A d \in Dirs : DirOK(a, d) /\ CountOK(a, d) /\ RegistryOK(a, d)
      /\ \A k \in Listers : PostedOK(a, k) /\ RootOK(a, k)
  BY <1>1, <1>2, HarmlessKeeps DEF Consistent, Agreed
<1>5. /\ b \in States /\ \A d \in Dirs : SameDir(a, b, d)
      /\ b.listersCurrentlyListing = a.listersCurrentlyListing
      /\ b.listersCurrentlyHolding = a.listersCurrentlyHolding
      /\ b.url = a.url /\ b.autoUpdate = a.autoUpdate
      /\ b.cachedItemsJob = a.cachedItemsJob
      /\ b.lstDirs[l] = a.lstDirs[l] \ {dir}
      /\ \A k \in Listers \ {l} : b.lstDirs[k] = a.lstDirs[k]
  <2> DEFINE dirs == [a.lstDirs EXCEPT ![l] = @ \ {dir}]
  <2>1. /\ dirs \in [Listers -> SUBSET Dirs] /\ dirs[l] = a.lstDirs[l] \ {dir}
        /\ \A k \in Listers \ {l} : dirs[k] = a.lstDirs[k]
    BY <1>4 DEF States
  <2>2. b = [a EXCEPT !.lstDirs = dirs]
    BY <1>4 DEF States
  <2> HIDE DEF dirs, b
  <2>3. b \in States /\ b.lstDirs = dirs
    BY <1>4, <2>1, <2>2 DEF States
  <2>4. /\ \A d \in Dirs : SameDir(a, b, d)
        /\ b.listersCurrentlyListing = a.listersCurrentlyListing
        /\ b.listersCurrentlyHolding = a.listersCurrentlyHolding
        /\ b.url = a.url /\ b.autoUpdate = a.autoUpdate
        /\ b.cachedItemsJob = a.cachedItemsJob
    BY <1>4, <2>2 DEF States, SameDir
  <2> QED BY <2>1, <2>3, <2>4
<1> HIDE DEF b
<1>6. \A d \in Dirs : DirOK(b, d) /\ CountOK(b, d) /\ Users(b, d) = Users(a, d)
  BY <1>4, <1>5, SameDirOK
<1>7. dir \notin b.lstDirs[l] /\ l \in b.listersCurrentlyHolding[dir]
  <2>1. l \in Users(a, dir)
    BY <1>1, <1>3, <1>4 DEF RegistryOK
  <2> QED BY <1>3, <1>5, <2>1 DEF Users
<1>8. /\ t \in States /\ SameButHolding(b, t)
      /\ t.listersCurrentlyHolding[dir] = b.listersCurrentlyHolding[dir] \ {l}
      /\ \A d \in Dirs \ {dir} : SameDir(b, t, d)
      /\ DirOK(t, dir)
      /\ CountOK(b, dir) /\ l \in b.listersCurrentlyHolding[dir] => CountOK(t, dir)
  <2>1. \A notify :
          /\ ForgetDir(b, l, dir, notify) \in States
          /\ SameButHolding(b, ForgetDir(b, l, dir, notify))
          /\ ForgetDir(b, l, dir, notify).listersCurrentlyHolding[dir] =
               b.listersCurrentlyHolding[dir] \ {l}
          /\ \A d \in Dirs \ {dir} : SameDir(b, ForgetDir(b, l, dir, notify), d)
          /\ DirOK(ForgetDir(b, l, dir, notify), dir)
          /\ CountOK(b, dir) /\ l \in b.listersCurrentlyHolding[dir]
               => CountOK(ForgetDir(b, l, dir, notify), dir)
    BY <1>1, <1>5, <1>6, <1>7, ForgetDirFacts
  <2> QED BY <2>1, Zenon
<1> HIDE DEF t
<1>9. ASSUME NEW d \in Dirs PROVE DirOK(t, d) /\ CountOK(t, d) /\ RegistryOK(t, d)
  <2>1. Users(a, d) = {k \in Listers : d \in a.lstDirs[k]}
    BY <1>4 DEF RegistryOK
  <2>2. CASE d = dir
    <3>1. Users(t, d) = Users(b, d) \ {l}
      BY <1>3, <1>5, <1>8, <2>2 DEF Users, SameButHolding
    <3>2. \A k \in Listers : d \in t.lstDirs[k] <=> d \in a.lstDirs[k] /\ k # l
      BY <1>5, <1>8, <2>2 DEF SameButHolding
    <3>3. RegistryOK(t, d)
      BY <1>6, <2>1, <3>1, <3>2 DEF RegistryOK
    <3> QED BY <1>6, <1>7, <1>8, <2>2, <3>3
  <2>3. CASE d # dir
    <3>1. SameDir(b, t, d) /\ t.autoUpdate = b.autoUpdate
      BY <1>8, <2>3 DEF SameButHolding
    <3>2. DirOK(t, d) /\ CountOK(t, d) /\ Users(t, d) = Users(b, d)
      BY <1>5, <1>6, <1>8, <3>1, SameDirOK
    <3>3. \A k \in Listers : d \in t.lstDirs[k] <=> d \in a.lstDirs[k]
      BY <1>5, <1>8, <2>3 DEF SameButHolding
    <3>4. RegistryOK(t, d)
      BY <1>6, <2>1, <3>2, <3>3 DEF RegistryOK
    <3> QED BY <3>2, <3>4
  <2> QED BY <2>2, <2>3
<1>10. \A k \in Listers : PostedOK(t, k)
  BY <1>4, <1>5, <1>8 DEF PostedOK, SameButHolding
<1>11. \A k \in Listers \ {l} : RootOK(t, k)
  BY <1>4, <1>5, <1>8 DEF RootOK, SameButHolding
<1>12. Agreed(t)
  BY <1>8, <1>9, <1>10 DEF Agreed
<1>13. t.url = s.url /\ t.lstDirs[l] = s.lstDirs[l] \ {dir}
  BY <1>3, <1>5, <1>8 DEF SameButHolding
<1> QED BY <1>11, <1>12, <1>13 DEF LeaveOne, t, b, a

LEMMA LeaveDirsFacts ==
  ASSUME NEW s, Consistent(s), NEW l \in Listers, NEW dir \in Dirs, NEW keep \in BOOLEAN
  PROVE  LET t == LeaveDirs(s, l, dir, keep) IN
         /\ Agreed(t) /\ \A k \in Listers \ {l} : RootOK(t, k)
         /\ t.url = s.url
         /\ keep => t.lstDirs[l] = s.lstDirs[l] \ {dir}
         /\ ~keep => t.lstDirs[l] = {}
<1> DEFINE t == LeaveDirs(s, l, dir, keep)
<1>1. CASE ~keep
  <2>1. t = ForgetAll(StopAll(s, l), l)
    BY <1>1 DEF LeaveDirs
  <2> HIDE DEF t
  <2>2. Consistent(t) /\ t.lstDirs[l] = {} /\ t.url = s.url
    BY <2>1, LeaveAllFacts
  <2> QED BY <1>1, <2>2 DEF Consistent, t
<1>2. CASE keep /\ dir \notin s.lstDirs[l]
  <2>1. t = s
    BY <1>2 DEF LeaveDirs
  <2> HIDE DEF t
  <2>2. t.lstDirs[l] = s.lstDirs[l] \ {dir}
    BY <1>2, <2>1
  <2> QED BY <1>2, <2>1, <2>2 DEF Consistent, t
<1>3. CASE keep /\ dir \in s.lstDirs[l]
  <2> DEFINE u == LeaveOne(s, l, dir)
  <2>1. t = u
    BY <1>3 DEF LeaveDirs, LeaveOne
  <2>2. /\ Agreed(u) /\ \A k \in Listers \ {l} : RootOK(u, k)
        /\ u.url = s.url /\ u.lstDirs[l] = s.lstDirs[l] \ {dir}
    BY <1>3, LeaveOneFacts
  <2> HIDE DEF t, u
  <2> QED BY <1>3, <2>1, <2>2 DEF t
<1> QED BY <1>1, <1>2, <1>3

\* A lister enters a directory.
Enter(s, l, dir, keep) ==
  [s EXCEPT !.complete[l] = FALSE,
            !.lstDirs[l] = @ \union {dir},
            !.url[l] = IF @ = NoDir \/ ~keep THEN dir ELSE @,
            !.listersCurrentlyListing[dir] = @ \union {l}]

LEMMA EnterFacts ==
  ASSUME NEW s \in States, NEW l \in Listers, NEW dir \in Dirs, NEW keep \in BOOLEAN
  PROVE  LET t == Enter(s, l, dir, keep) IN
         /\ t \in States /\ SameItems(s, t) /\ t.job = s.job
         /\ t.autoUpdate = s.autoUpdate /\ t.cachedItemsJob = s.cachedItemsJob
         /\ t.listersCurrentlyHolding = s.listersCurrentlyHolding
         /\ t.listersCurrentlyListing[dir] = s.listersCurrentlyListing[dir] \union {l}
         /\ \A d \in Dirs \ {dir} :
              t.listersCurrentlyListing[d] = s.listersCurrentlyListing[d]
         /\ t.lstDirs[l] = s.lstDirs[l] \union {dir}
         /\ s.url[l] = NoDir \/ ~keep => t.url[l] = dir
         /\ s.url[l] # NoDir /\ keep => t.url[l] = s.url[l]
         /\ \A k \in Listers \ {l} : t.lstDirs[k] = s.lstDirs[k] /\ t.url[k] = s.url[k]
<1> DEFINE complete == [s.complete EXCEPT ![l] = FALSE]
           dirs == [s.lstDirs EXCEPT ![l] = @ \union {dir}]
           first == IF s.url[l] = NoDir \/ ~keep THEN dir ELSE s.url[l]
           url == [s.url EXCEPT ![l] = first]
           listing == [s.listersCurrentlyListing EXCEPT ![dir] = @ \union {l}]
           t == Enter(s, l, dir, keep)
<1>1. t = [s EXCEPT !.complete = complete, !.lstDirs = dirs, !.url = url,
                    !.listersCurrentlyListing = listing]
  BY DEF Enter, States
<1>2. /\ first \in Dirs \union {NoDir}
      /\ s.url[l] = NoDir \/ ~keep => first = dir
      /\ s.url[l] # NoDir /\ keep => first = s.url[l]
  BY DEF States
<1> HIDE DEF first
<1>3. /\ complete \in [Listers -> BOOLEAN] /\ dirs \in [Listers -> SUBSET Dirs]
      /\ url \in [Listers -> Dirs \union {NoDir}]
      /\ listing \in [Dirs -> SUBSET Listers]
  BY <1>2 DEF States
<1>4. /\ dirs[l] = s.lstDirs[l] \union {dir} /\ url[l] = first
      /\ listing[dir] = s.listersCurrentlyListing[dir] \union {l}
      /\ \A k \in Listers \ {l} : dirs[k] = s.lstDirs[k] /\ url[k] = s.url[k]
      /\ \A d \in Dirs \ {dir} : listing[d] = s.listersCurrentlyListing[d]
  BY DEF States
<1> HIDE DEF complete, dirs, url, listing, t
<1>5. /\ t \in States /\ t.lstDirs = dirs /\ t.url = url
      /\ t.listersCurrentlyListing = listing
  BY <1>1, <1>3 DEF States
<1>6. /\ SameItems(s, t) /\ t.job = s.job
      /\ t.autoUpdate = s.autoUpdate /\ t.cachedItemsJob = s.cachedItemsJob
      /\ t.listersCurrentlyHolding = s.listersCurrentlyHolding
  BY <1>1 DEF States, SameItems
<1> QED BY <1>2, <1>4, <1>5, <1>6 DEF t

LEMMA PostFacts ==
  ASSUME NEW s \in States, NEW l \in Listers, NEW dir \in Dirs,
         s.itemsInUse[dir] # NoItem, NEW reload \in BOOLEAN
  PROVE  LET t == PostCachedItems(s, l, dir, reload) IN
         /\ t \in States /\ SameItems(s, t) /\ t.job = s.job
         /\ t.lstDirs = s.lstDirs /\ t.url = s.url /\ t.autoUpdate = s.autoUpdate
         /\ t.listersCurrentlyListing = s.listersCurrentlyListing
         /\ t.listersCurrentlyHolding = s.listersCurrentlyHolding
         /\ t.cachedItemsJob[l] # NoJob /\ t.cachedItemsJob[l].url = dir
         /\ t.jobData = s.jobData
         /\ \A k \in Listers \ {l} : t.cachedItemsJob[k] = s.cachedItemsJob[k]
<1> DEFINE items == s.itemsInUse[dir].items
           new == [url |-> dir, items |-> items, reload |-> reload]
           posted == [s.cachedItemsJob EXCEPT ![l] = new]
           t == PostCachedItems(s, l, dir, reload)
<1>1. t = [s EXCEPT !.cachedItemsJob = posted]
  BY DEF PostCachedItems, States
<1>2. items \in SUBSET Contents[dir]
  BY ItemType DEF States
<1> HIDE DEF items
<1>3. new \in Posted /\ new.url = dir /\ new # NoJob
  <2>1. new \in CachedItemsJobs /\ new \in Posted
    BY <1>2, ContentsAreItems DEF Posted, CachedItemsJobs
  <2>2. new.url = dir
    OBVIOUS
  <2> HIDE DEF new
  <2> QED BY <2>1, <2>2, NoJobAssumption
<1> HIDE DEF new
<1>4. /\ posted \in [Listers -> Posted] /\ posted[l] = new
      /\ \A k \in Listers \ {l} : posted[k] = s.cachedItemsJob[k]
  BY <1>3 DEF States
<1> HIDE DEF posted, t
<1>5. t \in States /\ t.cachedItemsJob = posted
  BY <1>1, <1>4 DEF States
<1>6. /\ SameItems(s, t) /\ t.job = s.job
      /\ t.lstDirs = s.lstDirs /\ t.url = s.url /\ t.autoUpdate = s.autoUpdate
      /\ t.listersCurrentlyListing = s.listersCurrentlyListing
      /\ t.listersCurrentlyHolding = s.listersCurrentlyHolding
      /\ t.jobData = s.jobData
  BY <1>1 DEF States, SameItems
<1> QED BY <1>3, <1>4, <1>5, <1>6 DEF t

\* What has been prepared for a lister that enters dir: an item is in use, it is
\* watched n times, and nothing else has changed but for jobs.
Ready(s, l, dir, n, t) ==
  /\ t \in States
  /\ t.listersCurrentlyListing = s.listersCurrentlyListing
  /\ t.listersCurrentlyHolding = s.listersCurrentlyHolding
  /\ t.lstDirs = s.lstDirs /\ t.url = s.url /\ t.autoUpdate = s.autoUpdate
  /\ \A k \in Listers \ {l} : t.cachedItemsJob[k] = s.cachedItemsJob[k]
  /\ t.cachedItemsJob[l] = s.cachedItemsJob[l] \/ t.cachedItemsJob[l].url = dir
  /\ t.itemsInUse[dir] # NoItem /\ t.itemsInUse[dir].autoUpdates = n
  /\ t.itemsCached[dir] = NoItem
  /\ \A d \in Dirs \ {dir} : /\ t.itemsInUse[d] = s.itemsInUse[d]
                            /\ t.itemsCached[d] = s.itemsCached[d]
                            /\ t.job[d] = s.job[d]

LEMMA PostReady ==
  ASSUME NEW s, NEW l \in Listers, NEW dir \in Dirs, NEW n, NEW t,
         Ready(s, l, dir, n, t), NEW reload \in BOOLEAN
  PROVE  Ready(s, l, dir, n, PostCachedItems(t, l, dir, reload))
<1> DEFINE u == PostCachedItems(t, l, dir, reload)
<1>1. t \in States /\ t.itemsInUse[dir] # NoItem
  BY DEF Ready
<1>2. /\ u \in States /\ SameItems(t, u) /\ u.job = t.job
      /\ u.lstDirs = t.lstDirs /\ u.url = t.url /\ u.autoUpdate = t.autoUpdate
      /\ u.listersCurrentlyListing = t.listersCurrentlyListing
      /\ u.listersCurrentlyHolding = t.listersCurrentlyHolding
      /\ u.cachedItemsJob[l].url = dir
      /\ \A k \in Listers \ {l} : u.cachedItemsJob[k] = t.cachedItemsJob[k]
  BY <1>1, PostFacts
<1> HIDE DEF u
<1>3. Ready(s, l, dir, n, u)
  BY <1>2 DEF Ready, SameItems
<1> QED BY <1>3 DEF u

LEMMA QuietReady ==
  ASSUME NEW s, NEW l, NEW dir, NEW n, NEW t, NEW u, Ready(s, l, dir, n, t), Quiet(t, u)
  PROVE  Ready(s, l, dir, n, u)
BY DEF Ready, Quiet, SameUsers, SameItems
\* Nobody has a directory that is not in use.
LEMMA NobodyThere ==
  ASSUME NEW s, Agreed(s), NEW dir \in Dirs, s.itemsInUse[dir] = NoItem
  PROVE  /\ Users(s, dir) = {} /\ Cardinality(AutoUsers(s, dir)) = 0
         /\ s.listersCurrentlyListing[dir] = {} /\ CachedOK(s, dir)
<1>1. s \in States /\ DirOK(s, dir) /\ CountOK(s, dir)
  BY DEF Agreed
<1>2. Users(s, dir) = {} /\ CachedOK(s, dir)
  BY <1>1, Fields DEF DirOK, CountOK, CachedOK
<1>3. AutoUsers(s, dir) = {}
  BY <1>2 DEF AutoUsers
<1> QED BY <1>2, <1>3, FS_EmptySet DEF Users

LEMMA InUseReady ==
  ASSUME NEW s, Agreed(s), NEW l \in Listers, NEW dir \in Dirs, NEW keep \in BOOLEAN,
         s.itemsInUse[dir] # NoItem
  PROVE  LET t == Enter(s, l, dir, keep) IN
         Ready(t, l, dir, Cardinality(AutoUsers(s, dir)), t)
<1> DEFINE t == Enter(s, l, dir, keep)
<1>1. s \in States /\ DirOK(s, dir) /\ CountOK(s, dir)
  BY DEF Agreed
<1>2. t \in States /\ SameItems(s, t)
  BY <1>1, EnterFacts
<1> HIDE DEF t
<1>3. /\ s.itemsInUse[dir].autoUpdates = Cardinality(AutoUsers(s, dir))
      /\ s.itemsCached[dir] = NoItem
  BY <1>1, Fields DEF DirOK, CountOK
<1>4. Ready(t, l, dir, Cardinality(AutoUsers(s, dir)), t)
  BY <1>2, <1>3 DEF Ready, SameItems
<1> QED BY <1>4 DEF t

LEMMA TakenReady ==
  ASSUME NEW s, Agreed(s), NEW l \in Listers, NEW dir \in Dirs, NEW keep \in BOOLEAN,
         s.itemsInUse[dir] = NoItem, s.itemsCached[dir] # NoItem
  PROVE  LET t == Enter(s, l, dir, keep) IN
         Ready(t, l, dir, Cardinality(AutoUsers(s, dir)), TakenFromCache(t, dir))
<1> DEFINE t == Enter(s, l, dir, keep)
           u == TakenFromCache(t, dir)
           item == t.itemsCached[dir]
           less == IF item.autoUpdates = 0 THEN 0 ELSE item.autoUpdates - 1
<1>1. s \in States
  BY DEF Agreed
<1>2. t \in States /\ SameItems(s, t)
  BY <1>1, EnterFacts
<1> HIDE DEF t
<1>3. HasDirItem(t, "itemsCached", dir)
  BY <1>2 DEF SameItems, HasDirItem
<1>4. /\ u \in States
      /\ u.itemsInUse = [t.itemsInUse EXCEPT ![dir] =
           [autoUpdates |-> less, complete |-> item.complete, items |-> item.items]]
      /\ u.itemsCached = [t.itemsCached EXCEPT ![dir] = NoItem]
      /\ SameUsers(t, u) /\ u.job = t.job
  BY <1>2, <1>3, TakenFacts
<1>5. item \in [autoUpdates : Nat, complete : BOOLEAN, items : SUBSET Items]
  BY <1>2, <1>3, ItemType, Fields DEF States
<1>6. /\ less = 0 /\ less \in Nat /\ item.complete \in BOOLEAN
      /\ item.items \in SUBSET Contents[dir]
  <2>1. item.autoUpdates = IF item.complete THEN 1 ELSE 0
    BY <1>2, NobodyThere DEF SameItems, CachedOK
  <2>2. less = 0
    <3>1. item.autoUpdates \in {0, 1}
      BY <2>1
    <3> QED BY <3>1
  <2>3. item.items \in SUBSET Contents[dir]
    BY <1>2, <1>3, Fields, ItemType DEF States
  <2> QED BY <1>5, <2>2, <2>3
<1> DEFINE complete == item.complete
           items == item.items
<1> HIDE DEF u, less
<1>7. u.itemsInUse = Put(t.itemsInUse, dir, less, complete, items)
  BY <1>4 DEF Put
<1>8. complete \in BOOLEAN /\ items \in SUBSET Contents[dir]
  BY <1>6
<1> HIDE DEF complete, items, item
<1>9. t.itemsInUse \in ItemMaps /\ t.itemsCached \in ItemMaps
  BY <1>2 DEF States
<1>10. /\ u.itemsInUse[dir] # NoItem /\ u.itemsInUse[dir].autoUpdates = less
       /\ \A d \in Dirs \ {dir} : u.itemsInUse[d] = t.itemsInUse[d]
  BY <1>6, <1>7, <1>8, <1>9, ItemPut
<1>11. /\ u.itemsCached[dir] = NoItem
       /\ \A d \in Dirs \ {dir} : u.itemsCached[d] = t.itemsCached[d]
  BY <1>4, <1>9 DEF ItemMaps
<1>12. Cardinality(AutoUsers(s, dir)) = 0
  BY NobodyThere
<1>13. Ready(t, l, dir, 0, u)
  BY <1>4, <1>6, <1>10, <1>11 DEF Ready, SameUsers
<1> QED BY <1>12, <1>13 DEF t, u

\* A new item for a directory that is read from the disk.
LEMMA NewItemFacts ==
  ASSUME NEW t \in States, NEW dir \in Dirs
  PROVE  LET a == Deleted(t, "itemsCached", dir)
             b == [a EXCEPT !.itemsInUse[dir] = NewDirItem]
         IN
         /\ b \in States /\ SameUsers(t, b) /\ b.job = t.job /\ b.jobData = t.jobData
         /\ b.itemsInUse[dir] # NoItem /\ b.itemsInUse[dir].autoUpdates = 0
         /\ b.itemsCached[dir] = NoItem
         /\ \A d \in Dirs \ {dir} : /\ b.itemsInUse[d] = t.itemsInUse[d]
                                   /\ b.itemsCached[d] = t.itemsCached[d]
<1> DEFINE a == Deleted(t, "itemsCached", dir)
           b == [a EXCEPT !.itemsInUse[dir] = NewDirItem]
<1>1. /\ a \in States /\ a.itemsInUse = t.itemsInUse
      /\ a.itemsCached = [t.itemsCached EXCEPT ![dir] = NoItem]
      /\ SameUsers(t, a) /\ a.job = t.job
  <2>1. /\ a \in States
        /\ a["itemsCached"] = [t["itemsCached"] EXCEPT ![dir] = NoItem]
        /\ a["itemsInUse"] = t["itemsInUse"]
        /\ SameUsers(t, a) /\ a.job = t.job
    BY DeletedFacts DEF Places
  <2> HIDE DEF a
  <2> QED BY <2>1, Fields
<1>2. a.jobData = t.jobData
  BY DEF Deleted, Unwatched, HasDirItem, States
<1> HIDE DEF a
<1> DEFINE m == Put(a.itemsInUse, dir, 0, FALSE, {})
<1>3. b = [a EXCEPT !.itemsInUse = m]
  BY <1>1 DEF Put, NewDirItem, States
<1>4. /\ m \in ItemMaps /\ m[dir] # NoItem /\ m[dir].autoUpdates = 0
      /\ \A d \in Dirs \ {dir} : m[d] = a.itemsInUse[d]
  <2>1. a.itemsInUse \in ItemMaps
    BY <1>1 DEF States
  <2>2. \A no \in BOOLEAN :
          LET k == Put(a.itemsInUse, dir, 0, no, {}) IN
          /\ k \in ItemMaps /\ k[dir] # NoItem /\ k[dir].autoUpdates = 0
          /\ \A d \in Dirs \ {dir} : k[d] = a.itemsInUse[d]
    BY <2>1, ItemPut
  <2> QED BY <2>2, Zenon
<1> HIDE DEF m, b
<1>5. /\ b \in States /\ b.itemsInUse = m /\ b.itemsCached = a.itemsCached
      /\ SameUsers(a, b) /\ b.job = a.job /\ b.jobData = a.jobData
  BY <1>1, <1>3, <1>4 DEF States, SameUsers
<1>6. /\ a.itemsCached[dir] = NoItem
      /\ \A d \in Dirs \ {dir} : a.itemsCached[d] = t.itemsCached[d]
  BY <1>1 DEF States, ItemMaps
<1> QED BY <1>1, <1>2, <1>4, <1>5, <1>6 DEF SameUsers, b, a

LEMMA DiskReady ==
  ASSUME NEW s, Agreed(s), NEW l \in Listers, NEW dir \in Dirs, NEW keep \in BOOLEAN,
         s.itemsInUse[dir] = NoItem
  PROVE  LET t == Enter(s, l, dir, keep) IN
         Ready(t, l, dir, Cardinality(AutoUsers(s, dir)), ListFromDisk(t, l, dir))
<1> DEFINE t == Enter(s, l, dir, keep)
           a == Deleted(t, "itemsCached", dir)
           b == [a EXCEPT !.itemsInUse[dir] = NewDirItem]
           e == NewJob(b, dir, "list")
           u == JobStarted(e, {l}, dir)
<1>1. s \in States
  BY DEF Agreed
<1>2. t \in States /\ SameItems(s, t)
  BY <1>1, EnterFacts
<1> HIDE DEF t
<1>3. /\ b \in States /\ SameUsers(t, b) /\ b.job = t.job
      /\ b.itemsInUse[dir] # NoItem /\ b.itemsInUse[dir].autoUpdates = 0
      /\ b.itemsCached[dir] = NoItem
      /\ \A d \in Dirs \ {dir} : /\ b.itemsInUse[d] = t.itemsInUse[d]
                                /\ b.itemsCached[d] = t.itemsCached[d]
  BY <1>2, NewItemFacts
<1>4. ListFromDisk(t, l, dir) = u
  BY DEF ListFromDisk
<1> HIDE DEF b
<1>5. /\ e \in States /\ SameUsers(b, e) /\ SameItems(b, e)
      /\ \A d \in Dirs \ {dir} : e.job[d] = b.job[d]
  <2>1. /\ e \in States /\ SameUsers(b, e) /\ SameItems(b, e)
        /\ e.job = [b.job EXCEPT ![dir] = [kind |-> "list", read |-> FALSE,
                                           left |-> {}, buffer |-> {}]]
    BY <1>3, NewJobFacts
  <2> HIDE DEF e
  <2> QED BY <1>3, <2>1 DEF States, JobMaps
<1> HIDE DEF e
<1>6. Quiet(e, u)
  BY <1>5, JobStartedQuiet
<1> HIDE DEF u
<1>7. Cardinality(AutoUsers(s, dir)) = 0
  BY NobodyThere
<1>8. Ready(t, l, dir, 0, e)
  BY <1>3, <1>5 DEF Ready, SameUsers, SameItems
<1>9. Ready(t, l, dir, 0, u)
  BY <1>6, <1>8, QuietReady
<1> QED BY <1>4, <1>7, <1>9 DEF t

\* What listDir does for a lister that has entered the directory.
Listed(s, t, l, dir, reload) ==
  IF s.listersCurrentlyListing[dir] # {} THEN JoinListing(t, l, dir, reload)
  ELSE IF \/ HasDirItem(t, "itemsInUse", dir)
          \/ HasDirItem(t, "itemsCached", dir) /\ ~reload
    THEN ListFromCache(t, l, dir, reload)
    ELSE ListFromDisk(t, l, dir)

LEMMA ListedReady ==
  ASSUME NEW s, Agreed(s), NEW l \in Listers, NEW dir \in Dirs,
         NEW keep \in BOOLEAN, NEW reload \in BOOLEAN
  PROVE  LET t == Enter(s, l, dir, keep) IN
         Ready(t, l, dir, Cardinality(AutoUsers(s, dir)), Listed(s, t, l, dir, reload))
<1> DEFINE t == Enter(s, l, dir, keep)
           n == Cardinality(AutoUsers(s, dir))
           u == Listed(s, t, l, dir, reload)
<1>1. s \in States /\ t \in States /\ SameItems(s, t) /\ DirOK(s, dir)
  BY EnterFacts DEF Agreed
<1>2. s.itemsInUse[dir] # NoItem => Ready(t, l, dir, n, t)
  BY InUseReady
<1>3. s.itemsInUse[dir] = NoItem /\ s.itemsCached[dir] # NoItem =>
        Ready(t, l, dir, n, TakenFromCache(t, dir))
  BY TakenReady
<1>4. s.itemsInUse[dir] = NoItem => Ready(t, l, dir, n, ListFromDisk(t, l, dir))
  BY DiskReady
<1> HIDE DEF t, n
<1>5. /\ HasDirItem(t, "itemsInUse", dir) <=> s.itemsInUse[dir] # NoItem
      /\ HasDirItem(t, "itemsCached", dir) <=> s.itemsCached[dir] # NoItem
  BY <1>1, Fields DEF SameItems
<1>6. CASE s.listersCurrentlyListing[dir] # {}
  <2> DEFINE e == IF t.job[dir] = NoJob THEN t ELSE JobStarted(t, {l}, dir)
  <2>1. s.itemsInUse[dir] # NoItem
    BY <1>6, NobodyThere
  <2>2. Quiet(t, e)
    BY <1>1, JobStartedQuiet, QuietNothing
  <2>3. u = PostCachedItems(e, l, dir, reload)
    BY <1>6 DEF Listed, JoinListing
  <2> HIDE DEF e, u
  <2>4. Ready(t, l, dir, n, e)
    BY <1>2, <2>1, <2>2, QuietReady
  <2>5. Ready(t, l, dir, n, PostCachedItems(e, l, dir, reload))
    BY <2>4, PostReady
  <2> QED BY <2>3, <2>5 DEF u, t, n
<1>7. CASE /\ s.listersCurrentlyListing[dir] = {} /\ s.itemsInUse[dir] # NoItem
  <2>1. u = PostCachedItems(t, l, dir, reload)
    BY <1>5, <1>7 DEF Listed, ListFromCache
  <2> HIDE DEF u
  <2>2. Ready(t, l, dir, n, PostCachedItems(t, l, dir, reload))
    BY <1>2, <1>7, PostReady
  <2> QED BY <2>1, <2>2 DEF u, t, n
<1>8. CASE /\ s.listersCurrentlyListing[dir] = {} /\ s.itemsInUse[dir] = NoItem
           /\ s.itemsCached[dir] # NoItem /\ ~reload
  <2> DEFINE e == TakenFromCache(t, dir)
  <2>1. u = PostCachedItems(e, l, dir, reload)
    BY <1>5, <1>8 DEF Listed, ListFromCache
  <2> HIDE DEF u
  <2>2. Ready(t, l, dir, n, e)
    BY <1>3, <1>8
  <2> HIDE DEF e
  <2>3. Ready(t, l, dir, n, PostCachedItems(e, l, dir, reload))
    BY <2>2, PostReady
  <2> QED BY <2>1, <2>3 DEF u, t, n
<1>9. CASE /\ s.listersCurrentlyListing[dir] = {} /\ s.itemsInUse[dir] = NoItem
           /\ ~(s.itemsCached[dir] # NoItem /\ ~reload)
  <2>1. u = ListFromDisk(t, l, dir)
    BY <1>5, <1>9 DEF Listed
  <2> HIDE DEF u
  <2> QED BY <1>4, <1>9, <2>1 DEF u, t, n
<1> QED BY <1>6, <1>7, <1>8, <1>9

\* A lister that enters is counted.
Counted(u, l, dir) == IF u.autoUpdate[l] THEN IncAutoUpdate(u, "itemsInUse", dir) ELSE u

LEMMA EnteredKeeps ==
  ASSUME NEW s, Agreed(s), NEW l \in Listers, NEW dir \in Dirs, NEW keep \in BOOLEAN,
         dir \notin s.lstDirs[l],
         NEW u, Ready(Enter(s, l, dir, keep), l, dir, Cardinality(AutoUsers(s, dir)), u)
  PROVE  LET t == Counted(u, l, dir) IN
         /\ Agreed(t)
         /\ t.lstDirs[l] = s.lstDirs[l] \union {dir}
         /\ s.url[l] = NoDir \/ ~keep => t.url[l] = dir
         /\ s.url[l] # NoDir /\ keep => t.url[l] = s.url[l]
         /\ \A k \in Listers \ {l} : t.lstDirs[k] = s.lstDirs[k] /\ t.url[k] = s.url[k]
<1> DEFINE e == Enter(s, l, dir, keep)
           n == Cardinality(AutoUsers(s, dir))
           t == Counted(u, l, dir)
<1>1. /\ s \in States
      /\ \A d \in Dirs : DirOK(s, d) /\ CountOK(s, d) /\ RegistryOK(s, d)
      /\ \A k \in Listers : PostedOK(s, k)
  BY DEF Agreed
<1>2. /\ e \in States /\ SameItems(s, e) /\ e.job = s.job
      /\ e.autoUpdate = s.autoUpdate /\ e.cachedItemsJob = s.cachedItemsJob
      /\ e.listersCurrentlyHolding = s.listersCurrentlyHolding
      /\ e.listersCurrentlyListing[dir] = s.listersCurrentlyListing[dir] \union {l}
      /\ \A d \in Dirs \ {dir} :
           e.listersCurrentlyListing[d] = s.listersCurrentlyListing[d]
      /\ e.lstDirs[l] = s.lstDirs[l] \union {dir}
      /\ s.url[l] = NoDir \/ ~keep => e.url[l] = dir
      /\ s.url[l] # NoDir /\ keep => e.url[l] = s.url[l]
      /\ \A k \in Listers \ {l} : e.lstDirs[k] = s.lstDirs[k] /\ e.url[k] = s.url[k]
  BY <1>1, EnterFacts
<1> HIDE DEF e
<1>3. Ready(e, l, dir, n, u)
  BY DEF e
<1>4. n \in Nat /\ IsFiniteSet(AutoUsers(s, dir)) /\ l \notin Users(s, dir)
  BY <1>1, UsersFinite DEF RegistryOK
<1> HIDE DEF n
<1>5. /\ t \in States /\ SameUsers(u, t) /\ t.job = u.job
      /\ t.itemsCached = u.itemsCached
      /\ \A d \in Dirs \ {dir} : t.itemsInUse[d] = u.itemsInUse[d]
      /\ t.itemsInUse[dir] # NoItem
      /\ u.autoUpdate[l] => t.itemsInUse[dir].autoUpdates = n + 1
      /\ ~u.autoUpdate[l] => t.itemsInUse[dir].autoUpdates = n
  <2>1. u \in States /\ u.itemsInUse[dir] # NoItem /\ u.itemsInUse[dir].autoUpdates = n
    BY <1>3 DEF Ready
  <2>2. CASE u.autoUpdate[l]
    <3> DEFINE v == IncAutoUpdate(u, "itemsInUse", dir)
    <3>1. t = v
      BY <2>2 DEF Counted
    <3>2. /\ v \in States /\ SameUsers(u, v) /\ v.job = u.job
          /\ v["itemsCached"] = u["itemsCached"]
          /\ \A d \in Dirs \ {dir} : v["itemsInUse"][d] = u["itemsInUse"][d]
          /\ HasDirItem(v, "itemsInUse", dir)
          /\ v["itemsInUse"][dir].autoUpdates = u["itemsInUse"][dir].autoUpdates + 1
      <4>1. "itemsInUse" \in Places /\ "itemsCached" \in Places \ {"itemsInUse"}
        BY DEF Places
      <4>2. HasDirItem(u, "itemsInUse", dir)
        BY <2>1, Fields
      <4> QED BY <2>1, <4>1, <4>2, IncAt
    <3> HIDE DEF v, t
    <3> QED BY <2>1, <2>2, <3>1, <3>2, Fields
  <2>3. CASE ~u.autoUpdate[l]
    <3>1. t = u
      BY <2>3 DEF Counted
    <3> HIDE DEF t
    <3> QED BY <2>1, <2>3, <3>1 DEF SameUsers
  <2> QED BY <2>2, <2>3
<1> HIDE DEF t
<1>6. /\ t.listersCurrentlyListing[dir] = s.listersCurrentlyListing[dir] \union {l}
      /\ t.listersCurrentlyHolding = s.listersCurrentlyHolding
      /\ \A d \in Dirs \ {dir} :
           t.listersCurrentlyListing[d] = s.listersCurrentlyListing[d]
      /\ t.autoUpdate = s.autoUpdate /\ u.autoUpdate = s.autoUpdate
      /\ t.itemsCached[dir] = NoItem
      /\ \A d \in Dirs \ {dir} : /\ t.itemsInUse[d] = s.itemsInUse[d]
                                /\ t.itemsCached[d] = s.itemsCached[d]
                                /\ t.job[d] = s.job[d]
      /\ \A k \in Listers \ {l} : t.cachedItemsJob[k] = s.cachedItemsJob[k]
      /\ t.cachedItemsJob[l] = s.cachedItemsJob[l] \/ t.cachedItemsJob[l].url = dir
  BY <1>2, <1>3, <1>5 DEF Ready, SameUsers, SameItems
<1>7. /\ t.lstDirs[l] = s.lstDirs[l] \union {dir}
      /\ s.url[l] = NoDir \/ ~keep => t.url[l] = dir
      /\ s.url[l] # NoDir /\ keep => t.url[l] = s.url[l]
      /\ \A k \in Listers \ {l} : t.lstDirs[k] = s.lstDirs[k] /\ t.url[k] = s.url[k]
  BY <1>2, <1>3, <1>5 DEF Ready, SameUsers
<1>8. ASSUME NEW d \in Dirs PROVE DirOK(t, d) /\ CountOK(t, d) /\ RegistryOK(t, d)
  <2>1. DirOK(s, d) /\ CountOK(s, d) /\ RegistryOK(s, d)
    BY <1>1
  <2>2. CASE d = dir
    <3>1. Users(t, d) = Users(s, d) \union {l}
      BY <1>6, <2>2 DEF Users
    <3>2. t.listersCurrentlyListing[d] \cap t.listersCurrentlyHolding[d] = {}
      BY <1>4, <1>6, <2>1, <2>2 DEF DirOK, Users
    <3>3. DirOK(t, d)
      BY <1>5, <1>6, <2>2, <3>1, <3>2, Fields DEF DirOK
    <3>4. t.itemsInUse[d].autoUpdates = Cardinality(AutoUsers(t, d))
      <4>1. CASE s.autoUpdate[l]
        <5>1. AutoUsers(t, d) = AutoUsers(s, d) \union {l} /\ l \notin AutoUsers(s, d)
          BY <1>4, <1>6, <2>2, <3>1, <4>1 DEF AutoUsers
        <5>2. Cardinality(AutoUsers(t, d)) = n + 1
          BY <1>4, <2>2, <5>1, OneMore DEF n
        <5> QED BY <1>5, <1>6, <2>2, <4>1, <5>2
      <4>2. CASE ~s.autoUpdate[l]
        <5>1. AutoUsers(t, d) = AutoUsers(s, d)
          BY <1>4, <1>6, <2>2, <3>1, <4>2 DEF AutoUsers
        <5> QED BY <1>5, <1>6, <2>2, <4>2, <5>1 DEF n
      <4> QED BY <4>1, <4>2
    <3>5. CountOK(t, d)
      BY <1>5, <1>6, <2>2, <3>4, Fields DEF CountOK
    <3>6. RegistryOK(t, d)
      BY <1>7, <2>1, <2>2, <3>1 DEF RegistryOK
    <3> QED BY <3>3, <3>5, <3>6
  <2>3. CASE d # dir
    <3>1. /\ Users(t, d) = Users(s, d)
          /\ t.listersCurrentlyListing[d] = s.listersCurrentlyListing[d]
          /\ t.listersCurrentlyHolding[d] = s.listersCurrentlyHolding[d]
      BY <1>6, <2>3 DEF Users
    <3>2. SameDir(s, t, d)
      BY <1>6, <2>3, <3>1 DEF SameDir
    <3>3. DirOK(t, d) /\ CountOK(t, d)
      BY <1>1, <1>5, <1>6, <2>1, <3>2, SameDirOK
    <3>4. \A k \in Listers : d \in t.lstDirs[k] <=> d \in s.lstDirs[k]
      BY <1>7, <2>3
    <3>5. RegistryOK(t, d)
      BY <2>1, <3>1, <3>4 DEF RegistryOK
    <3> QED BY <3>3, <3>5
  <2> QED BY <2>2, <2>3
<1>9. \A k \in Listers : PostedOK(t, k)
  <2>1. SUFFICES ASSUME NEW k \in Listers, t.cachedItemsJob[k] # NoJob
                 PROVE  k \in t.listersCurrentlyListing[t.cachedItemsJob[k].url]
    BY DEF PostedOK
  <2>2. t.cachedItemsJob[k].url \in Dirs
    BY <1>5, <2>1, UrlType
  <2>3. CASE t.cachedItemsJob[k] = s.cachedItemsJob[k]
    <3>1. k \in s.listersCurrentlyListing[t.cachedItemsJob[k].url]
      BY <1>1, <2>1, <2>3 DEF PostedOK
    <3> QED BY <1>6, <2>2, <3>1
  <2>4. CASE k = l /\ t.cachedItemsJob[k].url = dir
    BY <1>6, <2>4
  <2> QED BY <1>6, <2>3, <2>4
<1>10. Agreed(t)
  BY <1>5, <1>8, <1>9 DEF Agreed
<1> QED BY <1>7, <1>10 DEF t
LEMMA ListDirKeeps ==
  ASSUME NEW s, Consistent(s), NEW l \in Listers, NEW dir \in Dirs,
         NEW keep \in BOOLEAN, NEW reload \in BOOLEAN
  PROVE  LET t == ListDir(s, l, dir, keep, reload) IN
         /\ Agreed(t) /\ \A k \in Listers \ {l} : RootOK(t, k)
         /\ ~keep => t.lstDirs[l] = {dir} /\ t.url[l] = dir
         /\ keep => /\ t.lstDirs[l] = s.lstDirs[l] \union {dir}
                    /\ t.url[l] = IF s.url[l] = NoDir THEN dir ELSE s.url[l]
<1> DEFINE a == LeaveDirs(s, l, dir, keep)
           e == Enter(a, l, dir, keep)
           u == Listed(a, e, l, dir, reload)
           t == Counted(u, l, dir)
<1>1. ListDir(s, l, dir, keep, reload) = t
  BY DEF ListDir, Counted, Listed, Enter
<1>2. /\ Agreed(a) /\ \A k \in Listers \ {l} : RootOK(a, k)
      /\ a.url = s.url
      /\ keep => a.lstDirs[l] = s.lstDirs[l] \ {dir}
      /\ ~keep => a.lstDirs[l] = {}
  BY LeaveDirsFacts
<1> HIDE DEF a
<1>3. dir \notin a.lstDirs[l]
  BY <1>2
<1>4. Ready(e, l, dir, Cardinality(AutoUsers(a, dir)), u)
  BY <1>2, ListedReady
<1> HIDE DEF u
<1>5. /\ Agreed(t)
      /\ t.lstDirs[l] = a.lstDirs[l] \union {dir}
      /\ a.url[l] = NoDir \/ ~keep => t.url[l] = dir
      /\ a.url[l] # NoDir /\ keep => t.url[l] = a.url[l]
      /\ \A k \in Listers \ {l} : t.lstDirs[k] = a.lstDirs[k] /\ t.url[k] = a.url[k]
  BY <1>2, <1>3, <1>4, EnteredKeeps
<1> HIDE DEF t
<1>6. \A k \in Listers \ {l} : RootOK(t, k)
  BY <1>2, <1>5 DEF RootOK
<1>7. /\ ~keep => t.lstDirs[l] = {dir} /\ t.url[l] = dir
      /\ keep => t.lstDirs[l] = s.lstDirs[l] \union {dir}
      /\ keep => t.url[l] = IF s.url[l] = NoDir THEN dir ELSE s.url[l]
  BY <1>2, <1>5
<1> QED BY <1>1, <1>5, <1>6, <1>7

\* What a lister that keeps its directories may open is below its url ().
LEMMA OpenUrlKeeps ==
  ASSUME Consistent(c), ~Does("keepRoot"), NEW l \in Listers, NEW dir \in Dirs,
         NEW keep \in BOOLEAN, NEW reload \in BOOLEAN, OpenUrl(l, dir, keep, reload)
  PROVE  Consistent(c')
<1> DEFINE t == ListDir(c, l, dir, keep, reload)
<1>1. c' = t
  BY DEF OpenUrl
<1>2. /\ Agreed(t) /\ \A k \in Listers \ {l} : RootOK(t, k)
      /\ ~keep => t.lstDirs[l] = {dir} /\ t.url[l] = dir
      /\ keep => /\ t.lstDirs[l] = c.lstDirs[l] \union {dir}
                 /\ t.url[l] = IF c.url[l] = NoDir THEN dir ELSE c.url[l]
  BY ListDirKeeps
<1> HIDE DEF t
<1>3. dir \in Below[dir]
  BY BelowFacts
<1>4. c \in States /\ RootOK(c, l)
  BY DEF Consistent, Agreed
<1>5. ASSUME ~keep PROVE RootOK(t, l)
  BY <1>2, <1>3, <1>5 DEF RootOK
<1>6. ASSUME keep, c.lstDirs[l] = {} PROVE RootOK(t, l)
  <2>1. c.url[l] \in {NoDir, dir}
    BY <1>6 DEF OpenUrl
  <2>2. t.lstDirs[l] = {dir} /\ t.url[l] = dir
    BY <1>2, <1>6, <2>1
  <2> QED BY <1>3, <2>2 DEF RootOK
<1>7. ASSUME keep, c.lstDirs[l] # {} PROVE RootOK(t, l)
  <2>1. c.url[l] \in c.lstDirs[l] /\ c.lstDirs[l] \subseteq Below[c.url[l]]
    BY <1>4, <1>7 DEF RootOK
  <2>2. c.lstDirs[l] \subseteq Dirs /\ c.url[l] \in Dirs /\ c.url[l] # NoDir
    BY <1>4, <2>1, DirsAssumption DEF States
  <2>3. t.lstDirs[l] = c.lstDirs[l] \union {dir} /\ t.url[l] = c.url[l]
    BY <1>2, <1>7, <2>2
  <2>4. dir \in Below[c.url[l]]
    <3>1. CASE dir \in c.lstDirs[l]
      BY <2>1, <3>1
    <3>2. CASE dir \notin c.lstDirs[l]
      <4>1. PICK parent \in c.lstDirs[l] : dir \in c.shown[l][parent]
        BY <1>7, <3>2 DEF OpenUrl
      <4>2. c.shown[l][parent] \subseteq Contents[parent]
        BY <1>4, <2>2 DEF States, Views
      <4>3. dir \in Below[parent]
        BY <2>2, <4>1, <4>2, BelowFacts
      <4>4. Below[parent] \subseteq Below[c.url[l]]
        BY <2>1, <2>2, BelowFacts
      <4> QED BY <4>3, <4>4
    <3> QED BY <3>1, <3>2
  <2> QED BY <2>1, <2>3, <2>4 DEF RootOK
<1>8. \A k \in Listers : RootOK(t, k)
  <2>1. RootOK(t, l)
    BY <1>5, <1>6, <1>7
  <2> QED BY <1>2, <2>1
<1> QED BY <1>1, <1>2, <1>8 DEF Consistent

LEMMA UpdateKeeps ==
  ASSUME Consistent(c), NEW dir \in Dirs, Update(dir)
  PROVE  Consistent(c')
<1>1. c' = UpdateDirectory(c, dir)
  BY DEF Update
<1>2. Consistent(UpdateDirectory(c, dir))
  BY UpdateDirectoryKeeps
<1> QED BY <1>1, <1>2

-----------------------------------------------------------------------------
(* The inductive invariant and what follows from it *)

\* Consistent, with the types of what is around the cache.
IInv ==
  /\ usage \in UsageSets /\ ~Does("keepRoot")
  /\ disk \in [Dirs -> SUBSET Items] /\ DiskOK
  /\ changes \in 0..MaxChanges
  /\ signals \subseteq Signals
  /\ Consistent(c)

LEMMA InitConsistent ==
  ASSUME Init
  PROVE  Consistent(c)
<1>1. /\ c.itemsInUse = [dir \in Dirs |-> NoItem] /\ c.itemsCached = [dir \in Dirs |-> NoItem]
      /\ c.listersCurrentlyListing = [dir \in Dirs |-> {}]
      /\ c.listersCurrentlyHolding = [dir \in Dirs |-> {}]
      /\ c.job = [dir \in Dirs |-> NoJob]
      /\ c.lstDirs = [l \in Listers |-> {}]
      /\ c.cachedItemsJob = [l \in Listers |-> NoJob]
  BY DEF Init
<1>2. [dir \in Dirs |-> NoItem] \in ItemMaps
  BY DEF ItemMaps
<1>3. [dir \in Dirs |-> NoJob] \in JobMaps
  BY DEF JobMaps
<1>4. [l \in Listers |-> NoJob] \in [Listers -> Posted]
  BY DEF Posted
<1>5. [l \in Listers |-> [dir \in Dirs |-> {}]] \in [Listers -> Views]
  BY DEF Views
<1>6. c \in States
  BY <1>2, <1>3, <1>4, <1>5 DEF Init, States
<1>7. ASSUME NEW dir \in Dirs PROVE DirOK(c, dir) /\ CountOK(c, dir) /\ RegistryOK(c, dir)
  <2>1. Users(c, dir) = {}
    BY <1>1 DEF Users
  <2> QED BY <1>1, <1>6, <2>1, Fields DEF DirOK, CountOK, RegistryOK
<1>8. \A l \in Listers : PostedOK(c, l) /\ RootOK(c, l)
  BY <1>1 DEF PostedOK, RootOK
<1> QED BY <1>6, <1>7, <1>8 DEF Consistent, Agreed

LEMMA InitIInv ==
  ASSUME Init, ~Does("keepRoot")
  PROVE  IInv
<1>1. Consistent(c)
  BY InitConsistent
<1>2. disk \in [Dirs -> SUBSET Items] /\ DiskOK
  BY DEF Init, DiskOK
<1>3. changes \in 0..MaxChanges
  BY BoundAssumption DEF Init
<1> QED BY <1>1, <1>2, <1>3 DEF Init, IInv

\* The disk changes.
LEMMA CreateKeeps ==
  ASSUME IInv, NEW dir \in Dirs, NEW item \in Contents[dir], Create(dir, item)
  PROVE  IInv'
<1>1. Consistent(c')
  BY TouchedKeeps DEF Create, IInv
<1>2. item \in Items
  BY ContentsAreItems
<1>3. disk' \in [Dirs -> SUBSET Items] /\ DiskOK'
  BY <1>2 DEF Create, IInv, DiskOK
<1>4. changes' \in 0..MaxChanges
  BY BoundAssumption DEF Create, MayChange, IInv
<1>5. signals' \subseteq Signals
  BY <1>2 DEF Create, IInv, Signals
<1>6. usage' = usage
  BY DEF Create
<1> QED BY <1>1, <1>3, <1>4, <1>5, <1>6 DEF IInv, Does

LEMMA RemoveKeeps ==
  ASSUME IInv, NEW dir \in Dirs, NEW item \in Contents[dir], Remove(dir, item)
  PROVE  IInv'
<1> DEFINE gone == IF item \in Dirs THEN Below[item] ELSE {}
<1>1. Consistent(c')
  <2>1. c' = Touched(c, {dir} \union gone)
    BY DEF Remove
  <2> HIDE DEF gone
  <2> QED BY <2>1, TouchedKeeps DEF IInv
<1>2. item \in Items
  BY ContentsAreItems
<1>3. disk' \in [Dirs -> SUBSET Items] /\ DiskOK'
  <2>1. disk' = [d \in Dirs |-> IF d \in gone THEN {}
                                ELSE IF d = dir THEN disk[d] \ {item} ELSE disk[d]]
    BY DEF Remove
  <2> HIDE DEF gone
  <2>2. \A d \in Dirs : disk'[d] \subseteq disk[d]
    BY <2>1
  <2>3. disk' \in [Dirs -> SUBSET Items]
    BY <2>1 DEF IInv
  <2> QED BY <2>2, <2>3 DEF IInv, DiskOK
<1>4. changes' \in 0..MaxChanges
  BY BoundAssumption DEF Remove, MayChange, IInv
<1>5. signals' \subseteq Signals
  BY <1>2 DEF Remove, IInv, Signals
<1>6. usage' = usage
  BY DEF Remove
<1> QED BY <1>1, <1>3, <1>4, <1>5, <1>6 DEF IInv, Does

\* Nothing but the cache changes, but for signals that arrive.
OnlyCache == UNCHANGED <<usage, disk, changes>> /\ signals' \subseteq signals

LEMMA OnlyCacheKeeps ==
  ASSUME IInv, OnlyCache, Consistent(c')
  PROVE  IInv'
BY DEF IInv, OnlyCache, DiskOK, Does

LEMMA NextKeeps ==
  ASSUME IInv, Next
  PROVE  IInv'
<1>1. Consistent(c) /\ DiskOK /\ signals \subseteq Signals /\ ~Does("keepRoot")
  BY DEF IInv
<1>2. ASSUME NEW l \in Listers, Calls(l) PROVE IInv'
  <2>1. ASSUME NEW dir \in Dirs, NEW keep \in BOOLEAN, NEW reload \in BOOLEAN,
               OpenUrl(l, dir, keep, reload)
        PROVE  IInv'
    <3>1. Consistent(c')
      BY <1>1, <2>1, OpenUrlKeeps
    <3>2. OnlyCache
      BY <2>1 DEF OpenUrl, OnlyCache
    <3> QED BY <3>1, <3>2, OnlyCacheKeeps
  <2>2. ASSUME Stop(l) \/ \E dir \in Dirs : StopUrl(l, dir) PROVE IInv'
    <3>1. Consistent(c')
      BY <1>1, <2>2, StopKeeps
    <3>2. OnlyCache
      BY <2>2 DEF Stop, StopUrl, OnlyCache
    <3> QED BY <3>1, <3>2, OnlyCacheKeeps
  <2>3. ASSUME Close(l) PROVE IInv'
    <3>1. Consistent(c')
      BY <1>1, <2>3, CloseKeeps
    <3>2. OnlyCache
      BY <2>3 DEF Close, OnlyCache
    <3> QED BY <3>1, <3>2, OnlyCacheKeeps
  <2>4. ASSUME NEW enable \in BOOLEAN, SetAutoUpdate(l, enable) PROVE IInv'
    <3>1. Consistent(c')
      BY <1>1, <2>4, SetAutoUpdateKeeps
    <3>2. OnlyCache
      BY <2>4 DEF SetAutoUpdate, OnlyCache
    <3> QED BY <3>1, <3>2, OnlyCacheKeeps
  <2> QED BY <1>2, <2>1, <2>2, <2>3, <2>4 DEF Calls
<1>3. ASSUME NEW l \in Listers, CachedItemsDone(l) PROVE IInv'
  <2>1. Consistent(c')
    BY <1>1, <1>3, CachedItemsDoneKeeps
  <2>2. OnlyCache
    BY <1>3 DEF CachedItemsDone, OnlyCache
  <2> QED BY <2>1, <2>2, OnlyCacheKeeps
<1>4. ASSUME NEW dir \in Dirs, Update(dir) PROVE IInv'
  <2>1. Consistent(c')
    BY <1>1, <1>4, UpdateKeeps
  <2>2. OnlyCache
    BY <1>4 DEF Update, OnlyCache
  <2> QED BY <2>1, <2>2, OnlyCacheKeeps
<1>5. ASSUME NEW dir \in Dirs, JobStep(dir) PROVE IInv'
  <2>1. ASSUME NEW items, Entries(dir, items) PROVE IInv'
    <3>1. Consistent(c')
      BY <1>1, <2>1, EntriesKeeps
    <3>2. OnlyCache
      BY <2>1 DEF Entries, OnlyCache
    <3> QED BY <3>1, <3>2, OnlyCacheKeeps
  <2>2. ASSUME NEW error \in BOOLEAN, SlotResult(dir, error) PROVE IInv'
    <3>1. Consistent(c')
      BY <1>1, <2>2, SlotResultKeeps
    <3>2. OnlyCache
      BY <2>2 DEF SlotResult, OnlyCache
    <3> QED BY <3>1, <3>2, OnlyCacheKeeps
  <2>3. ASSUME NEW error \in BOOLEAN, SlotUpdateResult(dir, error) PROVE IInv'
    <3>1. Consistent(c')
      BY <1>1, <2>3, SlotUpdateResultKeeps
    <3>2. OnlyCache
      BY <2>3 DEF SlotUpdateResult, OnlyCache
    <3> QED BY <3>1, <3>2, OnlyCacheKeeps
  <2> QED BY <1>5, <2>1, <2>2, <2>3 DEF JobStep
<1>6. ASSUME NEW dir \in Dirs, WatchReports(dir) PROVE IInv'
  <2>1. Consistent(c')
    BY <1>1, <1>6, WatchReportsKeeps
  <2>2. OnlyCache
    BY <1>6 DEF WatchReports, OnlyCache
  <2> QED BY <2>1, <2>2, OnlyCacheKeeps
<1>7. ASSUME NEW dir \in Dirs, World(dir) PROVE IInv'
  <2>1. ASSUME Evict(dir) PROVE IInv'
    <3>1. Consistent(c')
      BY <1>1, <2>1, EvictKeeps
    <3>2. OnlyCache
      BY <2>1 DEF Evict, OnlyCache
    <3> QED BY <3>1, <3>2, OnlyCacheKeeps
  <2> QED BY <1>7, <2>1, CreateKeeps, RemoveKeeps DEF World
<1>8. ASSUME NEW signal \in signals, Notified(signal) PROVE IInv'
  <2>1. Consistent(c')
    BY <1>1, <1>8, NotifiedKeeps
  <2>2. OnlyCache
    BY <1>8 DEF Notified, OnlyCache
  <2> QED BY <2>1, <2>2, OnlyCacheKeeps
<1> QED BY <1>2, <1>3, <1>4, <1>5, <1>6, <1>7, <1>8 DEF Next

LEMMA StutterKeeps ==
  ASSUME IInv, UNCHANGED vars
  PROVE  IInv'
BY DEF IInv, vars, DiskOK, Does, Consistent, Agreed

LEMMA InvariantHolds == Spec /\ ~Does("keepRoot") => []IInv
<1>1. Init /\ ~Does("keepRoot") => IInv
  BY InitIInv
<1>2. IInv /\ [Next]_vars => IInv'
  BY NextKeeps, StutterKeeps
<1> QED BY <1>1, <1>2, PTL DEF Spec

LEMMA CachesType ==
  ASSUME NEW s, Agreed(s)
  PROVE  s \in Caches
<1>1. s \in States /\ \A dir \in Dirs : CountOK(s, dir)
  BY DEF Agreed
<1>2. Cardinality(Listers) \in Nat
  BY FiniteAssumption, FS_CardinalityType
<1>3. ASSUME NEW m \in {s.itemsInUse, s.itemsCached}, NEW dir \in Dirs, m[dir] # NoItem
      PROVE  m[dir] \in DirItems
  <2>1. m \in ItemMaps
    BY <1>1, <1>3 DEF States
  <2>2. m[dir] \in [autoUpdates : Nat, complete : BOOLEAN, items : SUBSET Items]
    BY <1>3, <2>1, ItemType
  <2>3. m[dir].autoUpdates \in 0..(Cardinality(Listers) + 1)
    <3>1. CASE m = s.itemsInUse
      <4>1. m[dir].autoUpdates = Cardinality(AutoUsers(s, dir))
        BY <1>1, <1>3, <3>1, Fields DEF CountOK
      <4>2. AutoUsers(s, dir) \subseteq Listers
        BY <1>1, UsersFinite DEF AutoUsers
      <4>3. Cardinality(AutoUsers(s, dir)) <= Cardinality(Listers)
        BY <4>2, FiniteAssumption, FS_Subset
      <4>4. Cardinality(AutoUsers(s, dir)) \in Nat
        BY <1>1, UsersFinite
      <4> QED BY <1>2, <4>1, <4>3, <4>4
    <3>2. CASE m = s.itemsCached
      <4>1. m[dir].autoUpdates = IF m[dir].complete THEN 1 ELSE 0
        BY <1>1, <1>3, <3>2, Fields DEF CountOK
      <4>2. m[dir].autoUpdates \in {0, 1}
        BY <4>1
      <4> QED BY <1>2, <4>2
    <3> QED BY <1>3, <3>1, <3>2
  <2> QED BY <2>2, <2>3 DEF DirItems
<1>4. /\ s.itemsInUse \in [Dirs -> DirItems \union {NoItem}]
      /\ s.itemsCached \in [Dirs -> DirItems \union {NoItem}]
  BY <1>1, <1>3 DEF States, ItemMaps
<1>5. s.job \in [Dirs -> ListJobs \union {NoJob}]
  BY <1>1 DEF States, JobMaps
<1>6. s.cachedItemsJob \in [Listers -> CachedItemsJobs \union {NoJob}]
  BY <1>1 DEF States, Posted
<1>7. s.shown \in [Listers -> [Dirs -> SUBSET Items]]
  BY <1>1 DEF States, Views
<1> QED BY <1>1, <1>4, <1>5, <1>6, <1>7 DEF States, Caches

\* What KDirListerCache keeps has the types the code gives it, and no directory
\* is watched more often than there are listers, and once more: whatever the
\* listers, the jobs, the watches and the signals do, incAutoUpdate and
\* decAutoUpdate keep the counts of DirItem within that.
THEOREM CacheTypesCorrect == Spec /\ ~Does("keepRoot") => []TypeOK
<1>1. IInv => TypeOK
  BY CachesType, UsageAssumption DEF IInv, TypeOK, Consistent
<1> QED BY <1>1, InvariantHolds, PTL

\* The lists of the cache and of the listers agree (kdirlister.cpp:447): who has
\* a directory in lstDirs lists it or holds it, and not both, its item is in use
\* for as long as somebody does and never in itemsCached too, and a job runs for
\* somebody.
THEOREM ListersRegistered == Spec /\ ~Does("keepRoot") => []UsersRegistered
<1>1. IInv => UsersRegistered
  BY DEF IInv, Consistent, Agreed, DirOK, RegistryOK, UsersRegistered
<1> QED BY <1>1, InvariantHolds, PTL

\* incAutoUpdate and decAutoUpdate are in balance: a directory in use is watched
\* for each of its users that updates automatically, and a directory of the cache
\* once when it is up-to-date and else not at all.
THEOREM WatchesCounted == Spec /\ ~Does("keepRoot") => []WatchCountExact
<1>1. ASSUME IInv PROVE WatchCountExact
  <2>1. \A dir \in Dirs : CountOK(c, dir)
    BY <1>1 DEF IInv, Consistent, Agreed
  <2> QED BY <2>1 DEF CountOK, AutoUsers, WatchCountExact
<1> QED BY <1>1, InvariantHolds, PTL
=============================================================================
