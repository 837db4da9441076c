SPECIFICATION FairSpec
CONSTANTS
  l1 = l1
  l2 = l2
  top = top
  sub = sub
  f = f
  NoItem = NoItem
  NoJob = NoJob
  NoDir = NoDir
  Ended = Ended
  Listers = {l1, l2}
  Dirs = {top, sub}
  Contents <- MCContents
  Top = top
  ManuallyMounted = {sub}
  MaxChanges = 2
  UsageSets <- MCUsageSets
INVARIANTS
  TypeOK
  UsersRegistered
  JobsServeListers
  WatchCountExact
  ViewIsCache
  CompleteIsUpToDate
PROPERTY
  ListingEnds
