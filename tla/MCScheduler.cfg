\* Applications that schedule jobs and do more; they may stop.
SPECIFICATION FairSpec
CONSTANTS
  g1 = g1
  g2 = g2
  o1 = o1
  u1 = u1
  u2 = u2
  h1 = h1
  h2 = h2
  s1 = s1
  s2 = s2
  NoSlave = NoSlave
  NoUrl = NoUrl
  NoHost = NoHost
  Connect = Connect
  Jobs = {g1, g2, o1}
  Gets = {g1, g2}
  url <- MCurl
  host <- MChost
  Slaves = {s1, s2}
  MaxSlaves = 1
  Lookahead = 2
  CallSets = {{"direct", "connect"},
              {"kill", "connect"},
              {"scheduled", "direct", "kill"},
              {"scheduled", "kill", "putOnHold", "removeOnHold"},
              {"scheduled", "direct", "kill", "putOnHold", "removeOnHold", "publish"}}
  ConnectUrls = {u1}
CHECK_DEADLOCK FALSE
INVARIANTS
  TypeOK
  SlavesInOneList
  JobsInOnePlace
  OneJobPerSlave
  AnswersAreOwn
  ActiveSlavesWork
  MaxSlavesRespected
PROPERTIES
  JobsEnd
