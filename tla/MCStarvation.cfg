\* An application that goes on to get files from one host.
SPECIFICATION FairSpec
CONSTANTS
  g1 = g1
  g2 = g2
  o1 = o1
  u1 = u1
  u2 = u2
  h1 = h1
  h2 = h2
  s1 = s1
  s2 = s2
  NoSlave = NoSlave
  NoUrl = NoUrl
  NoHost = NoHost
  Connect = Connect
  Jobs = {g1, g2, o1}
  Gets = {g1, g2}
  url <- MCurl
  host <- MChost
  Slaves = {s1, s2}
  MaxSlaves = 1
  Lookahead = 2
  CallSets = {{"scheduled", "again"}}
  ConnectUrls = {u1}
CHECK_DEADLOCK FALSE
PROPERTIES
  NoStarvation
