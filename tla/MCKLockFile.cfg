SPECIFICATION FairSpec
CONSTANTS
  p1 = p1
  p2 = p2
  p3 = p3
  i1 = i1
  i2 = i2
  i3 = i3
  NoPid = NoPid
  NoFile = NoFile
  Processes = {p1, p2}
  Inodes = {i1, i2, i3}
  Hosts <- OneHost
  ForcerSets = {{}, {p1}}
  Late <- OneLate
  FileSystems = {"posix", "smbfs"}
  HardErrors = 1
CHECK_DEADLOCK FALSE
INVARIANTS
  TypeOK
  MutualExclusion
  HolderOwnsFile
PROPERTIES
  ImplementsLock
  StaleLockIsNoticed
