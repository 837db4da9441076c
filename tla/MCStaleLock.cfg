SPECIFICATION Spec
CONSTANTS
  p1 = p1
  p2 = p2
  p3 = p3
  i1 = i1
  i2 = i2
  i3 = i3
  NoPid = NoPid
  NoFile = NoFile
  Processes = {p1, p2, p3}
  Inodes = {i1, i2}
  Hosts <- OneHost
  ForcerSets = {{p1}}
  Late <- NobodyLate
  FileSystems = {"posix"}
  HardErrors = 1
SYMMETRY Symmetry
CHECK_DEADLOCK FALSE
INVARIANTS
  ForcedMutualExclusion
