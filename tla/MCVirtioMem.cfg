SPECIFICATION Spec
CONSTANTS
  Blocks = 2
  Others = {disk}
  Mem = mem
  disk = disk
  mem = mem
  Ring <- MCRing
  Generations = 2
INVARIANTS
  MemoryTypeOK
  MapsAgree
  StatusHonest
  InUseStays
PROPERTIES
  TargetFollowed
CHECK_DEADLOCK FALSE
