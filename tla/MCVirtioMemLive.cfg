SPECIFICATION LiveSpec
CONSTANTS
  Blocks = 1
  Others = {disk}
  Mem = mem
  disk = disk
  mem = mem
  Ring <- OneEach
  Generations = 2
PROPERTIES
  MemoryProgress
CHECK_DEADLOCK FALSE
