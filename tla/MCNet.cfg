SPECIFICATION LiveSpec
CONSTANTS
  Budget = 2
  Capacity = 2
  Frames = 2
  Buffers = 2
  Packets = 2
INVARIANTS
  Accounted
PROPERTIES
  SendsInService
  NetProgress
CHECK_DEADLOCK FALSE
