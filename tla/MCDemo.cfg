SPECIFICATION Spec
CONSTANTS
  Clients = {1, 2}
  Settings <- MCSettings
  MaxConnections = 1
  FifoSize = 2
  Keys = 3
  DiskCount = 2
  Images <- MCImages
INVARIANTS
  CommandTypeOK
  Restored
  RepliesHonest
PROPERTIES
  CommandProgress
CHECK_DEADLOCK FALSE
