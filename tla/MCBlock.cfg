SPECIFICATION LiveSpec
CONSTANTS
  Word = 16
  SectorSize = 2
  Size = 6
  IovMax = 2
  Buffers = {"a", "b"}
  Requests <- MCRequests
  MaxRequests = 3
INVARIANTS
  DataIntact
PROPERTIES
  WritesStayInside
  NotifiedAnswered
CHECK_DEADLOCK FALSE
