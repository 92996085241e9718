SPECIFICATION LiveSpec
CONSTANTS
  Devices = {disk, net}
  NoDevice = NoDevice
  RingSize = 1
INVARIANTS
  InterruptsExact
PROPERTIES
  NoticesSeen
