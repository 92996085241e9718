SPECIFICATION Spec
CONSTANTS
  Queues = {0, 1}
  Absent = 2
  Low = {"Acpi", "Unknown"}
  High = {"Version1"}
  Version1 = "Version1"
  Offered = {"Acpi", "Version1"}
  Required = {"Acpi"}
  Ring = 1
INVARIANTS
  TransportTypeOK
  Sound
PROPERTIES
  OnlyActiveConsumes
  OneLife
CHECK_DEADLOCK FALSE
