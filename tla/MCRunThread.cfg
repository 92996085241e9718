SPECIFICATION Spec
CONSTANTS
  c1 = c1
  c2 = c2
  c3 = c3
  Clients = {c1, c2, c3}
  Runner = runner
  None = none
  Regions = 2
INVARIANTS
  RunTypeOK
  RequestsServed
  PausedIsQuiet
  MachineTracked
  FailureReported
PROPERTIES
  CallsReturn
  LifecycleRefinement
  EndIsFinal
