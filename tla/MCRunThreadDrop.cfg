SPECIFICATION Spec
CONSTANTS
  c1 = c1
  Clients = {c1}
  Runner = runner
  None = none
  Regions = 1
PROPERTIES
  SavedResultAlwaysFixed
