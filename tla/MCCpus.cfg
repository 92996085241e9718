SPECIFICATION Spec
CONSTANT Count = 3
INVARIANTS
  CpusTypeOK
  MayExecute
  EventsAccounted
  FaultsExact
PROPERTIES
  ContractRefinement
