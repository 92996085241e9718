SPECIFICATION Spec
CONSTANT Count = 2
PROPERTIES
  CpusProgress
