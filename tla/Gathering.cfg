SPECIFICATION Spec
CONSTANTS
  NaN = NaN
  NIL = NIL
  Names = {"core", "memory", "version"}
  LabelNames = {1, 2, 3, 4}
  LabelValues = {1, 2, 5}
  Wrapping <- MCWrapping
  DriverVersion = "version"
  Values = {0, 3, 7, NaN}
  Collections <- MCCollections
  Capacity = 2
INVARIANTS
  TypeOK
  OneSource
PROPERTIES
  AnswersAtOnce
  GatherReturns
