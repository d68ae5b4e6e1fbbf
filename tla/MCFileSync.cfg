SPECIFICATION Spec
CONSTANTS
  File = {f,g}
  Id = {1,2}
  Bytes = {a,b,c}
  None = None
  Threshold = 2
  GuardFloor = 1
  Scenarios <- MCScenarios
SYMMETRY Symmetry
INVARIANTS TypeOK OneRowPerObject RowsAgreed
PROPERTIES WorkIsKept PassiveClientWritesNothing
