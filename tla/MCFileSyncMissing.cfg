SPECIFICATION Spec
CONSTANTS
  File = {f}
  Id = {1,2}
  Bytes = {a,b,c,d}
  None = None
  Threshold = 3
  GuardFloor = 10
  Scenarios <- MCMissingScenarios
SYMMETRY Symmetry
PROPERTY DeletesOnlyWhatTheUserRemoved
