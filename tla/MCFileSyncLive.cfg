SPECIFICATION LiveSpec
CONSTANTS
  File = {f,g}
  Id = {1,2,3,4}
  Bytes = {a,b}
  None = None
  Threshold = 2
  GuardFloor = 10
  Scenarios <- MCLiveScenarios
PROPERTY Converges
