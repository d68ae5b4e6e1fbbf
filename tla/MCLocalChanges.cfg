SPECIFICATION LiveSpec
CONSTANTS
  Dir = {d,e}
  Name = {f}
  Bytes = {x,y}
  Id = {1, 2, 3, 4}
  None = None
  Top = Top
  Guard = 1
  Scenarios <- MCScenarios
INVARIANTS TypeOK Mirrored
PROPERTY EverythingIsUploaded
