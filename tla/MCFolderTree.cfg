SPECIFICATION LiveSpec
CONSTANTS
  Folder = {1,2,3}
  Name = {a, b}
  Doc = {x}
  None = None
  Scenarios <- MCScenarios
INVARIANTS TypeOK RowsDistinct
PROPERTIES PassiveClientWritesNothing UserFilesStay Converges
