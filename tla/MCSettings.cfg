SPECIFICATION LiveSpec
CONSTANTS
  Shell = {s, t}
  Space = {1, 2}
  Name = {personal, a, b}
  Personal = personal
  Dir = {d, e}
  None = None
  Absent = Absent
  Empty = Empty
  Scenarios <- MCScenarios
INVARIANTS TypeOK OwnToken SecretStaysOut EnginesKeepToTheirs MappingFollowsRename
PROPERTY LoginEnds
CHECK_DEADLOCK FALSE
