SPECIFICATION Spec
CONSTANTS
  Shell = {s, t}
  Space = {1, 2}
  Name = {personal, a, b}
  Personal = personal
  Dir = {d, e}
  None = None
  Absent = Absent
  Empty = Empty
  Scenarios <- MCOverlapScenarios
PROPERTY ExistingConfigKept
CHECK_DEADLOCK FALSE
