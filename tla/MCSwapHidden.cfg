SPECIFICATION LiveSpec
CONSTANTS
  Id = {1, 2, 3, 4, 5}
  First = 1
  MaxEdits = 2
  MaxFaults = 2
PROPERTY HiddenNeverForGood
CHECK_DEADLOCK FALSE
