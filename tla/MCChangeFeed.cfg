SPECIFICATION LiveSpec
CONSTANTS
  Item = {i1, i2}
  Engine = {daemon}
  Threshold = 2
  MaxClock = 3
  MaxFaults = 1
INVARIANTS
  TypeOK
  NothingHidden
  DeletionsTaken
PROPERTIES Delivers Settles
