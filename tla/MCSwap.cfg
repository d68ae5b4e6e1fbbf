SPECIFICATION LiveSpec
CONSTANTS
  Id = {1, 2, 3, 4, 5}
  First = 1
  MaxEdits = 2
  MaxFaults = 2
INVARIANTS TypeOK ContentSurvives ServerHoldsTheFile NeverHidden
PROPERTY Recovers
CHECK_DEADLOCK FALSE
