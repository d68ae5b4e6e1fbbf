SPECIFICATION LiveSpec
CONSTANTS
  Id = {1, 2, 3, 4, 5, 6, 7, 8}
  Sid = {1, 2, 3, 4, 5, 6, 7, 8}
  Parts = 2
  Attempts = 2
  Losses = 3
  Edits = 2
  None = None
  Gone = Gone
INVARIANTS TypeOK AgreedIsShared KnownSessionClosed OneObject
PROPERTY Settles
