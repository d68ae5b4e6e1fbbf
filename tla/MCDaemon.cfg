SPECIFICATION LiveSpec
CONSTANTS
  Pid = {p1, p2, p3}
  Commands = 3
  Crashes = 1
  None = None
CHECK_DEADLOCK FALSE
INVARIANTS TypeOK OneDaemon DaemonIsFound SparesStrangers
PROPERTY StopEnds
