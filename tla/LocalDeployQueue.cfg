SPECIFICATION Spec
CONSTANTS
  MaxCommits = 2
  MaxPaths = 2
  MaxFaults = 0
INVARIANT
  QueuedIsUnderWay
CHECK_DEADLOCK FALSE
