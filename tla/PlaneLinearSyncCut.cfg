SPECIFICATION Spec
CONSTANTS
  Keys = {k1, k2}
  NoKey = NoKey
  Syncs = {s1}
  Remembering = {}
  MaxIssues = 4
  MaxEdits = 0
  MaxDeletes = 0
  MaxCrashes = 1
  MaxFailed = 0
  MaxCut = 1
INVARIANT
  OnePerKey
CHECK_DEADLOCK FALSE
