SPECIFICATION FairSpec
CONSTANTS
  Keys = {k1, k2}
  NoKey = NoKey
  Syncs = {s1, s2}
  Remembering = {s2}
  MaxIssues = 5
  MaxEdits = 1
  MaxDeletes = 1
  MaxCrashes = 1
  MaxFailed = 1
  MaxCut = 1
INVARIANT
  OnePerKeyUntilCut
PROPERTIES
  LinkStays
  NoOlderVersion
  Converges
CHECK_DEADLOCK FALSE
