SPECIFICATION ToolsSpec
CONSTANTS
  Nobody = nobody
  Attachers = {a1, a2}
  Skills = {s1, s2}
  Settings = {1, 2}
  MaxHostEdits = 2
  MaxFaults = 1
  NoEntry = NoEntry
  Foreign = Foreign
  Clients = {c1, c2}
  Files = {f1, f2}
  MaxVersions = 3
  MaxWebFaults = 2
  Threads = {t1, t2}
  Keys = {k1, k2}
  CacheTime = 2
  MaxTime = 4
  MaxErrors = 2
  Supervisors = {u1, u2}
  MaxSignals = 2
  Variants <- ToolsVariants
  Repeats = 3
  Measures <- ToolsMeasures
  MaxConfigEdits = 1
  Components = {orca, codex}
  Manifests <- ToolsManifests
  MaxCommits = 2
  MaxPaths = 2
  MaxDeployFaults = 2
INVARIANTS
  ToolsTypeOK BackupIsOriginal AllOrNothing
  LastIsKept OldOrNew ListingAgrees
  NoNeedlessFetch Reaped DecisionIsRight
  RecordsTellTheState
PROPERTIES
  EntryOfCurrent EditsSurvive ConsentToReplace RequestsEnd TerminationEnds PersonalEditsSurvive
  AcceptedIsCarriedOut ResultIsFinal
CHECK_DEADLOCK FALSE
