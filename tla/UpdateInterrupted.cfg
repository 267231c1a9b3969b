SPECIFICATION FairSpec
CONSTANTS
  MaxRuns = 1
  Capacity = 1
  Users = {alice}
  System = system
  Selections = {codex}
  NoSelection = none
  Tokens = {t1}
  NoCredential = NoCredential
  NoToken = NoToken
  MaxCredentials = 1
  MaxPolicies = 0
  Updaters = {u1, u2}
  MaxCrashes = 1
  MaxTimers = 0
  MaxRetries = 0
PROPERTY
  EveryStartedRunIsRecorded
CHECK_DEADLOCK FALSE
