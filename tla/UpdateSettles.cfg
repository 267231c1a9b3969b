SPECIFICATION FairSpec
CONSTANTS
  MaxRuns = 2
  Capacity = 2
  Users = {alice}
  System = system
  Selections = {codex}
  NoSelection = none
  Tokens = {t1}
  NoCredential = NoCredential
  NoToken = NoToken
  MaxCredentials = 1
  MaxPolicies = 1
  Updaters = {u1, u2}
  MaxCrashes = 0
  MaxTimers = 1
  MaxRetries = 1
PROPERTY
  EveryRunSettles
CHECK_DEADLOCK FALSE
