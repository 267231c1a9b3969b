SPECIFICATION Spec
SYMMETRY Symmetry
CONSTANTS
  MaxRuns = 2
  Capacity = 1
  Users = {alice}
  System = system
  Selections = {codex, orca}
  NoSelection = none
  Tokens = {t1}
  NoCredential = NoCredential
  NoToken = NoToken
  MaxCredentials = 2
  MaxPolicies = 2
  Updaters = {u1, u2}
  MaxCrashes = 1
  MaxTimers = 2
  MaxRetries = 1
INVARIANTS
  HistoryAgrees
  OneExecutor
PROPERTY
  ReplacedPolicyStops
CHECK_DEADLOCK FALSE
