SPECIFICATION Spec
SYMMETRY Symmetry
CONSTANTS
  MaxRuns = 2
  Capacity = 2
  Users = {alice}
  System = system
  Selections = {codex}
  NoSelection = none
  Tokens = {t1, t2}
  NoCredential = NoCredential
  NoToken = NoToken
  MaxCredentials = 2
  MaxPolicies = 0
  Updaters = {u1, u2}
  MaxCrashes = 2
  MaxTimers = 0
  MaxRetries = 1
INVARIANTS
  TypeOK
  OneUseApproval
PROPERTIES
  RevocationBlocks
  TerminalIsFinal
  ImplementsLifecycle
CHECK_DEADLOCK FALSE
