SPECIFICATION Spec
CONSTANTS
  Components = {c1, c2, c3}
  Plans <- MCPlans
  HasUpdate = {c1, c2, c3}
  HasRestart = {c1, c2}
  HasRollback = {c1, c3}
  AcceptsTarget = {c1, c2}
INVARIANTS
  OrderIsComplete
  TypeOK
  PrerequisitesHold
  RollbackOnlyAfterFailedUpdate
  VerdictIsTrue
PROPERTY
  ExecutionEnds
CHECK_DEADLOCK FALSE
