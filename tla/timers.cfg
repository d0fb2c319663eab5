CONSTANTS
  Manual = manual
  AutoIdle = autoidle
  Owner = {manual, autoidle, farming}
  App = {g1}
  Cap = 2
  Limited = {g1}
  Command = {c1, c2, c3}
  None = None
SPECIFICATION FairSpec
INVARIANTS TypeOK LimitEnforced OldTimersOutdated
PROPERTY LimitReached
CHECK_DEADLOCK FALSE
