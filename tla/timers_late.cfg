\* A stop and a new start, while a timer is between its check and its release.
CONSTANTS
  Manual = manual
  AutoIdle = autoidle
  Owner = {manual, autoidle, farming}
  App = {g1}
  Cap = 2
  Limited = {g1}
  Command = {c1, c2, c3}
  None = None
SPECIFICATION FairSpec
PROPERTY NeverFiresAgainstNew
CHECK_DEADLOCK FALSE
