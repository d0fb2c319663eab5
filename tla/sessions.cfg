CONSTANTS
  Task = {c1, c2}
  None = None
  MaxLines = 1
SPECIFICATION Spec
INVARIANTS TypeOK NoStray ResumesSerialised CacheFollowsBot
PROPERTY DeadAnswered
CHECK_DEADLOCK FALSE
