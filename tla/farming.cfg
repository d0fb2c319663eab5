CONSTANTS
  Session = {s1, s2}
  App = {g1, g2}
  Click = {k1}
  Nothing = Nothing
SPECIFICATION SequentialSpec
INVARIANTS FarmingTypeOK NoOrphanClaim OneReachableCycle
PROPERTIES StopEnds ExclusionSettles
CHECK_DEADLOCK FALSE
