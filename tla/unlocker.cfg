CONSTANTS
  g1 = g1
  g2 = g2
  App = {g1, g2}
  MaxWorkers = 2
  MaxFound <- Found
  MaxUnlocks <- Overrides
  Click = {k1}
  MaxMishaps = 1
  None = None
SPECIFICATION Spec
INVARIANTS TypeOK ClaimOwned
PROPERTIES OutStaysOut SessionEnds
CHECK_DEADLOCK FALSE
