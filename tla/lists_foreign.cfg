CONSTANTS
  Account = {a1, a2}
  Game = {g1, g2}
  MaxCalls = 2
  None = None
SPECIFICATION Spec
INVARIANT ListIsOwn
