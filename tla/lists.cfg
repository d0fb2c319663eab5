CONSTANTS
  Account = {a1, a2}
  Game = {g1, g2}
  MaxCalls = 2
  None = None
SPECIFICATION Spec
SYMMETRY Symmetry
INVARIANTS TypeOK NothingStuck OneAtATime UnorderedIsOwn
PROPERTY NothingLost
