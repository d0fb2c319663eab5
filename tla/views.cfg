SPECIFICATION Spec
CONSTANTS
  a1 = a1
  a2 = a2
  Account = {a1, a2}
  MaxCycle = 2
  MaxSets = 1
  MaxCalls = 3
  MaxEvents = 1
  None = None
SYMMETRY Symmetry
INVARIANTS TypeOK ActivationHeals RunningIsArmed
PROPERTIES NoResurrection
