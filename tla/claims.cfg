\* Two owners with more games than the cap admits, two overlapping calls.
CONSTANTS
  agent = agent
  local = local
  Account = {agent, local}
  LocalAccount = {local}
  Owner = {manual, farming}
  App = {g1, g2}
  Cap = 1
  Call = {t1, t2}
  Free = Free
SPECIFICATION Spec
INVARIANTS TypeOK DriftExplained WithinCap
PROPERTY ImplementsBoard
SYMMETRY Symmetry
