SPECIFICATION Spec
CONSTANTS
  a1 = a1
  a2 = a2
  l1 = l1
  Account = {a1, a2, l1}
  Agent = {a1, a2}
  Caps = {1, 2}
  FreeCap = 1
  MaxKnown = 2
  None = None
INVARIANTS TypeOK AccountsListed
PROPERTIES AccountsKept StartupEnds CapSettles
