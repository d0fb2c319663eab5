SPECIFICATION Spec
CONSTANTS
  a1 = a1
  l1 = l1
  c1 = c1
  d1 = d1
  Account = {a1, l1}
  Agent = {a1}
  Cookie = {c1, d1}
  Owner <- Owners
  MaxCalls = 1
  None = None
INVARIANTS TypeOK SetsStayOwn ChecksEnd CacheTrue
