SPECIFICATION Spec
CONSTANTS
  m1 = m1  m2 = m2  f1 = f1  f2 = f2  None = None
  Messages = {m1, m2}
  Fetches = {f1, f2}
  MaxMishaps = 1
INVARIANTS NoDuplicates OnlyOrphansAreLost
PROPERTY EveryFetchEnds
CHECK_DEADLOCK FALSE
