SPECIFICATION Spec
CONSTANTS
  m1 = m1  m2 = m2   None = None
  Messages = {m1, m2}
  Addressed = {m1}
  Unfiled = {m2}
  MaxPasses = 3
  MaxCrashes = 2
INVARIANT WarningsArePresented
