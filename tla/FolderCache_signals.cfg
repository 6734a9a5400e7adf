SPECIFICATION Spec
CONSTANTS
  st1 = st1  f1 = f1  f2 = f2  r1 = r1  r2 = r2  None = None
  Stores = {st1}
  Names = {f1, f2}
  Renames <- AToB
  Lists <- SomeLists
  Requests = {r1, r2}
  MaxUpdates = 2
CONSTRAINT Fewer
SYMMETRY Symmetry
INVARIANTS TypeOK UpdatesAreFlushed ListenersConverge UrisConverge WaitingAreAlive
PROPERTY SignalsAreALog
