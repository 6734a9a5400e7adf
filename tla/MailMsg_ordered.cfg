SPECIFICATION Spec
CONSTANTS
  a = a  b = b  c = c  w1 = w1  w2 = w2  None = None
  Msgs = {a, b, c}
  Workers = {w1}
  Pools = {"slow", "fast"}
  PoolOf <- SlowOnly
  Kind <- OrderedKind
  Priority <- HighC
  Cancellers = {"c1"}
INVARIANTS TypeOK NoLostWakeup CancellableAlive MessageAlive OrderedCompletion
PROPERTY LifeSpec
