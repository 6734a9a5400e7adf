SPECIFICATION FairSpec
CONSTANTS
  a = a  b = b  c = c  w1 = w1  w2 = w2  None = None
  Msgs = {a, b, c}
  Workers = {w1, w2}
  Pools = {"slow", "fast"}
  PoolOf <- FastTwice
  Kind <- MixedKind
  Priority <- SamePriority
  Cancellers = {}
PROPERTY EveryMessageEnds
