SPECIFICATION FairSpec
CONSTANTS
  t1 = t1  t2 = t2  m1 = m1  m2 = m2  k1 = k1  k2 = k2  w = w
  NoWord = NoWord
  Threads = {t1}
  MainCalls = {m1, m2}
  Keys = {k1, k2}
  Words = {w}
  MaxCalls = 1
INVARIANTS TypeOK WaiterHasPlace QueueIsServed
PROPERTY EveryCallReturns
