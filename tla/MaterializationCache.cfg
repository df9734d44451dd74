SPECIFICATION FairCacheSpec
CONSTANTS
  k1 = k1
  k2 = k2
  k3 = k3
  t1 = t1
  t2 = t2
  t3 = t3
  NoKey = NoKey
  Threads <- MCThreads
  Keys <- MCKeys
  Programs <- MCPrograms
  Capacities = {0, 1, 2}
  LoadMayFail = TRUE
PROPERTIES
  CallsAreAtomic
CHECK_DEADLOCK FALSE
