SPECIFICATION BreakerSpec
CONSTANTS
  CacheOps = {o1, o2}
  MinCalls = 1
  HalfOpenMax = 1
  MaxCalls = 2
  MaxErrors = 3
PROPERTY CacheComesBack
