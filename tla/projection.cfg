SPECIFICATION FairSpec
CONSTANTS
  m1 = m1
  operator = operator
  Ids = {m1}
  Callers = {operator}
  Batches <- Alone
  NumEvents = 2
  MaxChanges = 2
  MaxFaults = 2
  MaxAttempts = 2
INVARIANTS
  TypeOK
  PointsWereLive
  DivergenceHasACause
PROPERTIES
  Converges
