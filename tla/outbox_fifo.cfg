\* One worker, no faults: the in-order promise.
SPECIFICATION FairSpec
CONSTANTS
  w1 = w1
  w2 = w2
  op1 = op1
  Workers <- OneWorker
  Replayers <- NoOne
  NumEvents = 4
  MaxAttempts = 3
  MaxFaults = 0
  OrderedCommits = TRUE
INVARIANTS
  TypeOK
  NoEventStranded
PROPERTIES
  ImplementsFifo
