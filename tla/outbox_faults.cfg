\* One worker that crashes, restarts and loses COMMIT answers.
SPECIFICATION FairSpec
CONSTANTS
  w1 = w1
  w2 = w2
  op1 = op1
  Workers <- OneWorker
  Replayers <- NoOne
  NumEvents = 3
  MaxAttempts = 3
  MaxFaults = 2
  OrderedCommits = TRUE
INVARIANTS
  AttemptsBounded
  AcknowledgedWasSynced
PROPERTIES
  SettledOrStranded
