\* Two workers, a replay, a fault, and rows that become visible late.
SPECIFICATION Spec
CONSTANTS
  w1 = w1
  w2 = w2
  op1 = op1
  Workers <- TwoWorkers
  Replayers <- OneReplay
  NumEvents = 2
  MaxAttempts = 2
  MaxFaults = 1
  OrderedCommits = FALSE
SYMMETRY WorkerSymmetry
INVARIANTS
  FirstAttemptExclusive
PROPERTIES
  StrandingCauses
