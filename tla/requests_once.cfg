SPECIFICATION Spec
CONSTANTS
  Requests = {r1}
  Payloads = {p1, p2}
  NoPayload = NoPayload
  Calls = {c1, c2, c3}
  MaxFaults = 2
  LostAnswers = FALSE
  LeaseHolds = TRUE
INVARIANT TypeOK
INVARIANT StatusTellsEffect
PROPERTY ImplementsOnce
