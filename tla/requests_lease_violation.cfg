SPECIFICATION SafeSpec
CONSTANTS
  Requests = {r1}
  Payloads = {p1, p2}
  NoPayload = NoPayload
  Calls = {c1, c2}
  MaxFaults = 0
  LostAnswers = FALSE
  LeaseHolds = FALSE
INVARIANT AtMostOneEffect
