SPECIFICATION SafeSpec
CONSTANTS
  Requests = {r1, r2}
  Payloads = {p1, p2}
  NoPayload = NoPayload
  Calls = {c1, c2}
  MaxFaults = 2
  LostAnswers = TRUE
  LeaseHolds = TRUE
INVARIANT AtMostOneEffect
INVARIANT AnswerIsOwn
INVARIANT OneOwner
