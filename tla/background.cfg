\* The background mechanisms, side by side.
SPECIFICATION Spec
CONSTANTS
  Scopes = {a}
  Ttl <- TtlMC
  StartupQuery = FALSE
  Recalls = {r1}
  CacheWriters = {c1}
  CacheWorkers = {k1}
  CacheLease = 1
  MaxInvalidations = 2
  MaxLedgerWrites = 1
  MaxRedisFaults = 2
  CacheOps = {o1, o2}
  MinCalls = 1
  HalfOpenMax = 1
  MaxCalls = 2
  MaxErrors = 3
  Tickets = {t1}
  Keyed = {t1}
  TicketWorkers = {p1, p2}
  Inline = TRUE
  TicketTtls = {1, 2}
  TicketLease = 1
  TicketBatch = 1
  MaxMemories = 2
  MaxTicketFaults = 1
  Jobbers = {j1, j2, j3}
  Beating = {j1, j3}
  GovLease = 2
  StuckTimeout = 1
  MaxRuns = 3
  MaxGovFaults = 1
  Events = {e1, e2}
  Hands = {h1, h2}
  TaskLease = 1
  TaskMax = 2
  DedupeWindow = 1
  FlightTtl = 2
  MaxTaskFaults = 1
INVARIANTS
  PartsTypeOK
  StaleHasACause
  DoneMeansCleared
  ProbeLostOnlyWhenAvailable
  ClaimedOnceInTime
  FailedInVainHasACause
  RunsApart
  HandledAgainHasACause
PROPERTIES
  CacheSettles
  EventsAreServed
CHECK_DEADLOCK FALSE
