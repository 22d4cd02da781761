SPECIFICATION Spec
CONSTANTS
  t1 = t1
  t2 = t2
  w1 = w1
  k1 = k1
  None = None
  Key = {k1}
  Worker = {w1}
  Task = {t1, t2}
  Options <- TwoHolders
  ClaimLimit = 1
  TouchLimit = 2
  MaxInterruptions = 1
  ReliableRowcount = TRUE
  MaxInFlight <- TwoProducers
  Stores = {"sqlspec", "alchemy", "ephemeral"}
INVARIANTS
  OneActivePerKey
  ClaimIsExclusive
  ExpiryReportedOnce
PROPERTIES
  LivesThePromisedLife
  LiveClaimIsNotRecovered
  LostIsMissed
CHECK_DEADLOCK FALSE
