SPECIFICATION Spec
CONSTANTS
  t1 = t1
  t2 = t2
  w1 = w1
  k1 = k1
  None = None
  Key = {k1}
  Worker = {w1}
  Task = {t1, t2}
  Options <- TwoHolders
  ClaimLimit = 1
  MaxInterruptions = 1
  MaxInFlight = 1
INVARIANTS
  QueuedIsPlaced
  OnlyKnownGaps
  OrphansAreSweepable
  OneActivePerKey
PROPERTIES
  LivesThePromisedLife
CHECK_DEADLOCK FALSE
