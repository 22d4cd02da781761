SPECIFICATION FairSpec
CONSTANTS
  t1 = t1
  t2 = t2
  t3 = t3
  w1 = w1
  w2 = w2
  k1 = k1
  None = None
  Key = {k1}
  Worker = {w1, w2}
  Task = {t1}
  Options <- OneTask
  BodyOutcomes = {"return", "raise", "non_retryable"}
  MaxConcurrency = 2
  BatchSize = 1
  MaxInterruptions = 1
  MaxOutages = 2
  SharedRecords = FALSE
INVARIANTS
  GenerationRunsOnce
  ResultOfLastAttempt
  NoOrphanLease
PROPERTIES
  LivesThePromisedLife
  EveryTaskSettles
CHECK_DEADLOCK FALSE
