SPECIFICATION Spec
CONSTANTS
  t1 = t1
  t2 = t2
  t3 = t3
  w1 = w1
  w2 = w2
  k1 = k1
  None = None
  Key = {k1}
  Worker = {w1}
  Task = {t1, t2, t3}
  Options <- KeyTasks
  BodyOutcomes = {"return", "job_cancelled"}
  MaxConcurrency = 2
  BatchSize = 2
  MaxInterruptions = 1
  MaxOutages = 0
  SharedRecords = TRUE
SYMMETRY TaskSymmetry
INVARIANTS
  OneActivePerKey
  ConcurrencyBound
CHECK_DEADLOCK FALSE
