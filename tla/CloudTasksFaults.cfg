SPECIFICATION FairSpec
CONSTANTS
  t1 = t1
  c1 = c1
  c2 = c2
  s1 = s1
  w1 = w1
  k1 = k1
  None = None
  Key = {k1}
  Worker = {w1}
  Task = {t1}
  Options <- OneRetried
  Consumer = {c1}
  Service = {s1}
  MaxNames = 4
  MaxOutages = 1
PROPERTIES
  EveryTaskSettles
CHECK_DEADLOCK FALSE
