SPECIFICATION Spec
CONSTANTS
  t1 = t1
  c1 = c1
  c2 = c2
  s1 = s1
  w1 = w1
  k1 = k1
  None = None
  Key = {k1}
  Worker = {w1}
  Task = {t1}
  Options <- OneExpiring
  Consumer = {c1, c2}
  Service = {s1}
  MaxNames = 5
  MaxOutages = 0
SYMMETRY Symmetry
PROPERTIES
  LivesThePromisedLife
CHECK_DEADLOCK FALSE
