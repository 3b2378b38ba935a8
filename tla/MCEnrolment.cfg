SPECIFICATION Spec
CONSTANTS
  Kids = {k1, k2}
  Threads = {t1, t2}
  Throttle = 2
  MaxAge = 2
  Slowest = 1
  MaxTime = 5
  Harnesses = {h1, h2}
  MaxKeys = 2
CONSTRAINT Apart
SYMMETRY Alike
INVARIANTS RefreshKept EnrolledConnects
PROPERTIES WithdrawnEnds
CHECK_DEADLOCK FALSE
