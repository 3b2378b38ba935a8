SPECIFICATION Spec
CONSTANTS
  Ids = {a, b}
  Listed = {a, b}
  Turns = {t1}
  QueueSize = 1
  PageSize = 1
  Exponents = 1024
  MaxChanges = 2
  MaxFailures = 1
  MaxFrames = 2
  MaxRepairs = 1
INVARIANTS LineTrue CopyTrue
PROPERTIES FeedImplemented StopEnds
CHECK_DEADLOCK FALSE
