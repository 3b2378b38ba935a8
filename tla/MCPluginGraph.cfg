CONSTANTS
  Nil = Nil
  Steps = {"s1", "s2", "s3"}
  Authored <- MCAuthored
  Pages <- MCPages
  MaxTurns = 2
  MaxRuns = 2
  MaxEdits = 1
  MaxCrashes = 1
SPECIFICATION Spec
INVARIANTS ChecksRight  KeysApart RowsTellRun
 
CHECK_DEADLOCK FALSE
