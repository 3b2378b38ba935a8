SPECIFICATION Spec
CONSTANTS
  c1 = c1
  c2 = c2
  NoCall = NoCall
  Calls <- MCCalls
  Batches <- MCBatches
  KeepTail = 2
  MaxRounds = 3
  MaxTurns = 3
  MaxCrashes = 2
INVARIANTS KeptWhole LedgerCatchesUp
PROPERTIES SettledStands
\* Idle at the bound on turns.
CHECK_DEADLOCK FALSE
