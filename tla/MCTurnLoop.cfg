CONSTANTS
  c1 = c1
  c2 = c2
  NoCall = NoCall
  Calls <- MCCalls
  Batches <- MCBatches
  KeepTail = 2
  MaxIterations = 3
  MaxTurns = 2
SPECIFICATION Spec
INVARIANTS ProviderContract AppendAccepted WriteAhead OpenOnlyWhenCut
PROPERTIES TurnEnds
CHECK_DEADLOCK FALSE
