CONSTANTS
  r1 = r1
  r2 = r2
  Clients <- MCClients
  MaxParks = 2
  MaxCrashes = 1
SPECIFICATION Spec
INVARIANTS PauseHasApproval RunsAsDecided
PROPERTIES DecisionStands DueCallEnds
CHECK_DEADLOCK FALSE
