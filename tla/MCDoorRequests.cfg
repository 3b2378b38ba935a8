CONSTANTS
  r1 = r1
  r2 = r2
  k = k
  call = call
  upgrade = upgrade
  NoKey = NoKey
  Requests <- MCRequests
  Keys <- MCKeys
  Bodies <- MCBodies
  Upgrades <- MCUpgrades
  MaxRestarts = 1
SPECIFICATION Spec
INVARIANTS VerdictTrue OneAnswer
PROPERTIES OperationEnds
CHECK_DEADLOCK FALSE
