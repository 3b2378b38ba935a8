SPECIFICATION Spec
CONSTANTS
  Workers = {w1, w2}
  MaxRequests = 4
  Accounts = {local, x, y}
  Scheduled = {x, y}
  Owner = local
  Keys = {"k"}
  Texts = {t1, t2}
  Names = {a, b}
  Speakers = {local}
  Prompts = {"p"}
  Descriptions = {"d", "long"}
  Unfit = {"long"}
SYMMETRY Alike
INVARIANTS LedgerTellsPeople AgentsFollowFiles
PROPERTIES AdoptionLosesNothing
CHECK_DEADLOCK FALSE
