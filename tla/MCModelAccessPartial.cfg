SPECIFICATION Spec
CONSTANTS
  Workers = {w1, w2}
  MaxRequests = 3
  SecretNames = {"key", "other"}
  ShellNames = {"key"}
  ApiKey = "key"
  Limits = {tight}
  Retries = {0, 1}
  DefaultRetries = 1
  Fragments <- MCFragments
  MaxFragments = 1
  Messages <- MCMessages
  MaxMessages = 1
SYMMETRY Alike
INVARIANTS NeverPartial
CHECK_DEADLOCK FALSE
