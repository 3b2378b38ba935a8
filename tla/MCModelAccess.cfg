SPECIFICATION Spec
CONSTANTS
  Workers = {w1, w2}
  MaxRequests = 3
  SecretNames = {"key", "other"}
  ShellNames = {"key"}
  ApiKey = "key"
  Limits = {tight}
  Retries = {0, 1}
  DefaultRetries = 1
  Fragments <- MCFragments
  MaxFragments = 4
  Messages <- MCMessages
  MaxMessages = 4
SYMMETRY Alike
INVARIANTS   SettingsTold 
CHECK_DEADLOCK FALSE
