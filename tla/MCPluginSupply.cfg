SPECIFICATION Spec
CONSTANTS
  Repos = {a, b}
  Tags = {"v1", "sha"}
  BadTags = {"sha"}
  Commits = {"good", "bad", "odd", "broken"}
  Manifest <- MCManifest
  Nothing = "nothing"
  Names = {"p"}
  OtherNames = {".."}
  Shipped = {"p"}
  Stagings = {"t1", "t2"}
  Workers = {w1, w2}
  MaxCommands = 2
  Submitters = {s1, s2}
  MaxSubmissions = 2
  MaxMishaps = 2
SYMMETRY Alike
INVARIANTS Verified LedgerTellsState
 
CHECK_DEADLOCK FALSE
