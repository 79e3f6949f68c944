CONSTANTS
  KeyCount = 2
  Value = {"v1", "v2"}
  Number = {"v1", "v2"}
  Default <- MCDefault
  ExpireKey = 2
  Writer = {w1, w2}
  Seeded = TRUE
  Faults = {}
  MaxRestarts = 0
  NoRow = "norow"
SPECIFICATION Spec
INVARIANTS
  CacheMatchesTable

