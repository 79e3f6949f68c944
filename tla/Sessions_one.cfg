CONSTANTS
  KeyCount = 2
  Value = {"v1", "v2", "v3", "text"}
  Number = {"v1", "v2", "v3"}
  Default <- MCDefault
  ExpireKey = 2
  Writer = {w1}
  Seeded = FALSE
  Faults = {"commit", "notify"}
  MaxRestarts = 2
  NoRow = "norow"
  Browser = {b1}
  Hours <- MCHours
  MaxClock = 3
  NoCookie = NoCookie
SPECIFICATION SessionSpec
INVARIANTS
  TypeOK
  CacheMatchesTable
  AgentCatchesUp
  AdmissionsInTime
PROPERTIES
  ImplementsRegister
  NoWayBack
CHECK_DEADLOCK FALSE
