CONSTANTS
  Job = {j1, j2, j3}
  Intervals = {"number", "text"}
  Limits <- MCLimits
SPECIFICATION FairSpec
INVARIANTS
  TypeOK
  CallsBounded
  StuckOnlyBySetting
  ReadyExact
PROPERTIES
  JobsPolled
  ComesUp
  StopsCleanly
  BatchEnds
CHECK_DEADLOCK FALSE
