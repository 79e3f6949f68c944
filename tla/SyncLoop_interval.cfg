CONSTANTS
  Job = {j1, j2, j3}
  Intervals = {"number", "text"}
  Limits = {1}
SPECIFICATION FairSpec
PROPERTIES
  JobsAlwaysPolled
CHECK_DEADLOCK FALSE
