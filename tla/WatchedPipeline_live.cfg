CONSTANTS
  File = {f1}
  Job = {1}
  Request = {r1}
  EnableRaptor = TRUE
  UploadDirs = {"uploads"}
  Kinds = {"upload", "start", "result", "retry", "delete"}
  Faults = {"answer", "lose", "unlink"}
  MaxRestarts = 1
  MaxStamp = 1
  NoRow = NoRow
  NoFile = NoFile
  NoJob = NoJob
SPECIFICATION WatchedSpec
INVARIANTS
  StoppedBadgesRight
  ThreeInARow
PROPERTIES
  BadgesMoveForward
  BadgesSettle
  ServerStarts
