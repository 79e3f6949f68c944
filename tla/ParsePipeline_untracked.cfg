CONSTANTS
  File = {f1}
  Job = {1}
  Request = {r1, r2}
  EnableRaptor = FALSE
  UploadDirs = {"uploads"}
  Kinds = {"upload", "start", "delete"}
  Faults = {}
  MaxRestarts = 0
  MaxStamp = 1
  NoRow = NoRow
  NoFile = NoFile
  NoJob = NoJob
SPECIFICATION Spec
INVARIANTS
  NoUntrackedParserJob
