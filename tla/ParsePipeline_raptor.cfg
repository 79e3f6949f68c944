CONSTANTS
  File = {f1}
  Job = {1}
  Request = {r1}
  EnableRaptor = TRUE
  UploadDirs = {"uploads"}
  Kinds = {"upload", "start", "result", "retry", "delete"}
  Faults = {}
  MaxRestarts = 0
  MaxStamp = 1
  NoRow = NoRow
  NoFile = NoFile
  NoJob = NoJob
SPECIFICATION EagerSpec
PROPERTIES
  RaptorSettles
