CONSTANTS
  File = {f1}
  Job = {1, 2}
  Request = {r1}
  EnableRaptor = FALSE
  UploadDirs = {"uploads"}
  Kinds = {"upload", "start", "result", "retry", "delete"}
  Faults = {}
  MaxRestarts = 0
  MaxStamp = 2
  NoRow = NoRow
  NoFile = NoFile
  NoJob = NoJob
SPECIFICATION FairSpec
PROPERTIES
  ActiveJobsSettle
  RequestsFinish
