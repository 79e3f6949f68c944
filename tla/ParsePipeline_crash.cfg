CONSTANTS
  File = {f1}
  Job = {1}
  Request = {r1, r2}
  EnableRaptor = TRUE
  UploadDirs = {"uploads", "elsewhere"}
  Kinds = {"upload", "start", "result", "retry", "delete"}
  Faults = {"answer", "commit", "lose"}
  MaxRestarts = 2
  MaxStamp = 1
  NoRow = NoRow
  NoFile = NoFile
  NoJob = NoJob
SYMMETRY Symmetry
SPECIFICATION Spec
INVARIANTS
  Inv
PROPERTIES
  NoLostUpdates
  PartingsExplained
