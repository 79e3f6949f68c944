CONSTANTS
  File = {f1}
  Job = {1, 2}
  Request = {r1, r2}
  EnableRaptor = FALSE
  UploadDirs = {"uploads"}
  Kinds = {"upload", "start", "result", "delete"}
  Faults = {}
  MaxRestarts = 0
  MaxStamp = 1
  NoRow = NoRow
  NoFile = NoFile
  NoJob = NoJob
SYMMETRY Symmetry
SPECIFICATION Spec
INVARIANTS
  RowsTruthful
  ResultsBacked
  JobsHaveFiles
  Unblocked
  GuardsExact
PROPERTIES
  ImplementsLifecycle
  WorkShrinks
CONSTRAINT OneDeletion
