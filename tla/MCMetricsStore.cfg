SPECIFICATION Spec
CONSTANTS
  Numbers = {n1}
  States = {"STREAMING", "FATAL"}
  None = None
  Partial = Partial
  MaxChanges = 2
INVARIANTS
  TypeOK
  FinalFilesAreCurrent
PROPERTIES
  FilesOnlyImprove
