SPECIFICATION Spec
CONSTANTS
  Sheet <- MCSheet
  Worker = {w1, w2, w3}
  Short = Short
  Buffer = 1
  Idle = Idle
  NoReport = NoReport
SYMMETRY Symmetry
INVARIANTS
  TypeOK
  UploadComplete
  ReportFaithful
PROPERTIES
  ImplementsUpload
