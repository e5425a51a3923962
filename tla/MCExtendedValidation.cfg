SPECIFICATION Spec
CONSTANTS
  Timeline <- MCTimeline
  Multipath = FALSE
  Fifos = {"log", "event"}
  BufferRows = 1
  PipeRows = 1
CHECK_DEADLOCK FALSE
INVARIANTS
  TypeOK
  ManifestMeansComplete
  PassedRunIsCaptured
PROPERTY
  HarnessReports
