SPECIFICATION Spec
CONSTANTS
  Scenarios <- MCScenarios
  Environments <- MCEnvironments
  Interval = 2
  StartupDelays = {1}
  AcquisitionDelays = {0, 3}
  PsrValidDelay = 0
  DopplerValidDelay = 1
  AdrValidDelay = 2
  MinTrackingCn0 = 1
  AcquisitionCn0 = 2
  AcquisitionPersistence = 2
  LossPersistence = 3
  RootJump = 2
  OpenCn0 = 2
  Cn0Delta = 1
  CodeBias = 1
  MaxRoots = 3
  MaxEpochs = 10
CHECK_DEADLOCK FALSE
PROPERTY
  LossReasonRetained
