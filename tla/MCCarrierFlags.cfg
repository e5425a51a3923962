SPECIFICATION Spec
CONSTANTS
  FllExitCn0 = 1
  FllEnterCn0 = 2
  PllExitCn0 = 3
  PllEnterCn0 = 4
  FllEnterPersistence = 2
  FllExitPersistence = 2
  PllEnterPersistence = 2
  PllExitPersistence = 2
  FllPullInDuration = 2
  DopplerValidAge = 1
  AdrValidPllAge = 2
  Cn0Values = {0, 1, 2, 3, 4}
  EpochSteps = {1, 3}
  MaxSegments = 2
PROPERTY NewSegmentsReported
