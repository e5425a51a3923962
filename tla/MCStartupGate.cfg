SPECIFICATION Spec
CONSTANTS
  s1 = s1
  s2 = s2
  Signals = {s1, s2}
  Scenarios <- MCShortRea
  Interval = 2
  StartupDelays = {9}
  AcquisitionDelays = {0}
  PsrValidDelay = 0
  DopplerValidDelay = 1
  AdrValidDelay = 2
  RequiredSatellites = 1
  MinUsedSatellites = 2
  StableDuration = 2
  MaxEpochs = 4
SYMMETRY Symmetry
CHECK_DEADLOCK FALSE
INVARIANT NothingUsableBeforeStartup
