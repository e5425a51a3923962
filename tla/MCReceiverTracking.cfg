SPECIFICATION Spec
CONSTANTS
  s1 = s1
  s2 = s2
  Signals = {s1, s2}
  Scenarios <- MCScenarios
  Interval = 2
  StartupDelays = {1, 3}
  AcquisitionDelays = {0, 3}
  PsrValidDelay = 0
  DopplerValidDelay = 1
  AdrValidDelay = 2
  RequiredSatellites = 1
  MinUsedSatellites = 2
  StableDuration = 2
  MaxEpochs = 7
SYMMETRY Symmetry
CHECK_DEADLOCK FALSE
INVARIANTS
  TypeOK
  EpochsNeverFail
  LockWithinAvailability
  RecoversInTime
  FixIsEarned
PROPERTY
  AmbiguityIdentifiesLock
  LocksServeNavigation
