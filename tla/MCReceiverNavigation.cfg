SPECIFICATION Spec
CONSTANTS
  f = f
  g = g
  a = a
  b = b
  Families = {f, g}
  Ion = Ion
  Signals = {a, b}
  Scenarios <- MCScenarios
  TruthSchedule <- MCTruthSchedule
  Broadcast <- MCBroadcast
  Interval = 2
  LockDelays = {0, 1, 3}
  MaxEpochs = 8
CHECK_DEADLOCK FALSE
INVARIANTS
  DeliveredOnAir
  ColdEphemerisIsCollected
  CollectionMeetsDeadline
  NothingWithheld
PROPERTY
  NewestLast
