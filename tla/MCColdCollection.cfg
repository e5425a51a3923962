SPECIFICATION HeardSpec
CONSTANTS
  f = f
  a = a
  b = b
  Families = {f}
  Ion = Ion
  Signals = {a, b}
  Scenarios <- MCScenarios
  TruthSchedule <- MCTruthSchedule
  Broadcast <- MCBroadcast
  Interval = 2
  LockDelays = {0, 1, 3}
  MaxEpochs = 6
CHECK_DEADLOCK FALSE
INVARIANT
  FragmentsHeard
