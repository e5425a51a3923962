SPECIFICATION Spec
CONSTANTS
  WeekNs = 6
  MaxWeek = 3
  MaxInt = 15
  Intervals = {2, 5}
  Priority <- MCPriority
  MaxSatellites = 2
  MinObservations = 2
  Offset <- MCOffset
  SignalOrder <- MCSignalOrder
  NFreq = 2
  NExObs = 1
  FastPeriod = 4
  SlowPeriod = 24
  SignalNames = {"L1CA", "L5Q"}
  SamplingRates = {1, 5, 10, 20, 50}
  MaxInteger = 100
  MaxTicks = 100000000
  MaxSeed = 30
  Scenarios <- MCScenarios
CHECK_DEADLOCK FALSE
INVARIANT BuiltFileIsAccepted
