SPECIFICATION Spec
CONSTANTS
  SCENARIOS <- MCScenarios
  Counts = {1, 2}
  Versions = {1, 2}
  MaxInvocations = 3
CHECK_DEADLOCK FALSE
INVARIANT
  CompleteEntriesHold
PROPERTY
  NoOverwriteKeepsFiles
