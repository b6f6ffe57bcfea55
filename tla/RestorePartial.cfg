SPECIFICATION Spec
CONSTANTS
  Adapters <- MCAdapters
  MaxTrain = 0
  MaxFails = 1
INVARIANTS CommitsPreparedState
CHECK_DEADLOCK FALSE
