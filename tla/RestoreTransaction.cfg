SPECIFICATION Spec
CONSTANTS
  Adapters <- MCAdapters
  MaxTrain = 2
  MaxFails = 4
INVARIANTS TypeOK FailureLeavesLiveUntouched CommitIsComplete
CHECK_DEADLOCK FALSE
