SPECIFICATION Spec
CONSTANTS
  Interval = 2
  CallerKinds = {"event", "urgent"}
  MaxRecords = 4
  MaxElapsed = 1
  MaxProgress = 1
  MaxCrashes = 2
INVARIANTS TypeOK StreamNeverCorrupt LossIsBounded CleanCloseIsComplete
PROPERTIES ClosureIsFinal
CHECK_DEADLOCK FALSE
