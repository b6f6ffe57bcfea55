SPECIFICATION Spec
CONSTANTS
  Configs <- MCConfigs
  Window = 2
  MaxFaults = 2
  MaxRetries = 2
INVARIANTS TypeOK ResumeEqualsUninterrupted SealedIsCovered PendingSealExcludes CompletedIsBacked HeldOutIsNeverTrained LineageIsSealed PassIsSealed
CHECK_DEADLOCK FALSE
