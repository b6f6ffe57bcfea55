SPECIFICATION Spec
CONSTANTS
  a = a
  b = b
  m = m
  w = w
  f = f
  r = r
  Procs = {w, f, r}
  Artifacts <- MCArtifacts
  Categories <- MCCategories
  CategoryOf <- MCCategoryOf
  Menu <- SealMenu
  Retriers = {}
  Auditors = {}
  MaxCalls = 2
  MaxCrashes = 1
  MaxLosses = 0
  TornWrites = TRUE
  SpinLimited = FALSE
  NoProc = NoProc
  NoArtifact = NoArtifact
  NoEntry = NoEntry
  Corrupt = Corrupt
INVARIANTS IntentSurvivesCrash
CHECK_DEADLOCK FALSE
