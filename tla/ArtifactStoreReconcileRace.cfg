SPECIFICATION Spec
CONSTANTS
  a = a
  b = b
  m = m
  w = w
  f = f
  r = r
  Procs = {w, f, r}
  Artifacts <- MCArtifacts
  Categories <- MCCategories
  CategoryOf <- MCCategoryOf
  Menu <- RetryMenu
  Retriers = {}
  Auditors = {}
  MaxCalls = 1
  MaxCrashes = 0
  MaxLosses = 0
  TornWrites = FALSE
  SpinLimited = FALSE
  NoProc = NoProc
  NoArtifact = NoArtifact
  NoEntry = NoEntry
  Corrupt = Corrupt
PROPERTIES ReconcileAppendsOnlyMissing
CHECK_DEADLOCK FALSE
