SPECIFICATION FairSpec
CONSTANTS
  a = a
  b = b
  m = m
  w = w
  f = f
  r = r
  Procs = {w, f, r}
  Artifacts <- MCArtifacts
  Categories <- MCCategories
  CategoryOf <- MCCategoryOf
  Menu <- RetryMenu
  Retriers = {f}
  Auditors = {r}
  MaxCalls = 1
  MaxCrashes = 2
  MaxLosses = 0
  TornWrites = FALSE
  SpinLimited = FALSE
  NoProc = NoProc
  NoArtifact = NoArtifact
  NoEntry = NoEntry
  Corrupt = Corrupt
PROPERTIES EveryCallReturns PendingSealCompletes OrphanIsReconciled
