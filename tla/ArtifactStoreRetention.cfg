SPECIFICATION Spec
CONSTANTS
  a = a
  b = b
  m = m
  w = w
  f = f
  r = r
  Procs = {w, f, r}
  Artifacts <- MCArtifacts
  Categories <- MCCategories
  CategoryOf <- MCCategoryOf
  Menu <- RetentionMenu
  Retriers = {}
  Auditors = {}
  MaxCalls = 2
  MaxCrashes = 0
  MaxLosses = 1
  TornWrites = TRUE
  SpinLimited = TRUE
  NoProc = NoProc
  NoArtifact = NoArtifact
  NoEntry = NoEntry
  Corrupt = Corrupt
PROPERTIES RetentionStepsAreLegal
CHECK_DEADLOCK FALSE
