SPECIFICATION Spec
CONSTANTS
  MaxMembers = 17
  MaxTensors = 8
  SpillAt = 4
  MaxInMemory = 36
  MaxTensorBytes = 16
  MaxArchive = 60
  MaxManifest = 1
  ManifestSize <- MCManifestSize
  Savers = {s1}
  Loaders = {l1}
  Identities <- MCIdentities
  Given <- MCGiven
  Captures <- MCCaptures
  Foreign <- MCForeign
  Damage <- MCDamage
  Expected <- MCExpected
  MaxRecords = 2
  MaxFaults = 1
INVARIANTS TypeOK LoadedIsGenuine  SpillsAreOwned LoadedIsComplete ExactMeansSame SlotsResolveUnlessShared
CHECK_DEADLOCK FALSE
