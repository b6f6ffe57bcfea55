SPECIFICATION Spec
CONSTANTS
  Files = {"f"}
  Links = {"m"}
  Others = {"o"}
  Procs = {p1, p2}
  Trees <- MCTrees
  Edits <- MCEdits
  Settings <- MCSettings
  Attempts = {1, 2}
  Prefix <- MCPrefix
  MaxEdits = 1
  MaxCalls = 2
  MaxFaults = 1
INVARIANTS TypeOK EvidenceIsAccepted SpecificationIsFingerprinted RunHasOneSpecification PreparedIsRecorded CompleteIsHonest
SYMMETRY Symmetry
CHECK_DEADLOCK FALSE
