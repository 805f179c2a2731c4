CONSTANTS
  Domain = {"d", "e", "o"}
  VhostForms <- MCForms
  OwnBlock = {"o"}
  OwnPath = "own"
  VhostSaves = 0
  VhostFaults = 0
  VhostIssues = 0
  MaxRelease = 3
  UpdateTries = 0
  UpdateFaults = 0
  UpdateKills = 0
  MaxCommitted = 0
  MaxImports = 0
  MaxExports = 0
  ImportFaults = 0
  ImportKills = 0
  Stored <- MCStored
  Binaries <- MCBinaries
  MigFaults = 1
  MigDowns = 2
  MigImports = 1
  MigSaves = 1
SPECIFICATION Spec
CHECK_DEADLOCK FALSE
INVARIANT StampedIsRepaired
