CONSTANTS
  Domain = {"d", "e", "o"}
  VhostForms <- MCForms
  OwnBlock = {"o"}
  OwnPath = "own"
  VhostSaves = 2
  VhostFaults = 1
  VhostIssues = 1
  MaxRelease = 3
  UpdateTries = 3
  UpdateFaults = 2
  UpdateKills = 1
  MaxCommitted = 1
  MaxImports = 2
  MaxExports = 1
  ImportFaults = 2
  ImportKills = 1
  Stored <- MCStored
  Binaries <- MCBinaries
  MigFaults = 1
  MigDowns = 2
  MigImports = 1
  MigSaves = 1
SPECIFICATION Spec
CHECK_DEADLOCK FALSE
INVARIANTS UpdateSafety 
  
