CONSTANTS
  InbTag <- MCInbTag
  NodeNames = {"n", "k"}
  FirstName = "n"
  ListClient = {c1}
  MaxInbs = 2
  MaxSaves = 4
  ObjSpec <- MCObjSpec
  FinalTags = {"", "a"}
  MaxObj = 6
  MaxRows = 2
  MaxChanges = 2
  MaxFaults = 1
  MonthLen <- MCMonthLen
  ResetDaysSet = {0, 1, 2}
  ResetDomSet = {0, 2}
  SpecSet = {0, 1}
  Volume = 0
  MaxClock = 7
  Account = {a1, a2}
  MaxMoved = 3
  MaxNodeChanges = 2
  Chunk = {h1, h2}
  Flusher = {f1, f2}
  Fault = {"seed", "commit"}
  Purge = TRUE
  Saver = Saver
  None = None
SPECIFICATION DataSpec
CHECK_DEADLOCK FALSE
INVARIANTS NeverTwice OffKeepsLateOnly  CountedOnceUntilEdit
PROPERTIES LinkSafety 
