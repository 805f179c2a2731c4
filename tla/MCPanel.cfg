CONSTANTS
  LoginReq = {r1, r2}
  LoginIp = {1}
  MaxFailures = 2
  GuardWindow = 2
  GuardBan = 1
  GuardRetention = 2
  promptBudgetFactor = 1
  GuardTicks = 4
  GuardFaults = 1
  AcctReq = {r1, r2}
  MaxHash = 3
  MaxSteps = 2
  MaxSecret = 1
  TokReq = {r1, r2}
  MaxTokens = 2
  TokTicks = 3
  Tab = {r1, r2}
  Tick = Tick
  MinWindow = 1
  MaxWindow = 2
  MaxBytes = 2
  Saver = {s1}
  MaxCommits = 1
  MaxSeconds = 2
  MaxDrops = 1
  MaxRestarts = 1
  MaxRebuilds = 1
  SendBuffer = 1
  Channel = {tg, hook}
  Wedged = {tg}
  BusBuffer = 1
  QueueSize = 2
  NodeFlap = 2
  loginCooldown = 2
  PruneEvery = 3
  MaxProbes = 6
  MaxAttempts = 5
  MaxNow = 8
  MaxStarts = 2
SPECIFICATION PanelSpec
SYMMETRY Symmetry
CHECK_DEADLOCK FALSE
INVARIANTS RatesSafety AccessSafety 
PROPERTIES GuardSafety HubSafety
