CONSTANTS
  Source <- MCSource
  MaxConns = 2
  MaxTicks = 3
  MaxTrackers = 1
  MaxLimit = 1
  BanTTL = 1
  IdleGrace = 1
  HoldMemory = 1
  BanLease = 1
  BanMaxSize = 1
  Saver = {s1}
  MaxCommits = 2
  MaxSeconds = 2
  MaxDrops = 1
  MaxRestarts = 1
  MaxRebuilds = 0
  SendBuffer = 1
  Tab = {t1}
  Tick = Tick
  MinWindow = 1
  MaxWindow = 2
  MaxBytes = 1
  Channel = {tg, hook}
  Wedged = {tg}
  BusBuffer = 1
  QueueSize = 1
  NodeFlap = 1
  loginCooldown = 2
  PruneEvery = 3
  MaxProbes = 3
  MaxAttempts = 0
  MaxNow = 0
  MaxStarts = 1
  MaxRelease = 2
  UpdateTries = 2
  UpdateFaults = 2
  UpdateKills = 1
SPECIFICATION AllSpec
CHECK_DEADLOCK FALSE
PROPERTIES  TabCatchesUp BackgroundGoesOn
