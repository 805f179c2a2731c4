CONSTANTS
  Source <- MCSource
  MaxConns = 3
  MaxTicks = 3
  MaxTrackers = 2
  MaxLimit = 1
  BanTTL = 2
  IdleGrace = 1
  HoldMemory = 1
  BanLease = 1
  BanMaxSize = 2
  Session = {s1, s2}
  Member = {m1, m2}
  MaxBuilds = 2
SPECIFICATION Spec
SYMMETRY Symmetry
CHECK_DEADLOCK FALSE
INVARIANT SessionSafety
 
