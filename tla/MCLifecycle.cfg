CONSTANTS
  HotSaver = {h1, h2}
  RestartSaver = {r1, r2, r3}
  DepleteRun = {}
  ResetRun = {x1}
  Watchdog = {w1}
  Button = {b1}
  Toggle = {t1}
  App = {a1}
  Inbound = {i1}
  Fault = {"start", "config", "jobusers", "write", "row", "commit"}
  None = None
  Casts = {{h1, h2, r3, w1, b1}, {r1, r2, x1, w1, t1, a1}}
SPECIFICATION CastSpec
SYMMETRY CastSymmetry
INVARIANTS TypeOK OneBox MaintenanceHolds RetiredHolds RestartNotLost ResetReachesCore UsersCurrent
