CONSTANTS
  HotSaver = {}
  RestartSaver = {}
  DepleteRun = {d1}
  ResetRun = {x1}
  Watchdog = {w1}
  Button = {}
  Toggle = {}
  App = {}
  Inbound = {i1}
  Fault = {}
  None = None
SPECIFICATION Spec

INVARIANT ResetReachesCore
