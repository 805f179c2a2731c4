CONSTANTS
  HotSaver = {}
  RestartSaver = {r1}
  DepleteRun = {d1}
  ResetRun = {}
  Watchdog = {w1}
  Button = {}
  Toggle = {t1}
  App = {}
  Inbound = {i1}
  Fault = {"write", "row", "commit", "jobusers"}
  None = None
  Casts = {{r1, d1, w1, t1}}
SPECIFICATION CastLiveSpec

PROPERTIES SaveAnswered RestartArrives CoreComesBack
