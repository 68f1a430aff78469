CONSTANTS
  Instances = {i1}
  Runs = {r1}
  Conns = {c1, c2}
  Requests = {}
  NoInst = NoInst
  NoRun = NoRun
  NoConn = NoConn
  WasRunning = {r1}
  MaxStalls = 0
  BadCredentials = {}
  BadManifest = {}
  ReconnectWhen = "handled"
  MayCrash = TRUE
  Redeploys = FALSE
  OneAtATime = TRUE
  Failures = FALSE
  QueuedTicks = FALSE
SPECIFICATION Spec
PROPERTIES Rehydrated
