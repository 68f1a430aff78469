CONSTANTS
  Instances = {i1, i2}
  Runs = {r1}
  Conns = {c1, c2}
  Requests = {}
  NoInst = NoInst
  NoRun = NoRun
  NoConn = NoConn
  WasRunning = {r1}
  MaxStalls = 1
  BadCredentials = {}
  BadManifest = {}
  ReconnectWhen = "handled"
  MayCrash = FALSE
  Redeploys = FALSE
  OneAtATime = TRUE
  Failures = FALSE
  QueuedTicks = FALSE
SPECIFICATION Spec
PROPERTY TicksResume
