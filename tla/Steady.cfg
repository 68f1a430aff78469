CONSTANTS
  Instances = {i1}
  Runs = {r1, r2}
  Conns = {c1}
  Requests = {u1}
  NoInst = NoInst
  NoRun = NoRun
  NoConn = NoConn
  WasRunning = {NoRun}
  MaxStalls = 0
  BadCredentials = {}
  BadManifest = {}
  ReconnectWhen = "handled"
  MayCrash = FALSE
  Redeploys = TRUE
  OneAtATime = TRUE
  Failures = TRUE
  QueuedTicks = FALSE
SPECIFICATION Spec
INVARIANTS TypeOK StatusIsTrue
PROPERTY StopCompletes
