CONSTANTS
  Instances = {i1}
  Runs = {r1, r2}
  Conns = {c1, c2}
  Requests = {u1}
  NoInst = NoInst
  NoRun = NoRun
  NoConn = NoConn
  WasRunning = {r1}
  MaxStalls = 0
  BadCredentials = {}
  BadManifest = {}
  ReconnectWhen = "handled"
  MayCrash = FALSE
  Redeploys = FALSE
  OneAtATime = TRUE
  Failures = FALSE
  QueuedTicks = TRUE
SPECIFICATION Spec
 
PROPERTY Rehydrated
