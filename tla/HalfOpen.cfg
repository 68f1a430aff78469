CONSTANTS
  Instances = {i1}
  Runs = {r1, r2}
  Conns = {c1, c2}
  Requests = {u1}
  NoInst = NoInst
  NoRun = NoRun
  NoConn = NoConn
  WasRunning = {r1}
  MaxStalls = 1
  BadCredentials = {}
  BadManifest = {i1}
  ReconnectWhen = "anytime"
  MayCrash = TRUE
  Redeploys = FALSE
  OneAtATime = TRUE
  Failures = FALSE
  QueuedTicks = FALSE
SPECIFICATION Spec
PROPERTY RegistrationRecovers
