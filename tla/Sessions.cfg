CONSTANTS
  MaxChecks = 1
  Expirations = 2
  Symbols = 2
  Foreign = {}
  Batch = 1
  Concurrency = 1
  Listeners = {l1}
  Settings <- TwoSettings
  MaxCopies = 2
  MaxTokens = 2
  MaxVersions = 2
  MaxBeats = 2
  MaxInstances = 1
  Errors = {"e"}
  Conditions = {"c"}
  Scans = 2
  MaxClock = 3
  RemindAfter = 2
  ClaimFor = 2
  KeepScans = 1
  MaxFilings = 2
  MaxScanLines = 1
SPECIFICATION MCSpec
INVARIANTS MCTypeOK HelpersEnd   HealthIsTold
  
CHECK_DEADLOCK FALSE
