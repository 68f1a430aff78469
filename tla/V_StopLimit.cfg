CONSTANTS
  Jobs = {j1, j2}
  Cancellers = {c1, c2}
  NoJob = NoJob
  None = None
  QueueSize = 2
  MaxChunks = 4
  Deps = 1
  WriterFails = TRUE
  LastBar = 3
  BarsPerDay = 3
  Equities <- Shares
  Options = {"C"}
  Markets <- Data
  Kinds <- Asked
  MaxLegs = 2
  InitialCash = 9
  Fee = 1
  Multiplier = 2
  Strike = 2
  LastDay = 0
SPECIFICATION MCSpec
INVARIANT StopLimitKeepsLimit
CHECK_DEADLOCK FALSE
