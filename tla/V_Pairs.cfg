CONSTANTS
  MaxTicks = 2
  MaxRuntimes = 1
  MaxSignals = 1
  MaxLegs = 1
  MaxFailures = 2
  Raises = {}
  Timeouts = TRUE
  Losses = FALSE
SPECIFICATION Spec
INVARIANT PairsFIFO
