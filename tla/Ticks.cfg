CONSTANTS
  MaxTicks = 2
  MaxRuntimes = 2
  MaxSignals = 1
  MaxLegs = 2
  MaxFailures = 1
  Raises = {"on_tick", "submit_order", "bring_up"}
  Timeouts = TRUE
  Losses = TRUE
SPECIFICATION Spec
INVARIANTS TypeOK TicksInOrder OneRunner
PROPERTIES GivenUpIsDown EveryTickEnds
CHECK_DEADLOCK FALSE
