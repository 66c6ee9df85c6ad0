SPECIFICATION FairProcessSpec
CONSTANTS
  Others = {"pruner"}
  MaxFrames = 3
  MaxPanics = 1
  MaxDeaths = 2
INVARIANTS TotalIsAccounted
PROPERTIES NeverBackwards SignalEnds
CHECK_DEADLOCK FALSE
