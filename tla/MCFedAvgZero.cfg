CONSTANTS
  Layer = {"hidden"}
  Neurons = 2
  Models <- TwoModels
  Counters = {0, 1, 2}
  InteractionCycle = 3
  MaxReceived = 2
SPECIFICATION AvgSpec
CHECK_DEADLOCK FALSE
INVARIANTS
  AccumulatorIsZeroed
