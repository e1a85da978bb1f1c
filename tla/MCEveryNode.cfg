CONSTANTS
  n1 = n1
  n2 = n2
  n3 = n3
  Node = {n1, n2}
  NoNode = NoNode
  MaxInFlight = 2
  MaxFaults = 0
  ClientNodes = 2
  InteractionCycle = 2
  Counters = {1}
SPECIFICATION Spec
SYMMETRY BoardSymmetry
CHECK_DEADLOCK FALSE
INVARIANTS
  EveryNodeInAverage
