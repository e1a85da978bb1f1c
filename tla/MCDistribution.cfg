CONSTANTS
  n1 = n1
  n2 = n2
  n3 = n3
  Node = {n1, n2}
  NoNode = NoNode
  MaxInFlight = 1
  MaxFaults = 0
  ClientNodes = 2
  InteractionCycle = 1
  Counters = {1}
SPECIFICATION FairSpec
CHECK_DEADLOCK FALSE
PROPERTIES
  ModelReachesEveryNode
