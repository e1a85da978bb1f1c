CONSTANTS
  n1 = n1
  n2 = n2
  n3 = n3
  Node = {n1, n2, n3}
  NoNode = NoNode
  MaxInFlight = 1
  MaxFaults = 1
  ClientNodes = 2
  InteractionCycle = 1
  Counters = {0, 1}
SPECIFICATION Spec
SYMMETRY BoardSymmetry
CHECK_DEADLOCK FALSE
INVARIANTS
  RegistrationExact
  NoOrphanModel
  DivisorMatchesSum
