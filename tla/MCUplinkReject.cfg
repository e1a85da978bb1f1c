CONSTANTS
  n1 = n1
  n2 = n2
  Node = {n1, n2}
  Fragments = 2
  MaxJsonSize = 5
  MaxModels = 3
SPECIFICATION ModelUplinkSpec
CHECK_DEADLOCK FALSE
INVARIANTS
  RejectedModelsAreTooBig
