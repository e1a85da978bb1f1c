SPECIFICATION FairServerPartSpec
CONSTANTS
  n1 = n1
  n2 = n2
  Node = {n1, n2}
  Fragments = 2
  MaxJsonSize = 6
  MaxModels = 3
  Layer = {"hidden"}
  Neurons = 2
  Models <- TwoModels
  Counters = {0, 1, 2}
  InteractionCycle = 3
  MaxReceived = 2
  Shapes <- ThreeShapes
  Rounds = 2
  HeapSize = 130
  Published <- GlobalModels
  Trained <- NextWeight
  Unset = unset
  nan = nan
  NotFinite = {nan}
  MaxMessages = 2
  Evaluations <- ShortEvaluations
  PercentualEvaluation = 3
  Threshold = 1
INVARIANTS
  ServerPartsTypeOK
  DeliveredAsSent
  PublishesWeightedAverage
  NothingFreedIsUsed
  NetworksAreWhole
  ModelsSurviveTheTrip
  MetricsOfTheRows
PROPERTIES
  ImplementsLossyUplink
  UndisturbedModelsArrive
CHECK_DEADLOCK FALSE
