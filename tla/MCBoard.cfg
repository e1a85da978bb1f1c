SPECIFICATION FairBoardSpec
CONSTANTS
  Interval = 2
  Timeout = 8
  Answer = 2
  MayDie = TRUE
  Hold = 2
  MaxFrames = 2
  Given <- FullConfig
  UriParts <- BoardUri
  MaxStarts = 3
  MaxHeaders = 3
  MaxRetries = 3
  Pieces = 2
  Values = {1, 2}
  Reachable = TRUE
  MaxCalls = 2
  MaxBuffer = 3
  Networks <- SmallNetworks
  Inputs <- Samples
  Label <- FirstClass
  Kinds = {1, 2}
  Penalties = {0, 1, 2}
  Alpha = 2
  Lambda = 1
  Garbage <- Leftovers
  DataSets <- ShortFiles
  Fields = 2
  Cells = 2
  Epochs = 2
  PerEpoch = 3
  MaxRounds = 2
  NUM_INPUTS = 2
  AddressSpace = 2
  Input <- InputData
  Bias = 1
  Step = 2
  Unknown = 7
  MaxBreaks = 1
  MaxUpdates = 1
INVARIANTS
  BoardTypeOK
  OnlySilenceEndsIt
  DestroyFreesAll
  DeltasFollowTheChain
  MemoryOfDeltas
  TrainedAsCounted
  NeuronRunsRight
PROPERTIES
  SilentServerIsDropped
  CallIsAnswered
  CallReturns
CHECK_DEADLOCK FALSE
